--------------------------- MODULE SingleUseChain ---------------------------
(***************************************************************************)
(* What the refresh-token store promises of rotation, without requests,    *)
(* locks or time: a family is a chain that starts at a login and grows     *)
(* only by spending one of its unspent tokens, each at most once, for      *)
(* exactly one fresh successor.                                            *)
(***************************************************************************)
CONSTANTS Tokens, None

VARIABLES
    family,     \* Tokens -> the family of an issued token, None before
    spent       \* tokens that have been rotated away

chainVars == <<family, spent>>

Init ==
    /\ family = [t \in Tokens |-> None]
    /\ spent = {}

\* A login opens a family named by its first token.
Open(n) ==
    /\ family[n] = None
    /\ family' = [family EXCEPT ![n] = n]
    /\ UNCHANGED spent

\* A rotation spends t and puts the fresh token n in its place.
Advance(t, n) ==
    /\ family[t] # None
    /\ t \notin spent
    /\ family[n] = None
    /\ family' = [family EXCEPT ![n] = family[t]]
    /\ spent' = spent \cup {t}

Next ==
    \/ \E n \in Tokens : Open(n)
    \/ \E t, n \in Tokens : Advance(t, n)

Spec == Init /\ [][Next]_chainVars
=============================================================================
