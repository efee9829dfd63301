-------------------------- MODULE PermissionEpoch --------------------------
(***************************************************************************)
(* How a role change reaches the access tokens already handed out to one   *)
(* user.  A login or refresh opens a transaction (its start is the         *)
(* session row's issued_at), commits the row, then reads the user's scopes *)
(* and encodes them in a JWT whose expiry counts from the encoding.        *)
(* A role replacement commits the new roles, then writes the current time  *)
(* to perm_epoch:{user_id} in Valkey, with a TTL.  An authenticated        *)
(* request refuses a token whose issued_at is not after perm_epoch.        *)
(*                                                                         *)
(* `version` numbers the role sets the user has had.  The time a change    *)
(* stamps and the SET that carries it are two steps: the SETs of two       *)
(* changes may reach Valkey in the other order.  Logout and revoke_before  *)
(* refuse tokens too and are left to SessionTokens; a Valkey outage only   *)
(* refuses more.                                                           *)
(***************************************************************************)
EXTENDS Naturals

CONSTANTS
    Tokens,         \* access tokens, each minted by one login or refresh
    Changes,        \* role replacements of this user
    AccessTtl,      \* access_token_ttl_seconds
    EpochTtl,       \* perm_epoch_ttl_seconds
    MaxDuration,    \* bound: no request runs longer than this
    MaxTime         \* bound: the clock stops here

\* Both TTLs are 900 seconds.
ASSUME TtlAssumption ==
    /\ AccessTtl \in Nat /\ EpochTtl \in Nat
    /\ MaxDuration \in Nat /\ MaxTime \in Nat
    /\ AccessTtl <= EpochTtl

VARIABLES
    now,
    version,                    \* user_roles: the user's current role set
    epoch, epochExpires,        \* perm_epoch:{user_id} and when its key expires
    mint, issuedAt, scopes, expires,                    \* per token
    change, begunAt, stamp, made,                       \* per role change
    announced, announcedVersion \* newest stamp and role set ever SET in Valkey

mintVars == <<mint, issuedAt, scopes, expires>>
changeVars == <<version, change, begunAt, stamp, made>>
epochVars == <<epoch, epochExpires, announced, announcedVersion>>
vars == <<now, mintVars, changeVars, epochVars>>

Later(a, b) == IF a < b THEN b ELSE a

-----------------------------------------------------------------------------
(* Login and refresh, from the first statement to the encoded token.       *)

\* The first statement opens the transaction.
MintStart(t) ==
    /\ mint[t] = "none"
    /\ mint' = [mint EXCEPT ![t] = "open"]
    /\ issuedAt' = [issuedAt EXCEPT ![t] = now]
    /\ UNCHANGED <<now, scopes, expires, changeVars, epochVars>>

\* Mutant: a refresh copies the scopes of the user's first token.
MintReadScopesCopied(t) ==
    /\ mint[t] = "open"
    /\ mint' = [mint EXCEPT ![t] = "scoped"]
    /\ scopes' = [scopes EXCEPT ![t] = 0]
    /\ UNCHANGED <<now, issuedAt, expires, changeVars, epochVars>>

\* create_session is committed; resolve_scopes_for_user reads the roles.
MintReadScopes(t) ==
    /\ mint[t] = "open"
    /\ mint' = [mint EXCEPT ![t] = "scoped"]
    /\ scopes' = [scopes EXCEPT ![t] = version]
    /\ UNCHANGED <<now, issuedAt, expires, changeVars, epochVars>>

\* encode_access_token, after the roles were read a second time.
MintEncode(t) ==
    /\ mint[t] = "scoped"
    /\ mint' = [mint EXCEPT ![t] = "minted"]
    /\ expires' = [expires EXCEPT ![t] = now + AccessTtl]
    /\ UNCHANGED <<now, issuedAt, scopes, changeVars, epochVars>>

MintAbort(t) ==
    /\ mint[t] \in {"open", "scoped"}
    /\ mint' = [mint EXCEPT ![t] = "lost"]
    /\ UNCHANGED <<now, issuedAt, scopes, expires, changeVars, epochVars>>

Minting(t) == mint[t] \in {"open", "scoped"}

-----------------------------------------------------------------------------
(* replace_user_roles.                                                     *)

ChangeCommit(c) ==
    /\ change[c] = "none"
    /\ change' = [change EXCEPT ![c] = "committed"]
    /\ version' = version + 1
    /\ made' = [made EXCEPT ![c] = version + 1]
    /\ begunAt' = [begunAt EXCEPT ![c] = now]
    /\ UNCHANGED <<now, stamp, mintVars, epochVars>>

\* set_perm_epoch: the time is taken ...
ChangeStamp(c) ==
    /\ change[c] = "committed"
    /\ change' = [change EXCEPT ![c] = "stamped"]
    /\ stamp' = [stamp EXCEPT ![c] = now]
    /\ UNCHANGED <<now, version, made, begunAt, mintVars, epochVars>>

\* Mutant: the key's TTL counts from the stamp, and is a second short.
ChangeAnnounceShort(c) ==
    /\ change[c] = "stamped"
    /\ change' = [change EXCEPT ![c] = "done"]
    /\ epoch' = stamp[c]
    /\ epochExpires' = IF EpochTtl = 0 THEN stamp[c] ELSE stamp[c] + EpochTtl - 1
    /\ announced' = Later(announced, stamp[c])
    /\ announcedVersion' = Later(announcedVersion, made[c])
    /\ UNCHANGED <<now, version, made, begunAt, stamp, mintVars>>

\* ... and SET with its TTL, over whatever is there.
ChangeAnnounce(c) ==
    /\ change[c] = "stamped"
    /\ change' = [change EXCEPT ![c] = "done"]
    /\ epoch' = stamp[c]
    /\ epochExpires' = now + EpochTtl
    /\ announced' = Later(announced, stamp[c])
    /\ announcedVersion' = Later(announcedVersion, made[c])
    /\ UNCHANGED <<now, version, made, begunAt, stamp, mintVars>>

\* The process dies, or Valkey refuses the SET: the roles stay committed.
ChangeAbort(c) ==
    /\ change[c] \in {"committed", "stamped"}
    /\ change' = [change EXCEPT ![c] = "done"]
    /\ UNCHANGED <<now, version, made, begunAt, stamp, mintVars, epochVars>>

Changing(c) == change[c] \in {"committed", "stamped"}

-----------------------------------------------------------------------------
EpochPresent == now < epochExpires

\* get_authenticated_user, as far as the expiry and perm_epoch decide.
Accepted(t) ==
    /\ mint[t] = "minted"
    /\ now < expires[t]
    /\ ~(EpochPresent /\ issuedAt[t] <= epoch)

-----------------------------------------------------------------------------
Init ==
    /\ now = 0
    /\ version = 0
    /\ epoch = 0 /\ epochExpires = 0
    /\ announced = 0 /\ announcedVersion = 0
    /\ mint = [t \in Tokens |-> "none"]
    /\ issuedAt = [t \in Tokens |-> 0]
    /\ scopes = [t \in Tokens |-> 0]
    /\ expires = [t \in Tokens |-> 0]
    /\ change = [c \in Changes |-> "none"]
    /\ begunAt = [c \in Changes |-> 0]
    /\ stamp = [c \in Changes |-> 0]
    /\ made = [c \in Changes |-> 0]

\* No request outlives MaxDuration.
Tick ==
    /\ now < MaxTime
    /\ \A t \in Tokens : Minting(t) => now < issuedAt[t] + MaxDuration
    /\ \A c \in Changes : Changing(c) => now < begunAt[c] + MaxDuration
    /\ now' = now + 1
    /\ UNCHANGED <<mintVars, changeVars, epochVars>>

Next ==
    \/ \E t \in Tokens :
         \/ MintStart(t)
         \/ MintReadScopes(t)
         \/ MintEncode(t)
         \/ MintAbort(t)
    \/ \E c \in Changes :
         \/ ChangeCommit(c)
         \/ ChangeStamp(c)
         \/ ChangeAnnounce(c)
         \/ ChangeAbort(c)
    \/ Tick

Spec == Init /\ [][Next]_vars

-----------------------------------------------------------------------------
\* Every variable has its type; times and versions are natural numbers.
TypeOK ==
    /\ now \in 0 .. MaxTime
    /\ version \in Nat
    /\ epoch \in Nat /\ epochExpires \in Nat
    /\ announced \in Nat /\ announcedVersion \in Nat
    /\ mint \in [Tokens -> {"none", "open", "scoped", "minted", "lost"}]
    /\ issuedAt \in [Tokens -> Nat]
    /\ scopes \in [Tokens -> Nat]
    /\ expires \in [Tokens -> Nat]
    /\ change \in [Changes -> {"none", "committed", "stamped", "done"}]
    /\ begunAt \in [Changes -> Nat]
    /\ stamp \in [Changes -> Nat]
    /\ made \in [Changes -> Nat]

\* Once a role change has reached Valkey, no token whose login or refresh
\* began a request's duration or more before the change's stamp is accepted
\* again: not while the key lives, not after it expires, and not when the
\* SETs of two changes arrive in the other order.
OldTokensAreRefused ==
    \A t \in Tokens :
        /\ announcedVersion > 0
        /\ issuedAt[t] + MaxDuration <= announced
        => ~Accepted(t)

\* FR-2 of US-3.2, its second half: a login or refresh begun after every
\* announced change's stamp reads the roles of the newest of them, in
\* whichever order the changes committed, stamped and reached Valkey.
RefreshPicksUpChange ==
    \A t \in Tokens :
        mint[t] \in {"scoped", "minted"} /\ announced < issuedAt[t]
            => scopes[t] >= announcedVersion

\* FR-2 of US-3.2: a token issued before a role change, so with the older
\* scopes, gets token-stale once the change has been announced.
StaleTokensAreRefused ==
    \A t \in Tokens : Accepted(t) => scopes[t] >= announcedVersion

=============================================================================
