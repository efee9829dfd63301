--------------------------- MODULE LoginMfaProofs ---------------------------
(***************************************************************************)
(* For any number of requests, any thresholds and any times to live that   *)
(* LoginAssumption admits: wrong passwords and wrong codes are bounded by  *)
(* the threshold plus the requests that can be under way and those that    *)
(* failed, and neither a TOTP step nor a recovery code logs in twice.      *)
(***************************************************************************)
EXTENDS LoginMfa, FiniteSetTheorems, TLAPS

\* The requests at a label, and those of them with an mfa_token.
At(pc) == {r \in Requests : request[r].pc = pc}
On(pc, t) == {r \in Requests : request[r].pc = pc /\ request[r].token = t}

\* The requests that may still find a code of an mfa_token wrong.
Trying(t) ==
    {r \in Requests : request[r].pc \in {"verify", "marking"} /\ request[r].token = t}

\* The requests that are about to complete a login by a TOTP step or by a
\* recovery code.
ByStep(k) ==
    {r \in Requests : /\ request[r].pc \in {"consuming", "minting"}
                      /\ request[r].code.kind = "totp" /\ request[r].code.n = k}
ByCode(c) ==
    {r \in Requests : /\ request[r].pc = "minting"
                      /\ request[r].code.kind = "recovery" /\ request[r].code.n = c}

\* A request of /auth/mfa/verify works with an mfa_token; one that marks a
\* step or consumes its token has a TOTP code, which was not too early when
\* it was checked.
VerifyPCs == {"verify", "marking", "count_attempt", "locking", "consuming", "minting"}
RequestInv ==
    \A r \in Requests :
        /\ request[r].pc \in VerifyPCs => request[r].token \in MfaTokens
        /\ request[r].pc \in {"marking", "consuming"} => request[r].code.kind = "totp"
        /\ request[r].pc = "marking" => request[r].code.n \in 0 .. now + 1

\* Every wrong password is counted, about to be, or its request failed, and
\* every request that passed the check holds one of the guesses left.
GuessInv ==
    /\ guesses <= failures.account.n + Cardinality(At("count_account")) + failed.guesses
    /\ guesses + Cardinality(At("password"))
           < AccountThreshold + Cardinality(Requests) + failed.guesses

\* The counter of an mfa_token never exceeds the wrong codes tried with it;
\* while the token lives the counter does too, has counted every try whose
\* request neither failed nor is about to count it, and the tries are past
\* the threshold by no more than the requests that failed, are about to count
\* or are about to delete the token.
Tries(t) ==
    /\ attempts[t].n + Cardinality(On("count_attempt", t)) <= tries[t]
    /\ tries[t] + Cardinality(Trying(t))
           < MfaThreshold + Cardinality(Requests) + failed.tries[t]
    /\ mfaToken[t] # 0 =>
         /\ tries[t] <= attempts[t].n + Cardinality(On("count_attempt", t)) + failed.tries[t]
         /\ tries[t] < MfaThreshold + Cardinality(On("count_attempt", t))
                          + Cardinality(On("locking", t)) + failed.tries[t]
         /\ attempts[t].n # 0 => mfaToken[t] <= attempts[t].until
TryInv == \A t \in MfaTokens : Tries(t)

\* The step of a login is marked until a second mark would be overdue; one
\* request at most is about to complete a login with it, and then none has.
StepInv ==
    \A k \in Steps \ late :
        /\ \A r \in ByStep(k) : logins.step[k] = 0 /\ ByStep(k) = {r}
        /\ logins.step[k] > 0 \/ ByStep(k) # {}
               => k + MfaTtl <= now + 1 \/ k + MfaTtl <= used[k] + 1

\* Likewise a recovery code is consumed before it completes a login.
CodeInv ==
    \A c \in RecoveryCodes :
        /\ \A r \in ByCode(c) : logins.code[c] = 0 /\ ByCode(c) = {r}
        /\ recovery[c] \in {"undrawn", "unused"} => ByCode(c) = {}

IInv ==
    /\ TypeOK
    /\ RequestInv
    /\ GuessInv
    /\ TryInv
    /\ StepInv /\ StepLogsInOnce
    /\ CodeInv /\ RecoveryCodeLogsInOnce

-----------------------------------------------------------------------------
(* Facts about the constants, the records and the requests.                *)

LEMMA Constants ==
    /\ IsFiniteSet(Requests) /\ Cardinality(Requests) \in Nat
    /\ AccountThreshold \in Nat /\ AccountThreshold >= 1
    /\ IpThreshold \in Nat /\ Window \in Nat
    /\ MfaThreshold \in Nat /\ MfaThreshold >= 1
    /\ MfaTtl \in Nat /\ MfaTtl >= 3
    /\ MaxTokens \in Nat /\ MaxTime \in Nat /\ MaxRequests \in Nat
    /\ MaxSecrets \in Nat /\ MaxSecrets >= 1
    /\ MaxCodes \in Nat /\ MaxCodes >= 1
<1>1. Cardinality(Requests) \in Nat
  BY LoginAssumption, FS_CardinalityType
<1> QED
  BY <1>1, LoginAssumption

Record == [pc : PCs, user : Users, token : 0 .. MaxTokens, code : Codes]

\* Request r goes to pc with a token and a code; the others stay.
Moves(r, pc, t, c) ==
    /\ request' \in [Requests -> Record]
    /\ request'[r].pc = pc /\ request'[r].token = t /\ request'[r].code = c
    /\ \A s \in Requests : s # r => request'[s] = request[s]

LEMMA IdleRecord == Idle \in Record /\ WrongCode \in Codes /\ NoUser \in Users
<1>1. WrongCode \in Codes
  BY DEF Codes
<1>2. NoUser \in Users
  BY Constants DEF NoUser, Users
<1> QED
  BY <1>1, <1>2, Constants DEF Idle, Record, PCs

LEMMA GotoMoves ==
    ASSUME request \in [Requests -> Record], NEW r \in Requests,
           NEW pc \in PCs, Goto(r, pc)
    PROVE  Moves(r, pc, request[r].token, request[r].code)
BY DEF Goto, Moves, Record

LEMMA DoneMoves ==
    ASSUME request \in [Requests -> Record], NEW r \in Requests, Done(r)
    PROVE  Moves(r, "idle", 0, WrongCode)
<1>1. Idle.pc = "idle" /\ Idle.token = 0 /\ Idle.code = WrongCode
  BY DEF Idle
<1> QED
  BY <1>1, IdleRecord DEF Done, Moves

LEMMA SetMoves ==
    ASSUME request \in [Requests -> Record], NEW r \in Requests, NEW q \in Record,
           request' = [request EXCEPT ![r] = q]
    PROVE  Moves(r, q.pc, q.token, q.code)
BY DEF Moves

Ind(P) == IF P THEN 1 ELSE 0

\* What a move does to the size of a set of requests.
LEMMA Recount ==
    ASSUME NEW S, NEW T, NEW r, IsFiniteSet(S), IsFiniteSet(T),
           \A s : s # r => (s \in S <=> s \in T)
    PROVE  /\ Cardinality(S) \in Nat /\ Cardinality(T) \in Nat
           /\ Cardinality(T) = Cardinality(S) + Ind(r \in T) - Ind(r \in S)
<1>1. Cardinality(S) \in Nat /\ Cardinality(T) \in Nat
  BY FS_CardinalityType
<1>2. CASE r \in S <=> r \in T
  <2>1. S = T
    BY <1>2
  <2> QED BY <2>1, <1>1 DEF Ind
<1>3. CASE r \in T /\ r \notin S
  <2>1. T = S \cup {r}
    BY <1>3
  <2>2. Cardinality(T) = Cardinality(S) + 1
    BY <2>1, <1>3, FS_AddElement
  <2> QED BY <2>2, <1>3, <1>1 DEF Ind
<1>4. CASE r \in S /\ r \notin T
  <2>1. S = T \cup {r}
    BY <1>4
  <2>2. Cardinality(S) = Cardinality(T) + 1
    BY <2>1, <1>4, FS_AddElement
  <2> QED BY <2>2, <1>4, <1>1 DEF Ind
<1> QED
  BY <1>2, <1>3, <1>4

LEMMA Counts1 ==
    ASSUME NEW r \in Requests, NEW pc, NEW t, NEW c, Moves(r, pc, t, c)
    PROVE  \A x : /\ Cardinality(At(x)) \in Nat
                  /\ Cardinality(At(x)') =
                        Cardinality(At(x)) + Ind(pc = x) - Ind(request[r].pc = x)
<1> TAKE x
<1>1. At(x) \subseteq Requests /\ At(x)' \subseteq Requests
  BY DEF At
<1>2. IsFiniteSet(At(x)) /\ IsFiniteSet(At(x)')
  BY <1>1, Constants, FS_Subset
<1>3. \A s : s # r => (s \in At(x) <=> s \in At(x)')
  BY DEF At, Moves
<1>4. (r \in At(x) <=> request[r].pc = x) /\ (r \in At(x)' <=> pc = x)
  BY DEF At, Moves
<1> QED
  BY <1>2, <1>3, <1>4, Recount DEF Ind

LEMMA Counts2 ==
    ASSUME NEW r \in Requests, NEW pc, NEW t, NEW c, Moves(r, pc, t, c)
    PROVE  \A x, u :
             /\ Cardinality(On(x, u)) \in Nat
             /\ Cardinality(On(x, u)') =
                   Cardinality(On(x, u)) + Ind(pc = x /\ t = u)
                       - Ind(request[r].pc = x /\ request[r].token = u)
<1> TAKE x, u
<1>1. On(x, u) \subseteq Requests /\ On(x, u)' \subseteq Requests
  BY DEF On
<1>2. IsFiniteSet(On(x, u)) /\ IsFiniteSet(On(x, u)')
  BY <1>1, Constants, FS_Subset
<1>3. \A s : s # r => (s \in On(x, u) <=> s \in On(x, u)')
  BY DEF On, Moves
<1>4. /\ r \in On(x, u) <=> request[r].pc = x /\ request[r].token = u
      /\ r \in On(x, u)' <=> pc = x /\ t = u
  BY DEF On, Moves
<1> QED
  BY <1>2, <1>3, <1>4, Recount DEF Ind

LEMMA Counts3 ==
    ASSUME NEW r \in Requests, NEW pc, NEW t, NEW c, Moves(r, pc, t, c)
    PROVE  \A u :
             /\ Cardinality(Trying(u)) \in Nat
             /\ Cardinality(Trying(u)') =
                   Cardinality(Trying(u)) + Ind(pc \in {"verify", "marking"} /\ t = u)
                       - Ind(request[r].pc \in {"verify", "marking"} /\ request[r].token = u)
<1> TAKE u
<1>1. Trying(u) \subseteq Requests /\ Trying(u)' \subseteq Requests
  BY DEF Trying
<1>2. IsFiniteSet(Trying(u)) /\ IsFiniteSet(Trying(u)')
  BY <1>1, Constants, FS_Subset
<1>3. \A s : s # r => (s \in Trying(u) <=> s \in Trying(u)')
  BY DEF Trying, Moves
<1>4. /\ r \in Trying(u) <=> request[r].pc \in {"verify", "marking"} /\ request[r].token = u
      /\ r \in Trying(u)' <=> pc \in {"verify", "marking"} /\ t = u
  BY DEF Trying, Moves
<1> QED
  BY <1>2, <1>3, <1>4, Recount DEF Ind

\* Requests at different labels are different requests.
LEMMA Disjoint ==
    ASSUME NEW X, NEW Y, NEW Z, X \subseteq Requests, Y \subseteq Requests, Z \subseteq Requests,
           X \cap Y = {}, X \cap Z = {}, Y \cap Z = {}
    PROVE  Cardinality(X) + Cardinality(Y) + Cardinality(Z) <= Cardinality(Requests)
<1>1. IsFiniteSet(X) /\ IsFiniteSet(Y) /\ IsFiniteSet(Z) /\ IsFiniteSet(X \cup Y)
  BY Constants, FS_Subset, FS_Union
<1>2. Cardinality(X \cup Y) = Cardinality(X) + Cardinality(Y) - Cardinality(X \cap Y)
  BY <1>1, FS_Union
<1>3. Cardinality((X \cup Y) \cup Z)
          = Cardinality(X \cup Y) + Cardinality(Z) - Cardinality((X \cup Y) \cap Z)
  BY <1>1, FS_Union
<1>4. X \cap Y = {} /\ (X \cup Y) \cap Z = {} /\ (X \cup Y) \cup Z \subseteq Requests
  OBVIOUS
<1>5. Cardinality(X \cap Y) = 0 /\ Cardinality((X \cup Y) \cap Z) = 0
  BY <1>4, FS_EmptySet, Zenon
<1>6. Cardinality((X \cup Y) \cup Z) <= Cardinality(Requests)
  BY <1>4, Constants, FS_Subset
<1>7. /\ Cardinality(X) \in Nat /\ Cardinality(Y) \in Nat /\ Cardinality(Z) \in Nat
      /\ Cardinality(X \cup Y) \in Nat
  BY <1>1, FS_CardinalityType
<1>8. Cardinality(X \cup Y) = Cardinality(X) + Cardinality(Y)
  BY <1>2, <1>5, <1>7
<1>9. Cardinality((X \cup Y) \cup Z) = Cardinality(X) + Cardinality(Y) + Cardinality(Z)
  BY <1>3, <1>5, <1>7, <1>8
<1> QED
  BY <1>6, <1>9

-----------------------------------------------------------------------------
(* What the values written are.                                            *)

LEMMA Values ==
    ASSUME TypeOK
    PROVE  /\ request \in [Requests -> Record]
           /\ NoCount \in Counts
           /\ \A c \in Counts : IncrWithTtl(c, Window) \in Counts
                                /\ IncrWithTtl(c, MfaTtl) \in Counts
                                /\ Aged(c) \in Counts
<1>1. NoCount \in Counts
  BY Constants DEF NoCount, Counts
<1>2. now \in Nat /\ now <= MaxTime
  BY Constants DEF TypeOK
<1>3. \A c \in Counts : IncrWithTtl(c, Window) \in Counts /\ IncrWithTtl(c, MfaTtl) \in Counts
  BY <1>2, Constants DEF IncrWithTtl, Counts
<1> QED
  BY <1>1, <1>3 DEF TypeOK, Record, Aged

LEMMA UserValues ==
    ASSUME NEW u \in Users, NEW s \in 0 .. MaxSecrets
    PROVE  /\ WithSecret(u, s) \in Users /\ Activated(u) \in Users
           /\ Reenrolling(u) \in Users /\ Disabled(u) \in Users
<1> USE Constants DEF Users
<1>1. WithSecret(u, s) \in Users
  BY DEF WithSecret
<1>2. Activated(u) \in Users
  BY DEF Activated
<1>3. Reenrolling(u) \in Users
  BY DEF Reenrolling
<1>4. Disabled(u) \in Users
  <2> DEFINE v == [u EXCEPT !.enabled = FALSE]
             w == [v EXCEPT !.secret = 0]
  <2>1. v \in Users
    OBVIOUS
  <2>2. w \in Users
    <3> HIDE DEF v
    <3> QED BY <2>1
  <2>3. [w EXCEPT !.reenroll = FALSE] \in Users
    <3> HIDE DEF w
    <3> QED BY <2>2
  <2> QED BY <2>3 DEF Disabled
<1> QED
  BY <1>1, <1>2, <1>3, <1>4

\* The request that takes a step, and where it goes.
LEMMA LoginMoves ==
    ASSUME TypeOK, NEW r \in Requests
    PROVE  /\ LoginIp(r) => Moves(r, "ip", request[r].token, request[r].code)
           /\ LoginUnknown(r) => Moves(r, "count_ip", request[r].token, request[r].code)
           /\ LoginAccount(r) =>
                \/ Moves(r, "idle", 0, WrongCode)
                \/ /\ Moves(r, "password", request[r].token, request[r].code)
                   /\ failures.account.n < AccountThreshold
           /\ WrongPassword(r) => Moves(r, "count_account", 0, WrongCode)
           /\ CountAccount(r) => Moves(r, "count_ip", request[r].token, request[r].code)
           /\ CountIp(r) => Moves(r, "idle", 0, WrongCode)
           /\ GuessFails(r) => Moves(r, "idle", 0, WrongCode)
           /\ Refuse(r) => Moves(r, "idle", 0, WrongCode)
           /\ \A t \in MfaTokens : IssueMfaToken(r, t) => Moves(r, "idle", 0, WrongCode)
           /\ PasswordLogin(r) => Moves(r, "resetting", request[r].token, request[r].code)
           /\ ResetAccountFailures(r) => Moves(r, "idle", 0, WrongCode)
<1> USE Values DEF PCs
<1>1. LoginAccount(r) =>
         \/ Moves(r, "idle", 0, WrongCode)
         \/ /\ Moves(r, "password", request[r].token, request[r].code)
            /\ failures.account.n < AccountThreshold
  <2>1. CASE failures.account.n < AccountThreshold
    BY <2>1 DEF LoginAccount, Moves, Record, TypeOK
  <2> QED BY <2>1, DoneMoves DEF LoginAccount
<1>2. WrongPassword(r) => Moves(r, "count_account", 0, WrongCode)
  <2> DEFINE q == [Idle EXCEPT !.pc = "count_account"]
  <2>1. q \in Record /\ q.pc = "count_account" /\ q.token = 0 /\ q.code = WrongCode
    BY IdleRecord DEF Idle, Record
  <2> QED BY <2>1, SetMoves DEF WrongPassword
<1> QED
  BY <1>1, <1>2, GotoMoves, DoneMoves
  DEF LoginIp, LoginUnknown, CountAccount, CountIp, GuessFails, Refuse, IssueMfaToken,
      PasswordLogin, ResetAccountFailures

LEMMA EnrolMoves ==
    ASSUME TypeOK, NEW r \in Requests
    PROVE  /\ \A c \in Codes : ActivateRead(r, c) => Moves(r, "activating", 0, WrongCode)
           /\ \A c \in Codes : DisableRead(r, c) => Moves(r, "disabling", 0, WrongCode)
           /\ \A d \in RecoveryCodes : ActivateCommit(r, d) =>
                \/ Moves(r, "idle", 0, WrongCode)
                \/ Moves(r, "announcing", request[r].token, request[r].code)
           /\ AnnounceActivation(r) => Moves(r, "idle", 0, WrongCode)
           /\ DisableCommit(r) => Moves(r, "idle", 0, WrongCode)
<1> USE Values DEF PCs
<1>1. ASSUME NEW pc \in PCs, request' = [request EXCEPT ![r] = [Idle EXCEPT !.pc = pc, !.user = user]]
      PROVE  Moves(r, pc, 0, WrongCode)
  <2> DEFINE q == [Idle EXCEPT !.pc = pc, !.user = user]
  <2>1. q \in Record /\ q.pc = pc /\ q.token = 0 /\ q.code = WrongCode
    BY IdleRecord DEF Idle, Record, TypeOK
  <2> QED BY <1>1, <2>1, SetMoves
<1> QED
  BY <1>1, GotoMoves, DoneMoves
  DEF ActivateRead, DisableRead, ActivateCommit, AnnounceActivation, DisableCommit

LEMMA VerifyMoves ==
    ASSUME TypeOK, NEW r \in Requests
    PROVE  /\ \A t \in MfaTokens, c \in Codes : VerifyRead(r, t, c) => Moves(r, "verify", t, c)
           /\ \A b \in BOOLEAN : VerifyRecovery(r, b) =>
                \/ /\ Moves(r, "idle", 0, WrongCode) /\ recovery' = recovery
                \/ /\ Moves(r, "minting", request[r].token, request[r].code)
                   /\ recovery' = [recovery EXCEPT ![request[r].code.n] = "used"]
           /\ VerifyTotp(r) => Moves(r, "marking", request[r].token, request[r].code)
           /\ MarkStep(r) => Moves(r, "consuming", request[r].token, request[r].code)
           /\ VerifyFails(r) => Moves(r, "count_attempt", request[r].token, WrongCode)
           /\ RecordAttempt(r) =>
                \/ /\ Moves(r, "idle", 0, WrongCode)
                   /\ ~(attempts'[request[r].token].n >= MfaThreshold)
                \/ Moves(r, "locking", request[r].token, request[r].code)
           /\ AttemptFails(r) => Moves(r, "idle", 0, WrongCode)
           /\ InvalidateMfaToken(r) => Moves(r, "idle", 0, WrongCode)
           /\ ConsumeMfaToken(r) => Moves(r, "minting", request[r].token, request[r].code)
           /\ CompleteMfaLogin(r) => Moves(r, "idle", 0, WrongCode)
<1> USE Values DEF PCs
<1>1. ASSUME NEW t \in MfaTokens, NEW c \in Codes, VerifyRead(r, t, c)
      PROVE  Moves(r, "verify", t, c)
  <2> DEFINE q == [pc |-> "verify", user |-> user, token |-> t, code |-> c]
  <2>1. q \in Record
    BY DEF Record, TypeOK, MfaTokens
  <2> QED BY <1>1, <2>1, SetMoves DEF VerifyRead
<1>2. ASSUME NEW b \in BOOLEAN, VerifyRecovery(r, b)
      PROVE  \/ /\ Moves(r, "idle", 0, WrongCode) /\ recovery' = recovery
             \/ /\ Moves(r, "minting", request[r].token, request[r].code)
                /\ recovery' = [recovery EXCEPT ![request[r].code.n] = "used"]
  <2>1. CASE b
    <3>1. Reenrolling(request[r].user) \in Users
      BY Constants, UserValues DEF Record
    <3> QED BY <1>2, <2>1, <3>1 DEF VerifyRecovery, Moves, Record
  <2> QED BY <1>2, <2>1, DoneMoves DEF VerifyRecovery
<1>3. VerifyFails(r) => Moves(r, "count_attempt", request[r].token, WrongCode)
  <2> DEFINE q == [Idle EXCEPT !.pc = "count_attempt", !.token = request[r].token]
  <2>1. q \in Record /\ q.pc = "count_attempt" /\ q.token = request[r].token /\ q.code = WrongCode
    BY IdleRecord DEF Idle, Record
  <2>2. VerifyFails(r) => request' = [request EXCEPT ![r] = q]
    BY DEF VerifyFails
  <2> QED BY <2>1, <2>2, SetMoves
<1>4. RecordAttempt(r) =>
         \/ /\ Moves(r, "idle", 0, WrongCode)
            /\ ~(attempts'[request[r].token].n >= MfaThreshold)
         \/ Moves(r, "locking", request[r].token, request[r].code)
  <2> SUFFICES ASSUME RecordAttempt(r)
               PROVE  \/ /\ Moves(r, "idle", 0, WrongCode)
                         /\ ~(attempts'[request[r].token].n >= MfaThreshold)
                      \/ Moves(r, "locking", request[r].token, request[r].code)
    OBVIOUS
  <2>1. CASE attempts'[request[r].token].n >= MfaThreshold
    BY <2>1, GotoMoves DEF RecordAttempt
  <2> QED BY <2>1, DoneMoves DEF RecordAttempt
<1> QED
  BY <1>1, <1>2, <1>3, <1>4, GotoMoves, DoneMoves
  DEF VerifyTotp, MarkStep, AttemptFails, InvalidateMfaToken, ConsumeMfaToken, CompleteMfaLogin

LEMMA Update ==
    ASSUME NEW S, NEW T, NEW f \in [S -> T], NEW x, NEW v,
           x \in S => v \in T
    PROVE  [f EXCEPT ![x] = v] \in [S -> T]
OBVIOUS

\* TypeOK' once the request's move is known.
LEMMA LoginType ==
    ASSUME TypeOK, NEW r \in Requests,
           \/ LoginIp(r) \/ LoginUnknown(r) \/ LoginAccount(r) \/ WrongPassword(r)
           \/ CountAccount(r) \/ CountIp(r) \/ GuessFails(r) \/ Refuse(r)
           \/ \E t \in MfaTokens : IssueMfaToken(r, t)
           \/ PasswordLogin(r) \/ ResetAccountFailures(r)
    PROVE  TypeOK'
<1>1. request' \in [Requests -> Record]
  BY LoginMoves DEF Moves
<1> USE <1>1, Constants, Values DEF TypeOK, Record
<1>2. CASE LoginIp(r)
  BY <1>2 DEF LoginIp, Begin
<1>3. CASE \/ LoginUnknown(r) \/ LoginAccount(r) \/ Refuse(r) \/ PasswordLogin(r)
  BY <1>3 DEF LoginUnknown, LoginAccount, Refuse, PasswordLogin
<1>4. CASE WrongPassword(r)
  BY <1>4 DEF WrongPassword
<1>5. CASE CountAccount(r) \/ CountIp(r)
  BY <1>5 DEF CountAccount, CountIp
<1>8. CASE GuessFails(r)
  BY <1>8 DEF GuessFails
<1>6. CASE \E t \in MfaTokens : IssueMfaToken(r, t)
  BY <1>6 DEF IssueMfaToken
<1>7. CASE ResetAccountFailures(r)
  BY <1>7 DEF ResetAccountFailures, Scoped
<1> QED
  BY <1>2, <1>3, <1>4, <1>5, <1>6, <1>7, <1>8

LEMMA EnrolType ==
    ASSUME TypeOK, NEW r \in Requests,
           \/ \E c \in Codes : ActivateRead(r, c) \/ DisableRead(r, c)
           \/ \E c \in RecoveryCodes : ActivateCommit(r, c)
           \/ AnnounceActivation(r) \/ DisableCommit(r)
    PROVE  TypeOK'
<1>1. request' \in [Requests -> Record]
  BY EnrolMoves DEF Moves
<1> USE <1>1, Constants, Values, UserValues DEF TypeOK, Record
<1>2. CASE \E c \in Codes : ActivateRead(r, c) \/ DisableRead(r, c)
  BY <1>2 DEF ActivateRead, DisableRead, Begin
<1>3. CASE \E c \in RecoveryCodes : ActivateCommit(r, c)
  BY <1>3 DEF ActivateCommit, WithNewCode
<1>4. CASE AnnounceActivation(r)
  BY <1>4 DEF AnnounceActivation
<1>5. CASE DisableCommit(r)
  BY <1>5 DEF DisableCommit, WithoutCodes
<1> QED
  BY <1>2, <1>3, <1>4, <1>5

LEMMA VerifyType ==
    ASSUME TypeOK, RequestInv, NEW r \in Requests,
           \/ \E t \in MfaTokens, c \in Codes : VerifyRead(r, t, c)
           \/ \E b \in BOOLEAN : VerifyRecovery(r, b)
           \/ VerifyTotp(r) \/ MarkStep(r) \/ VerifyFails(r)
           \/ RecordAttempt(r) \/ AttemptFails(r) \/ InvalidateMfaToken(r)
           \/ ConsumeMfaToken(r) \/ CompleteMfaLogin(r)
    PROVE  TypeOK'
<1>1. request' \in [Requests -> Record]
  BY VerifyMoves DEF Moves
<1> USE <1>1, Constants, Values, UserValues DEF TypeOK, Record
<1>2. CASE \E t \in MfaTokens, c \in Codes : VerifyRead(r, t, c)
  BY <1>2 DEF VerifyRead, Begin
<1>3. CASE \E b \in BOOLEAN : VerifyRecovery(r, b)
  BY <1>3 DEF VerifyRecovery
<1>4. CASE MarkStep(r)
  <2>1. used' = [used EXCEPT ![request[r].code.n] = now + MfaTtl]
    BY <1>4 DEF MarkStep, MarkStepUsed
  <2>2. used' \in [Steps -> {0} \cup now + 1 .. now + MfaTtl]
    <3>1. now + MfaTtl \in {0} \cup now + 1 .. now + MfaTtl
      OBVIOUS
    <3>2. used \in [Steps -> {0} \cup now + 1 .. now + MfaTtl]
      OBVIOUS
    <3> QED BY ONLY <2>1, <3>1, <3>2, Update
  <2>3. UNCHANGED <<now, user, secrets, recovery, failures, mfaToken, attempts,
                    served, guesses, tries, failed, logins, restricted>>
    BY <1>4 DEF MarkStep
  <2>4. late' \subseteq Steps
    <3>1. /\ request[r].code.n \in Nat /\ request[r].code.n <= now + 1
          /\ now \in Nat /\ now <= MaxTime
      BY <1>4 DEF MarkStep, RequestInv
    <3>2. request[r].code.n \in Steps
      BY <3>1 DEF Steps
    <3> QED BY <1>4, <3>2 DEF MarkStep
  <2> QED BY <2>2, <2>3, <2>4
<1>9. CASE VerifyTotp(r)
  BY <1>9 DEF VerifyTotp
<1>10. CASE AttemptFails(r)
  <2>1. failed' = [failed EXCEPT !.tries[request[r].token] = @ + 1]
    BY <1>10 DEF AttemptFails
  <2>2. failed' \in [guesses : Nat, tries : [MfaTokens -> Nat]]
    BY <2>1
  <2>3. UNCHANGED <<now, user, secrets, recovery, failures, mfaToken, attempts, used,
                    served, guesses, tries, late, logins, restricted>>
    BY <1>10 DEF AttemptFails
  <2> QED BY <2>2, <2>3
<1>5. CASE VerifyFails(r)
  <2>1. tries' = [tries EXCEPT ![request[r].token] = @ + 1]
    BY <1>5 DEF VerifyFails
  <2>2. tries' \in [MfaTokens -> Nat]
    <3>1. tries \in [MfaTokens -> Nat]
      OBVIOUS
    <3>2. request[r].token \in MfaTokens => tries[request[r].token] + 1 \in Nat
      BY <3>1
    <3> QED BY ONLY <2>1, <3>1, <3>2, Update
  <2>3. UNCHANGED <<now, user, secrets, recovery, failures, mfaToken, attempts, used,
                    served, guesses, failed, late, logins, restricted>>
    BY <1>5 DEF VerifyFails
  <2> QED BY <2>2, <2>3
<1>6. CASE RecordAttempt(r)
  BY <1>6 DEF RecordAttempt
<1>7. CASE InvalidateMfaToken(r)
  BY <1>7 DEF InvalidateMfaToken
<1>11. CASE ConsumeMfaToken(r)
  BY <1>11 DEF ConsumeMfaToken
<1>8. CASE CompleteMfaLogin(r)
  <2> DEFINE More(count, i) == [count EXCEPT ![i] = IF @ < Many THEN @ + 1 ELSE @]
  <2>1. ASSUME NEW S, NEW i, NEW count \in [S -> 0 .. Many]
        PROVE  More(count, i) \in [S -> 0 .. Many]
    <3>1. i \in S => (IF count[i] < Many THEN count[i] + 1 ELSE count[i]) \in 0 .. Many
      BY DEF Many
    <3> QED BY ONLY <3>1, Update, count \in [S -> 0 .. Many]
  <2>2. /\ logins.token \in [MfaTokens -> 0 .. Many] /\ logins.step \in [Steps -> 0 .. Many]
        /\ logins.code \in [RecoveryCodes -> 0 .. Many]
    OBVIOUS
  <2>3. /\ \A i : More(logins.token, i) \in [MfaTokens -> 0 .. Many]
        /\ \A i : More(logins.step, i) \in [Steps -> 0 .. Many]
        /\ \A i : More(logins.code, i) \in [RecoveryCodes -> 0 .. Many]
    <3> HIDE DEF More
    <3> QED BY <2>1, <2>2
  <2>4. logins' = [token |-> More(logins.token, request[r].token),
                   step |-> IF request[r].code.kind = "totp"
                            THEN More(logins.step, request[r].code.n) ELSE logins.step,
                   code |-> IF request[r].code.kind = "recovery"
                            THEN More(logins.code, request[r].code.n) ELSE logins.code]
    BY <1>8 DEF CompleteMfaLogin
  <2>5. logins' \in [token : [MfaTokens -> 0 .. Many], step : [Steps -> 0 .. Many],
                     code : [RecoveryCodes -> 0 .. Many]]
    <3> HIDE DEF More
    <3> QED BY <2>2, <2>3, <2>4
  <2>6. /\ restricted' \in BOOLEAN
        /\ UNCHANGED <<now, user, secrets, recovery, failures, mfaToken, attempts, used,
                       served, guesses, tries, failed, late>>
    BY <1>8 DEF CompleteMfaLogin, Scoped
  <2> QED BY <2>5, <2>6
<1> QED
  BY <1>2, <1>3, <1>4, <1>5, <1>6, <1>7, <1>8, <1>9, <1>10, <1>11

LEMMA OtherType ==
    ASSUME TypeOK, EnrollMfa \/ Tick
    PROVE  TypeOK'
<1> USE Constants, Values, UserValues DEF TypeOK
<1>1. CASE EnrollMfa
  <2>1. secrets + 1 \in 0 .. MaxSecrets
    BY <1>1 DEF EnrollMfa
  <2>2. user' \in Users
    BY <1>1, <2>1 DEF EnrollMfa
  <2> QED BY <1>1, <2>1, <2>2 DEF EnrollMfa
<1>2. CASE Tick
  <2>1. now' \in 0 .. MaxTime /\ now' = now + 1
    BY <1>2 DEF Tick
  <2>2. failures' \in [account : Counts, ip : Counts]
    BY <1>2 DEF Tick
  <2>3. attempts' \in [MfaTokens -> Counts]
    BY <1>2 DEF Tick
  <2>4. /\ mfaToken' \in [MfaTokens -> {0} \cup now' + 1 .. now' + MfaTtl]
        /\ used' \in [Steps -> {0} \cup now' + 1 .. now' + MfaTtl]
    BY <1>2, <2>1 DEF Tick, Lives
  <2> QED BY <1>2, <2>1, <2>2, <2>3, <2>4 DEF Tick
<1> QED
  BY <1>1, <1>2

-----------------------------------------------------------------------------
(* Steps that do not concern a part of the invariant.                      *)

LEMMA RequestFrame ==
    ASSUME RequestInv, NEW r \in Requests, NEW pc, NEW t, NEW c, Moves(r, pc, t, c),
           now' = now,
           pc \in VerifyPCs => t \in MfaTokens,
           pc \in {"marking", "consuming"} => c.kind = "totp",
           pc = "marking" => c.n \in 0 .. now + 1
    PROVE  RequestInv'
BY DEF RequestInv, Moves, MfaTokens

\* The types that the counting needs.
LEMMA CountTypes ==
    ASSUME TypeOK
    PROVE  /\ failures.account.n \in Nat /\ guesses \in Nat /\ failed.guesses \in Nat
           /\ \A t \in MfaTokens :
                /\ failed.tries[t] \in Nat /\ attempts[t].n \in Nat /\ attempts[t].until \in Nat
                /\ tries[t] \in Nat /\ mfaToken[t] \in Nat /\ mfaToken[t] <= now + MfaTtl
           /\ now \in Nat
BY Constants DEF TypeOK, Counts

LEMMA GuessFrame ==
    ASSUME TypeOK, GuessInv, NEW r \in Requests, NEW pc, NEW t, NEW c, Moves(r, pc, t, c),
           guesses' = guesses, failures'.account = failures.account,
           failed'.guesses = failed.guesses,
           pc \notin {"password", "count_account"}, request[r].pc # "count_account"
    PROVE  GuessInv'
<1>1. /\ Cardinality(At("count_account")') = Cardinality(At("count_account"))
      /\ Cardinality(At("password")') <= Cardinality(At("password"))
      /\ Cardinality(At("password")) \in Nat /\ Cardinality(At("password")') \in Int
      /\ Cardinality(At("count_account")) \in Nat
  BY Counts1 DEF Ind
<1> QED
  BY <1>1, Constants, CountTypes DEF GuessInv

LEMMA TryFrame ==
    ASSUME TypeOK, TryInv, NEW r \in Requests, NEW pc, NEW t, NEW c, Moves(r, pc, t, c),
           tries' = tries, attempts' = attempts, failed'.tries = failed.tries,
           \A u \in MfaTokens : mfaToken'[u] \in {0, mfaToken[u]},
           pc \notin {"verify", "count_attempt", "locking"},
           pc = "marking" => request[r].pc = "verify" /\ request[r].token = t,
           request[r].pc \notin {"count_attempt", "locking"}
    PROVE  TryInv'
<1> SUFFICES ASSUME NEW u \in MfaTokens
             PROVE  Tries(u)'
  BY DEF TryInv, MfaTokens
<1>1. /\ Cardinality(On("count_attempt", u)') = Cardinality(On("count_attempt", u))
      /\ Cardinality(On("locking", u)') = Cardinality(On("locking", u))
      /\ Cardinality(Trying(u)') <= Cardinality(Trying(u))
      /\ Cardinality(On("count_attempt", u)) \in Nat /\ Cardinality(On("locking", u)) \in Nat
      /\ Cardinality(Trying(u)) \in Nat /\ Cardinality(Trying(u)') \in Int
  BY Counts2, Counts3 DEF Ind
<1>2. Tries(u)
  BY DEF TryInv
<1> QED
  BY <1>1, <1>2, Constants, CountTypes DEF Tries

LEMMA StepFrame ==
    ASSUME StepInv, StepLogsInOnce,
           NEW r \in Requests, NEW pc, NEW t, NEW c, Moves(r, pc, t, c),
           UNCHANGED <<now, used, logins, late>>,
           pc \in {"consuming", "minting"} /\ c.kind = "totp"
               => request[r].pc \in {"consuming", "minting"} /\ request[r].code = c
    PROVE  StepInv' /\ StepLogsInOnce'
<1>1. \A k : ByStep(k)' \subseteq ByStep(k)
  BY DEF ByStep, Moves
<1>2. StepLogsInOnce'
  BY DEF StepLogsInOnce, Steps
<1>3. StepInv'
  <2> SUFFICES ASSUME NEW k \in Steps \ late
               PROVE  /\ \A s \in ByStep(k)' : logins.step[k] = 0 /\ ByStep(k)' = {s}
                      /\ logins.step[k] > 0 \/ ByStep(k)' # {}
                             => k + MfaTtl <= now + 1 \/ k + MfaTtl <= used[k] + 1
    BY DEF StepInv, Steps
  <2> QED BY <1>1 DEF StepInv
<1> QED
  BY <1>2, <1>3

LEMMA CodeFrame ==
    ASSUME CodeInv, RecoveryCodeLogsInOnce,
           NEW r \in Requests, NEW pc, NEW t, NEW c, Moves(r, pc, t, c),
           logins' = logins,
           \A d \in RecoveryCodes : recovery'[d] \in {"undrawn", "unused"}
                                        => recovery[d] \in {"undrawn", "unused"},
           pc = "minting" /\ c.kind = "recovery"
               => request[r].pc = "minting" /\ request[r].code = c
    PROVE  CodeInv' /\ RecoveryCodeLogsInOnce'
<1>1. \A d : ByCode(d)' \subseteq ByCode(d)
  BY DEF ByCode, Moves
<1>2. RecoveryCodeLogsInOnce'
  BY DEF RecoveryCodeLogsInOnce, RecoveryCodes
<1>3. CodeInv'
  <2> SUFFICES ASSUME NEW d \in RecoveryCodes
               PROVE  /\ \A s \in ByCode(d)' : logins.code[d] = 0 /\ ByCode(d)' = {s}
                      /\ recovery'[d] \in {"undrawn", "unused"} => ByCode(d)' = {}
    BY DEF CodeInv, RecoveryCodes
  <2> QED BY <1>1 DEF CodeInv
<1> QED
  BY <1>2, <1>3

-----------------------------------------------------------------------------
(* The steps of the requests.                                              *)

LEMMA LoginInv ==
    ASSUME IInv, NEW r \in Requests,
           \/ LoginIp(r) \/ LoginUnknown(r) \/ LoginAccount(r) \/ WrongPassword(r)
           \/ CountAccount(r) \/ CountIp(r) \/ GuessFails(r) \/ Refuse(r)
           \/ \E t \in MfaTokens : IssueMfaToken(r, t)
           \/ PasswordLogin(r) \/ ResetAccountFailures(r)
    PROVE  IInv'
<1> USE DEF IInv
<1>1. TypeOK'
  BY LoginType
<1>2. PICK pc, t, c : /\ Moves(r, pc, t, c)
                      /\ pc \in {"ip", "count_ip", "idle", "password", "count_account", "resetting"}
  BY LoginMoves
<1>4. UNCHANGED <<now, used, logins, late, recovery>> /\ failed'.tries = failed.tries
  BY DEF LoginIp, LoginUnknown, LoginAccount, WrongPassword, CountAccount, CountIp, GuessFails,
         Refuse, IssueMfaToken, PasswordLogin, ResetAccountFailures, TypeOK
<1>3. RequestInv'
  BY <1>2, <1>4, RequestFrame DEF VerifyPCs
<1>8. StepInv' /\ StepLogsInOnce' /\ CodeInv' /\ RecoveryCodeLogsInOnce'
  BY <1>2, <1>4, StepFrame, CodeFrame
<1>5. request[r].pc \notin {"count_attempt", "locking"}
  BY DEF LoginIp, LoginUnknown, LoginAccount, WrongPassword, CountAccount, CountIp, GuessFails,
         Refuse, IssueMfaToken, PasswordLogin, ResetAccountFailures, Begin, Free
<1>6. TryInv'
  <2>1. CASE \E u \in MfaTokens : IssueMfaToken(r, u)
    <3>1. PICK u \in MfaTokens : IssueMfaToken(r, u)
      BY <2>1
    <3>2. ASSUME NEW v \in MfaTokens
          PROVE  Tries(v)'
      <4>1. /\ Cardinality(On("count_attempt", v)') = Cardinality(On("count_attempt", v))
            /\ Cardinality(On("locking", v)') = Cardinality(On("locking", v))
            /\ Cardinality(Trying(v)') <= Cardinality(Trying(v))
            /\ Cardinality(On("count_attempt", v)) \in Nat
            /\ Cardinality(On("locking", v)) \in Nat
            /\ Cardinality(Trying(v)) \in Nat /\ Cardinality(Trying(v)') \in Int
        BY <1>2, <1>5, Counts2, Counts3 DEF Ind
      <4>2. Tries(v)
        BY DEF TryInv
      <4>3. /\ tries' = tries /\ attempts' = attempts
            /\ v # u => mfaToken'[v] = mfaToken[v]
            /\ v = u => tries[v] = 0
        BY <3>1 DEF IssueMfaToken, TypeOK
      <4> QED BY <1>4, <4>1, <4>2, <4>3, Constants, CountTypes DEF Tries
    <3> QED BY <3>2 DEF TryInv, MfaTokens
  <2>2. CASE ~\E u \in MfaTokens : IssueMfaToken(r, u)
    <3>1. UNCHANGED <<tries, attempts, mfaToken>>
      BY <2>2 DEF LoginIp, LoginUnknown, LoginAccount, WrongPassword, CountAccount, CountIp,
                  GuessFails, Refuse, PasswordLogin, ResetAccountFailures
    <3> QED BY <1>2, <1>4, <1>5, <3>1, TryFrame
  <2> QED BY <2>1, <2>2
<1>7. GuessInv'
  <2> DEFINE P == Cardinality(At("password"))
             C == Cardinality(At("count_account"))
  <2>1. P \in Nat /\ C \in Nat /\ P' \in Int /\ C' \in Int
    BY <1>2, Counts1 DEF Ind
  <2>2. CASE LoginAccount(r)
    <3>1. CASE Moves(r, "idle", 0, WrongCode)
      BY <2>2, <3>1, GuessFrame DEF LoginAccount
    <3>2. CASE /\ Moves(r, "password", request[r].token, request[r].code)
               /\ failures.account.n < AccountThreshold
      <4>1. P' = P + 1 /\ C' = C
        BY <2>2, <3>2, Counts1 DEF Ind, LoginAccount
      <4>2. P' + C' <= Cardinality(Requests)
        <5>1. /\ At("password")' \subseteq Requests /\ At("count_account")' \subseteq Requests
              /\ At("password")' \cap At("count_account")' = {}
          BY DEF At
        <5>2. Cardinality(At("password")') + Cardinality(At("count_account")')
                 + Cardinality({}) <= Cardinality(Requests)
          BY <5>1, Disjoint
        <5> QED BY <2>1, <5>2, FS_EmptySet
      <4>3. guesses' = guesses /\ failures' = failures /\ failed' = failed
        BY <2>2 DEF LoginAccount
      <4> QED BY <2>1, <3>2, <4>1, <4>2, <4>3, Constants, CountTypes DEF GuessInv
    <3> QED BY <2>2, <3>1, <3>2, LoginMoves
  <2>3. CASE WrongPassword(r)
    <3>1. P' = P - 1 /\ C' = C + 1
      <4>1. Moves(r, "count_account", 0, WrongCode) /\ request[r].pc = "password"
        BY <2>3, LoginMoves DEF WrongPassword
      <4> QED BY <4>1, Counts1 DEF Ind
    <3>2. guesses' = guesses + 1 /\ failures' = failures /\ failed' = failed
      BY <2>3 DEF WrongPassword
    <3> QED BY <2>1, <3>1, <3>2, Constants, CountTypes DEF GuessInv
  <2>4. CASE CountAccount(r)
    <3>1. P' = P /\ C' = C - 1
      BY <2>4, LoginMoves, Counts1 DEF Ind, CountAccount
    <3>2. /\ guesses' = guesses /\ failures'.account.n = failures.account.n + 1
          /\ failed' = failed
      BY <2>4 DEF CountAccount, IncrWithTtl, TypeOK
    <3> QED BY <2>1, <3>1, <3>2, Constants, CountTypes DEF GuessInv
  <2>5. CASE ResetAccountFailures(r)
    <3>1. P' = P /\ C' = C
      BY <2>5, LoginMoves, Counts1 DEF Ind, ResetAccountFailures
    <3>2. guesses' = 0 /\ failures'.account.n = 0 /\ failed'.guesses = 0
      BY <2>5 DEF ResetAccountFailures, NoCount, TypeOK
    <3>3. P <= Cardinality(Requests)
      <4>1. At("password") \in SUBSET Requests
        BY DEF At
      <4> QED BY <4>1, Constants, FS_Subset
    <3> QED BY <2>1, <3>1, <3>2, <3>3, Constants, CountTypes DEF GuessInv
  <2>7. CASE GuessFails(r)
    <3>1. P' = P /\ C' = C - 1
      BY <2>7, LoginMoves, Counts1 DEF Ind, GuessFails
    <3>2. /\ guesses' = guesses /\ failures' = failures
          /\ failed'.guesses = failed.guesses + 1
      BY <2>7 DEF GuessFails, TypeOK
    <3> QED BY <2>1, <3>1, <3>2, Constants, CountTypes DEF GuessInv
  <2>6. CASE \/ LoginIp(r) \/ LoginUnknown(r) \/ CountIp(r) \/ Refuse(r)
             \/ \E u \in MfaTokens : IssueMfaToken(r, u)
             \/ PasswordLogin(r)
    <3>1. /\ guesses' = guesses /\ failures'.account = failures.account
          /\ request[r].pc # "count_account" /\ failed' = failed
      BY <2>6 DEF LoginIp, LoginUnknown, CountIp, Refuse, IssueMfaToken, PasswordLogin,
                  Begin, Free, TypeOK
    <3>2. \E x, u, d : Moves(r, x, u, d) /\ x \notin {"password", "count_account"}
      BY <2>6, LoginMoves
    <3> QED BY <3>1, <3>2, GuessFrame
  <2> QED BY <2>2, <2>3, <2>4, <2>5, <2>6, <2>7
<1> QED
  BY <1>1, <1>3, <1>6, <1>7, <1>8

LEMMA EnrolInv ==
    ASSUME IInv, NEW r \in Requests,
           \/ \E c \in Codes : ActivateRead(r, c) \/ DisableRead(r, c)
           \/ \E c \in RecoveryCodes : ActivateCommit(r, c)
           \/ AnnounceActivation(r) \/ DisableCommit(r)
    PROVE  IInv'
<1> USE DEF IInv
<1>1. TypeOK'
  BY EnrolType
<1>2. PICK pc, t, c : /\ Moves(r, pc, t, c)
                      /\ pc \in {"activating", "disabling", "announcing", "idle"}
  BY EnrolMoves
<1>3. request[r].pc \in {"idle", "activating", "announcing", "disabling"}
  BY DEF ActivateRead, DisableRead, ActivateCommit, AnnounceActivation, DisableCommit, Begin, Free
<1>4. UNCHANGED <<now, used, logins, late, guesses, failures, tries, failed, attempts, mfaToken>>
  BY DEF ActivateRead, DisableRead, ActivateCommit, AnnounceActivation, DisableCommit
<1>5. \A d \in RecoveryCodes :
         recovery'[d] \in {"undrawn", "unused"} => recovery[d] \in {"undrawn", "unused"}
  BY DEF ActivateRead, DisableRead, ActivateCommit, AnnounceActivation, DisableCommit,
         WithNewCode, WithoutCodes, TypeOK
<1>6. RequestInv'
  BY <1>2, <1>4, RequestFrame DEF VerifyPCs
<1>7. GuessInv'
  BY <1>2, <1>3, <1>4, GuessFrame
<1>8. TryInv'
  BY <1>2, <1>3, <1>4, TryFrame
<1>9. StepInv' /\ StepLogsInOnce' /\ CodeInv' /\ RecoveryCodeLogsInOnce'
  BY <1>2, <1>4, <1>5, StepFrame, CodeFrame
<1> QED
  BY <1>1, <1>6, <1>7, <1>8, <1>9

\* The steps of /auth/mfa/verify and the wrong codes tried.
LEMMA VerifyTries ==
    ASSUME IInv, NEW r \in Requests,
           \/ \E t \in MfaTokens, c \in Codes : VerifyRead(r, t, c)
           \/ \E b \in BOOLEAN : VerifyRecovery(r, b)
           \/ VerifyTotp(r) \/ MarkStep(r) \/ VerifyFails(r)
           \/ RecordAttempt(r) \/ AttemptFails(r) \/ InvalidateMfaToken(r)
           \/ ConsumeMfaToken(r) \/ CompleteMfaLogin(r)
    PROVE  TryInv'
<1> USE DEF IInv
<1> DEFINE V(u) == Cardinality(Trying(u))
           A(u) == Cardinality(On("count_attempt", u))
           L(u) == Cardinality(On("locking", u))
<1>0. \E pc, t, c : Moves(r, pc, t, c)
  BY VerifyMoves
<1>1. \A u : V(u) \in Nat /\ A(u) \in Nat /\ L(u) \in Nat
  BY <1>0, Counts2, Counts3
<1>2. \A u : V(u)' \in Int /\ A(u)' \in Int /\ L(u)' \in Int
  BY <1>0, Counts2, Counts3 DEF Ind
<1>3. \A u \in MfaTokens : Tries(u)
  BY DEF TryInv
<1>4. CASE \E t \in MfaTokens, c \in Codes : VerifyRead(r, t, c)
  <2>1. PICK t \in MfaTokens, c \in Codes : VerifyRead(r, t, c)
    BY <1>4
  <2>2. /\ UNCHANGED <<tries, failed, attempts, mfaToken>> /\ mfaToken[t] # 0
        /\ request[r].pc = "idle"
    BY <2>1 DEF VerifyRead, Begin, Free
  <2>3. /\ \A u : A(u)' = A(u) /\ L(u)' = L(u)
        /\ \A u : u # t => V(u)' = V(u)
        /\ V(t)' = V(t) + 1
    BY <2>1, <2>2, VerifyMoves, Counts2, Counts3 DEF Ind
  <2>4. V(t)' + A(t)' + L(t)' <= Cardinality(Requests)
    <3>1. Trying(t)' \subseteq Requests /\ On("count_attempt", t)' \subseteq Requests
      BY DEF On, Trying
    <3>2. On("locking", t)' \subseteq Requests
      BY DEF On
    <3>3. /\ Trying(t)' \cap On("count_attempt", t)' = {}
          /\ Trying(t)' \cap On("locking", t)' = {}
          /\ On("count_attempt", t)' \cap On("locking", t)' = {}
      BY DEF On, Trying
    <3> QED BY <3>1, <3>2, <3>3, Disjoint
  <2>5. ASSUME NEW u \in MfaTokens
        PROVE  Tries(u)'
    <3>1. CASE u = t
      BY <1>1, <1>2, <1>3, <2>2, <2>3, <2>4, <3>1, Constants, CountTypes DEF Tries
    <3>2. CASE u # t
      BY <1>1, <1>2, <1>3, <2>2, <2>3, <3>2, Constants, CountTypes DEF Tries
    <3> QED BY <3>1, <3>2
  <2> QED BY <2>5 DEF TryInv, MfaTokens
<1>5. CASE VerifyFails(r)
  <2>0. PICK t \in MfaTokens : t = request[r].token
    BY <1>5 DEF VerifyFails, RequestInv, VerifyPCs
  <2>1. /\ request[r].token = t /\ request[r].pc \in {"verify", "marking"}
        /\ UNCHANGED <<attempts, mfaToken, failed>> /\ tries' = [tries EXCEPT ![t] = @ + 1]
    BY <1>5, <2>0 DEF VerifyFails
  <2>2. /\ \A u : L(u)' = L(u)
        /\ \A u : u # t => V(u)' = V(u) /\ A(u)' = A(u)
        /\ V(t)' = V(t) - 1 /\ A(t)' = A(t) + 1
    <3>1. Moves(r, "count_attempt", t, WrongCode)
      BY <1>5, <2>1, VerifyMoves
    <3> QED BY <2>1, <3>1, Counts2, Counts3 DEF Ind
  <2>3. /\ tries'[t] = tries[t] + 1
        /\ \A u \in MfaTokens : u # t => tries'[u] = tries[u]
    BY <2>1 DEF TypeOK
  <2>4. ASSUME NEW u \in MfaTokens
        PROVE  Tries(u)'
    <3>1. CASE u = t
      BY <1>1, <1>2, <1>3, <2>1, <2>2, <2>3, <3>1, Constants, CountTypes DEF Tries
    <3>2. CASE u # t
      BY <1>1, <1>2, <1>3, <2>1, <2>2, <2>3, <3>2, Constants, CountTypes DEF Tries
    <3> QED BY <3>1, <3>2
  <2> QED BY <2>4 DEF TryInv, MfaTokens
<1>6. CASE RecordAttempt(r)
  <2>0. PICK t \in MfaTokens : t = request[r].token
    BY <1>6 DEF RecordAttempt, RequestInv, VerifyPCs
  <2>1. /\ request[r].token = t /\ request[r].pc = "count_attempt"
        /\ UNCHANGED <<tries, failed, mfaToken>>
        /\ attempts' = [attempts EXCEPT ![t] = IncrWithTtl(@, MfaTtl)]
    BY <1>6, <2>0 DEF RecordAttempt
  <2>2. /\ attempts'[t].n = attempts[t].n + 1 /\ attempts'[t].until = now + MfaTtl
        /\ \A u \in MfaTokens : u # t => attempts'[u] = attempts[u]
    BY <2>1 DEF TypeOK, IncrWithTtl
  <2>3. /\ \A u : V(u)' = V(u)
        /\ \A u : u # t => A(u)' = A(u) /\ L(u)' = L(u)
        /\ A(t)' = A(t) - 1
        /\ \/ L(t)' = L(t) /\ ~(attempts'[t].n >= MfaThreshold)
           \/ L(t)' = L(t) + 1
    <3>1. CASE /\ Moves(r, "idle", 0, WrongCode)
               /\ ~(attempts'[t].n >= MfaThreshold)
      BY <2>1, <3>1, Counts2, Counts3 DEF Ind
    <3>2. CASE Moves(r, "locking", t, request[r].code)
      BY <2>1, <3>2, Counts2, Counts3 DEF Ind
    <3> QED BY <1>6, <2>1, <3>1, <3>2, VerifyMoves
  <2>4. ASSUME NEW u \in MfaTokens
        PROVE  Tries(u)'
    <3>1. CASE u = t
      BY <1>1, <1>2, <1>3, <2>1, <2>2, <2>3, <3>1, Constants, CountTypes DEF Tries
    <3>2. CASE u # t
      BY <1>1, <1>2, <1>3, <2>1, <2>2, <2>3, <3>2, Constants, CountTypes DEF Tries
    <3> QED BY <3>1, <3>2
  <2> QED BY <2>4 DEF TryInv, MfaTokens
<1>7. CASE InvalidateMfaToken(r)
  <2>0. PICK t \in MfaTokens : t = request[r].token
    BY <1>7 DEF InvalidateMfaToken, RequestInv, VerifyPCs
  <2>1. /\ request[r].token = t /\ request[r].pc = "locking"
        /\ tries' = tries /\ failed' = failed
        /\ mfaToken'[t] = 0 /\ attempts'[t].n = 0
        /\ \A u \in MfaTokens : u # t => attempts'[u] = attempts[u] /\ mfaToken'[u] = mfaToken[u]
    BY <1>7, <2>0 DEF InvalidateMfaToken, TypeOK, NoCount
  <2>2. /\ \A u : V(u)' = V(u) /\ A(u)' = A(u)
        /\ \A u : u # t => L(u)' = L(u)
    BY <1>7, <2>1, VerifyMoves, Counts2, Counts3 DEF Ind
  <2>3. ASSUME NEW u \in MfaTokens
        PROVE  Tries(u)'
    BY <1>1, <1>2, <1>3, <2>1, <2>2, Constants, CountTypes DEF Tries
  <2> QED BY <2>3 DEF TryInv, MfaTokens
<1>8. CASE AttemptFails(r)
  <2>0. PICK t \in MfaTokens : t = request[r].token
    BY <1>8 DEF AttemptFails, RequestInv, VerifyPCs
  <2>1. /\ request[r].token = t /\ request[r].pc \in {"count_attempt", "locking"}
        /\ UNCHANGED <<tries, attempts, mfaToken>>
        /\ failed'.tries[t] = failed.tries[t] + 1
        /\ \A u \in MfaTokens : u # t => failed'.tries[u] = failed.tries[u]
    BY <1>8, <2>0 DEF AttemptFails, TypeOK
  <2>2. /\ \A u : V(u)' = V(u)
        /\ \A u : u # t => A(u)' = A(u) /\ L(u)' = L(u)
        /\ \/ A(t)' = A(t) - 1 /\ L(t)' = L(t)
           \/ A(t)' = A(t) /\ L(t)' = L(t) - 1
    <3>1. Moves(r, "idle", 0, WrongCode)
      BY <1>8, VerifyMoves
    <3> QED BY <2>1, <3>1, Counts2, Counts3 DEF Ind
  <2>3. ASSUME NEW u \in MfaTokens
        PROVE  Tries(u)'
    <3>1. CASE u = t
      BY <1>1, <1>2, <1>3, <2>1, <2>2, <3>1, Constants, CountTypes DEF Tries
    <3>2. CASE u # t
      BY <1>1, <1>2, <1>3, <2>1, <2>2, <3>2, Constants, CountTypes DEF Tries
    <3> QED BY <3>1, <3>2
  <2> QED BY <2>3 DEF TryInv, MfaTokens
<1>9. CASE VerifyTotp(r)
  <2>1. /\ Moves(r, "marking", request[r].token, request[r].code)
        /\ request[r].pc = "verify" /\ UNCHANGED <<tries, failed, attempts, mfaToken>>
    BY <1>9, VerifyMoves DEF VerifyTotp
  <2> QED BY <2>1, TryFrame
<1>10. CASE \/ \E b \in BOOLEAN : VerifyRecovery(r, b)
           \/ MarkStep(r) \/ ConsumeMfaToken(r) \/ CompleteMfaLogin(r)
  <2>1. PICK pc, t, c : Moves(r, pc, t, c) /\ pc \in {"idle", "minting", "consuming"}
    BY <1>10, VerifyMoves
  <2>2. request[r].pc \in {"verify", "marking", "consuming", "minting"}
    BY <1>10 DEF VerifyRecovery, MarkStep, ConsumeMfaToken, CompleteMfaLogin
  <2>3. /\ UNCHANGED <<tries, failed, attempts>>
        /\ \A u \in MfaTokens : mfaToken'[u] \in {0, mfaToken[u]}
    BY <1>10 DEF VerifyRecovery, MarkStep, ConsumeMfaToken, CompleteMfaLogin, TypeOK
  <2> QED BY <2>1, <2>2, <2>3, TryFrame
<1> QED
  BY <1>4, <1>5, <1>6, <1>7, <1>8, <1>9, <1>10

\* The steps of /auth/mfa/verify, the codes and the steps that log in.
LEMMA VerifyCodes ==
    ASSUME IInv, NEW r \in Requests,
           \/ \E t \in MfaTokens, c \in Codes : VerifyRead(r, t, c)
           \/ \E b \in BOOLEAN : VerifyRecovery(r, b)
           \/ VerifyTotp(r) \/ MarkStep(r) \/ VerifyFails(r)
           \/ RecordAttempt(r) \/ AttemptFails(r) \/ InvalidateMfaToken(r)
           \/ ConsumeMfaToken(r) \/ CompleteMfaLogin(r)
    PROVE  StepInv' /\ StepLogsInOnce' /\ CodeInv' /\ RecoveryCodeLogsInOnce'
<1> USE DEF IInv
<1>1. CASE \/ \E t \in MfaTokens, c \in Codes : VerifyRead(r, t, c)
           \/ VerifyTotp(r) \/ VerifyFails(r) \/ RecordAttempt(r) \/ AttemptFails(r)
           \/ InvalidateMfaToken(r) \/ ConsumeMfaToken(r)
  <2>1. UNCHANGED <<now, used, logins, late, recovery>>
    BY <1>1 DEF VerifyRead, VerifyTotp, VerifyFails, RecordAttempt, AttemptFails,
                InvalidateMfaToken, ConsumeMfaToken
  <2>2. CASE ConsumeMfaToken(r)
    <3>1. /\ Moves(r, "minting", request[r].token, request[r].code)
          /\ request[r].pc = "consuming" /\ request[r].code.kind = "totp"
      BY <2>2, VerifyMoves DEF ConsumeMfaToken, RequestInv
    <3> QED BY <2>1, <3>1, StepFrame, CodeFrame
  <2>3. CASE ~ConsumeMfaToken(r)
    <3>1. \E pc, t, c : Moves(r, pc, t, c) /\ pc \notin {"consuming", "minting"}
      BY <1>1, <2>3, VerifyMoves
    <3> QED BY <2>1, <3>1, StepFrame, CodeFrame
  <2> QED BY <2>2, <2>3
<1>2. CASE \E b \in BOOLEAN : VerifyRecovery(r, b)
  <2>1. /\ UNCHANGED <<now, used, logins, late>> /\ request[r].pc = "verify"
        /\ request[r].code.kind = "recovery" /\ recovery[request[r].code.n] = "unused"
    BY <1>2 DEF VerifyRecovery, RecoveryMatches, Consumable
  <2>2. CASE Moves(r, "idle", 0, WrongCode) /\ recovery' = recovery
    BY <2>1, <2>2, StepFrame, CodeFrame
  <2>3. CASE /\ Moves(r, "minting", request[r].token, request[r].code)
             /\ recovery' = [recovery EXCEPT ![request[r].code.n] = "used"]
    <3>1. StepInv' /\ StepLogsInOnce'
      BY <2>1, <2>3, StepFrame
    <3>2. PICK k : k = request[r].code.n
      OBVIOUS
    <3>3. /\ \A d : d # k => ByCode(d)' = ByCode(d)
          /\ ByCode(k)' = ByCode(k) \cup {r}
      BY <2>1, <2>3, <3>2 DEF ByCode, Moves
    <3>4. /\ \A d \in RecoveryCodes : d # k => recovery'[d] = recovery[d]
          /\ k \in RecoveryCodes => recovery[k] = "unused" /\ recovery'[k] = "used"
      BY <2>1, <2>3, <3>2 DEF TypeOK
    <3>5. CodeInv' /\ RecoveryCodeLogsInOnce'
      BY <2>1, <3>3, <3>4 DEF CodeInv, RecoveryCodeLogsInOnce, RecoveryCodes
    <3> QED BY <3>1, <3>5
  <2> QED BY <1>2, <2>2, <2>3, VerifyMoves
<1>3. CASE MarkStep(r)
  <2>1. /\ Moves(r, "consuming", request[r].token, request[r].code)
        /\ UNCHANGED <<now, logins, recovery>> /\ request[r].pc = "marking"
    BY <1>3, VerifyMoves DEF MarkStep
  <2>2. PICK k : k = request[r].code.n
    OBVIOUS
  <2>3. /\ request[r].code.kind = "totp" /\ k \in Nat /\ k <= now + 1
        /\ used[k] = 0 /\ used' = [used EXCEPT ![k] = now + MfaTtl]
    BY <1>3, <2>1, <2>2, CountTypes DEF MarkStep, MarkStepUsed, RequestInv
  <2>4. CodeInv' /\ RecoveryCodeLogsInOnce'
    BY <2>1, CodeFrame
  <2>5. /\ \A j : j # k => ByStep(j)' = ByStep(j)
        /\ ByStep(k)' = ByStep(k) \cup {r}
    BY <2>1, <2>2, <2>3 DEF ByStep, Moves
  <2>6. /\ \A j \in Steps : j # k => used'[j] = used[j]
        /\ k \in Steps => used'[k] = now + MfaTtl
    BY <2>3 DEF TypeOK
  <2>9. late \subseteq late' /\ (k \notin late' => ~(k + MfaTtl <= now + 1))
    BY <1>3, <2>2 DEF MarkStep, Overdue
  <2>7. StepLogsInOnce'
    BY <2>1, <2>9 DEF StepLogsInOnce, Steps
  <2>8. ASSUME NEW j \in Steps \ late'
        PROVE  /\ \A s \in ByStep(j)' : logins.step[j] = 0 /\ ByStep(j)' = {s}
               /\ logins.step[j] > 0 \/ ByStep(j)' # {}
                      => j + MfaTtl <= now + 1 \/ j + MfaTtl <= used'[j] + 1
    <3>1. j \in Nat /\ now \in Nat /\ logins.step[j] \in Nat /\ j \in Steps \ late
      <4>1. j \in Nat
        BY Constants DEF Steps
      <4>2. logins.step[j] \in 0 .. Many
        BY DEF TypeOK
      <4> QED BY <2>9, <4>1, <4>2, CountTypes DEF Many
    <3>2. CASE j = k
      <4>1. ByStep(j) = {} /\ logins.step[j] = 0
        <5>1. ~(j + MfaTtl <= now + 1) /\ ~(j + MfaTtl <= used[j] + 1)
          BY <2>3, <2>9, <3>1, <3>2, Constants
        <5> QED BY <3>1, <5>1 DEF StepInv
      <4>2. j + MfaTtl <= used'[j] + 1
        BY <2>3, <2>6, <3>1, <3>2, Constants
      <4> QED BY <2>5, <3>1, <3>2, <4>1, <4>2
    <3>3. CASE j # k
      <4>1. ByStep(j)' = ByStep(j) /\ used'[j] = used[j]
        BY <2>5, <2>6, <3>3
      <4> QED BY <3>1, <4>1 DEF StepInv
    <3> QED BY <3>2, <3>3
  <2> QED BY <2>1, <2>4, <2>7, <2>8 DEF StepInv, Steps
<1>4. CASE CompleteMfaLogin(r)
  <2>1. /\ Moves(r, "idle", 0, WrongCode)
        /\ UNCHANGED <<now, used, late, recovery>> /\ request[r].pc = "minting"
    BY <1>4, VerifyMoves DEF CompleteMfaLogin
  <2>2. PICK k : k = request[r].code.n
    OBVIOUS
  <2>3. /\ \A j \in Steps : logins'.step[j] =
             IF request[r].code.kind = "totp" /\ j = k /\ logins.step[j] < Many
             THEN logins.step[j] + 1 ELSE logins.step[j]
        /\ \A j \in RecoveryCodes : logins'.code[j] =
             IF request[r].code.kind = "recovery" /\ j = k /\ logins.code[j] < Many
             THEN logins.code[j] + 1 ELSE logins.code[j]
    BY <1>4, <2>2 DEF CompleteMfaLogin, TypeOK
  <2>4. /\ \A j : ByStep(j)' = ByStep(j) \ {r}
        /\ request[r].code.kind = "totp" => r \in ByStep(k)
        /\ \A j : ByCode(j)' = ByCode(j) \ {r}
        /\ request[r].code.kind = "recovery" => r \in ByCode(k)
    BY <2>1, <2>2 DEF ByStep, ByCode, Moves
  <2>5. ASSUME NEW j \in Steps \ late
        PROVE  /\ logins'.step[j] <= 1
               /\ \A s \in ByStep(j)' : logins'.step[j] = 0 /\ ByStep(j)' = {s}
               /\ logins'.step[j] > 0 \/ ByStep(j)' # {}
                      => j + MfaTtl <= now + 1 \/ j + MfaTtl <= used[j] + 1
    <3>1. logins.step[j] \in Nat
      BY DEF TypeOK, Many
    <3>2. CASE request[r].code.kind = "totp" /\ j = k
      <4>1. logins.step[j] = 0 /\ ByStep(j) = {r}
        BY <2>4, <3>2 DEF StepInv
      <4>2. logins'.step[j] = 1 /\ ByStep(j)' = {}
        BY <2>3, <2>4, <3>2, <4>1 DEF Many
      <4> QED BY <4>1, <4>2 DEF StepInv
    <3>3. CASE ~(request[r].code.kind = "totp" /\ j = k)
      BY <2>3, <2>4, <3>1, <3>3 DEF StepInv, StepLogsInOnce
    <3> QED BY <3>2, <3>3
  <2>6. ASSUME NEW j \in RecoveryCodes
        PROVE  /\ logins'.code[j] <= 1
               /\ recovery[j] \in {"undrawn", "unused"} => logins'.code[j] = 0 /\ ByCode(j)' = {}
               /\ \A s \in ByCode(j)' : logins'.code[j] = 0 /\ ByCode(j)' = {s}
    <3>1. CASE request[r].code.kind = "recovery" /\ j = k
      <4>1. logins.code[j] = 0 /\ ByCode(j) = {r} /\ recovery[j] \notin {"undrawn", "unused"}
        BY <2>4, <3>1 DEF CodeInv
      <4>2. logins'.code[j] = 1 /\ ByCode(j)' = {}
        BY <2>3, <2>4, <3>1, <4>1 DEF Many
      <4> QED BY <4>1, <4>2
    <3>2. CASE ~(request[r].code.kind = "recovery" /\ j = k)
      BY <2>3, <2>4, <3>2 DEF CodeInv, RecoveryCodeLogsInOnce
    <3> QED BY <3>1, <3>2
  <2> QED BY <2>1, <2>5, <2>6
         DEF StepInv, StepLogsInOnce, CodeInv, RecoveryCodeLogsInOnce, Steps, RecoveryCodes
<1> QED
  BY <1>1, <1>2, <1>3, <1>4

LEMMA VerifyInv ==
    ASSUME IInv, NEW r \in Requests,
           \/ \E t \in MfaTokens, c \in Codes : VerifyRead(r, t, c)
           \/ \E b \in BOOLEAN : VerifyRecovery(r, b)
           \/ VerifyTotp(r) \/ MarkStep(r) \/ VerifyFails(r)
           \/ RecordAttempt(r) \/ AttemptFails(r) \/ InvalidateMfaToken(r)
           \/ ConsumeMfaToken(r) \/ CompleteMfaLogin(r)
    PROVE  IInv'
<1> USE DEF IInv
<1>1. request[r].pc \notin {"count_account", "password"}
  BY DEF VerifyRead, VerifyRecovery, VerifyTotp, MarkStep, VerifyFails, RecordAttempt,
         AttemptFails, InvalidateMfaToken, ConsumeMfaToken, CompleteMfaLogin, Begin, Free
<1>2. UNCHANGED <<guesses, failures>> /\ failed'.guesses = failed.guesses /\ now' = now
  BY DEF VerifyRead, VerifyRecovery, VerifyTotp, MarkStep, VerifyFails, RecordAttempt,
         AttemptFails, InvalidateMfaToken, ConsumeMfaToken, CompleteMfaLogin, TypeOK
<1>3. \E pc, t, c :
         /\ Moves(r, pc, t, c)
         /\ pc \notin {"password", "count_account"}
         /\ pc \in VerifyPCs => t \in MfaTokens
         /\ pc \in {"marking", "consuming"} => c.kind = "totp"
         /\ pc = "marking" => c.n \in 0 .. now + 1
  <2>1. VerifyTotp(r) => request[r].code.kind = "totp" /\ request[r].code.n \in 0 .. now + 1
    <3>1. request[r].code.kind = "totp" => request[r].code.n \in Nat
      <4>1. request[r].code \in Codes
        BY DEF TypeOK
      <4> QED BY <4>1, Constants DEF Codes, WrongCode, Steps
    <3> QED BY <3>1, CountTypes DEF VerifyTotp, VerifyTotpCode
  <2>2. /\ request[r].pc # "idle" => request[r].token \in MfaTokens
        /\ MarkStep(r) => request[r].code.kind = "totp"
    BY DEF VerifyRead, VerifyRecovery, VerifyTotp, MarkStep, VerifyFails, RecordAttempt,
           AttemptFails, RequestInv, VerifyPCs, InvalidateMfaToken, ConsumeMfaToken,
           CompleteMfaLogin, Begin, Free
  <2>3. CASE \E t \in MfaTokens, c \in Codes : VerifyRead(r, t, c)
    BY <2>3, VerifyMoves
  <2>4. CASE ~\E t \in MfaTokens, c \in Codes : VerifyRead(r, t, c)
    <3>1. request[r].pc # "idle"
      BY <2>4 DEF VerifyRecovery, VerifyTotp, MarkStep, VerifyFails, RecordAttempt,
                  AttemptFails, InvalidateMfaToken, ConsumeMfaToken, CompleteMfaLogin
    <3>2. CASE VerifyTotp(r)
      BY <2>1, <2>2, <3>1, <3>2, VerifyMoves
    <3>3. CASE MarkStep(r)
      BY <2>2, <3>1, <3>3, VerifyMoves
    <3>4. CASE ~VerifyTotp(r) /\ ~MarkStep(r)
      <4>1. \E pc, t, c : /\ Moves(r, pc, t, c)
                          /\ pc \in {"idle", "count_attempt", "locking", "minting"}
                          /\ pc # "idle" => t = request[r].token
        BY <2>4, <3>4, VerifyMoves
      <4> QED BY <2>2, <3>1, <4>1 DEF VerifyPCs
    <3> QED BY <3>2, <3>3, <3>4
  <2> QED BY <2>3, <2>4
<1>4. RequestInv'
  BY <1>2, <1>3, RequestFrame
<1>5. GuessInv'
  BY <1>1, <1>2, <1>3, GuessFrame
<1> QED
  BY <1>4, <1>5, VerifyType, VerifyTries, VerifyCodes

\* A secret is drawn, or time passes: no request moves.
LEMMA OtherInv ==
    ASSUME IInv, EnrollMfa \/ Tick
    PROVE  IInv'
<1> USE DEF IInv
<1>1. UNCHANGED <<request, recovery, logins, tries, late>> /\ failed'.tries = failed.tries
  BY DEF EnrollMfa, Tick, TypeOK
<1>2. /\ \A x : At(x)' = At(x)
      /\ \A x, u : On(x, u)' = On(x, u) /\ Trying(u)' = Trying(u)
      /\ \A k : ByStep(k)' = ByStep(k) /\ ByCode(k)' = ByCode(k)
  BY <1>1 DEF At, On, Trying, ByStep, ByCode
<1>3. CodeInv' /\ RecoveryCodeLogsInOnce' /\ StepLogsInOnce'
  BY <1>1, <1>2 DEF CodeInv, RecoveryCodeLogsInOnce, StepLogsInOnce, Steps,
                    RecoveryCodes, MfaTokens
<1>7. RequestInv'
  <2>1. now \in Nat /\ (now' = now \/ now' = now + 1)
    BY CountTypes DEF EnrollMfa, Tick
  <2> QED BY <1>1, <2>1 DEF RequestInv, MfaTokens
<1>4. /\ \A x : Cardinality(At(x)) \in Nat
      /\ \A x, u : Cardinality(On(x, u)) \in Nat /\ Cardinality(Trying(u)) \in Nat
  <2>1. \A x, u : /\ At(x) \in SUBSET Requests /\ On(x, u) \in SUBSET Requests
                  /\ Trying(u) \in SUBSET Requests
    BY DEF At, On, Trying
  <2> QED BY <2>1, Constants, FS_Subset, FS_CardinalityType
<1>5. CASE EnrollMfa
  <2>1. UNCHANGED <<now, failures, guesses, failed, attempts, mfaToken, used>>
    BY <1>5 DEF EnrollMfa
  <2>2. StepInv'
    BY <1>1, <1>2, <2>1 DEF StepInv, Steps
  <2>3. GuessInv' /\ TryInv'
    BY <1>1, <1>2, <2>1 DEF GuessInv, TryInv, Tries, MfaTokens
  <2> QED BY <1>3, <1>5, <1>7, <2>2, <2>3, OtherType
<1>6. CASE Tick
  <2>1. now' = now + 1 /\ now \in Nat
    BY <1>6, CountTypes DEF Tick
  <2>2. StepInv'
    <3>1. ASSUME NEW k \in Steps
          PROVE  used'[k] = IF now + 1 < used[k] THEN used[k] ELSE 0
      BY <1>6 DEF Tick, Lives
    <3>2. \A k \in Steps : k \in Nat /\ used[k] \in Nat
      BY Constants DEF TypeOK, Steps
    <3>3. ASSUME NEW k \in Steps \ late
          PROVE  /\ \A r \in ByStep(k) : logins.step[k] = 0 /\ ByStep(k) = {r}
                 /\ logins.step[k] > 0 \/ ByStep(k) # {}
                        => k + MfaTtl <= now' + 1 \/ k + MfaTtl <= used'[k] + 1
      BY <2>1, <3>1, <3>2, Constants DEF StepInv
    <3> QED BY <1>1, <1>2, <3>3 DEF StepInv, Steps
  <2>3. GuessInv'
    <3>1. \/ guesses' = 0 /\ failures'.account.n = 0 /\ failed'.guesses = 0
          \/ /\ guesses' = guesses /\ failures'.account = failures.account
             /\ failed' = failed
      BY <1>6 DEF Tick, Aged, NoCount, TypeOK
    <3>2. Cardinality(At("password")) <= Cardinality(Requests)
      <4>1. At("password") \in SUBSET Requests
        BY DEF At
      <4> QED BY <4>1, Constants, FS_Subset
    <3> QED BY <1>2, <1>4, <3>1, <3>2, Constants, CountTypes DEF GuessInv
  <2>4. TryInv'
    <3>1. ASSUME NEW t \in MfaTokens
          PROVE  Tries(t)'
      <4>1. /\ mfaToken'[t] = IF now + 1 < mfaToken[t] THEN mfaToken[t] ELSE 0
            /\ \/ attempts'[t] = attempts[t]
               \/ attempts'[t].n = 0 /\ ~(now + 1 < attempts[t].until)
        BY <1>6 DEF Tick, Lives, Aged, NoCount
      <4>2. Tries(t)
        BY DEF TryInv
      <4> QED BY <1>1, <1>2, <1>4, <2>1, <4>1, <4>2, Constants, CountTypes DEF Tries
    <3> QED BY <3>1 DEF TryInv, MfaTokens
  <2> QED BY <1>3, <1>6, <1>7, <2>2, <2>3, <2>4, OtherType
<1> QED
  BY <1>5, <1>6

-----------------------------------------------------------------------------
LEMMA InitInv == Init => IInv
<1> SUFFICES ASSUME Init PROVE IInv
  OBVIOUS
<1>1. /\ request = [r \in Requests |-> Idle] /\ Idle.pc = "idle"
      /\ now = 0 /\ served = 0 /\ guesses = 0
  BY DEF Init, Idle
<1>2. TypeOK
  <2>1. now \in 0 .. MaxTime /\ served \in 0 .. MaxRequests /\ guesses \in Nat
    BY <1>1, Constants
  <2>2. request \in [Requests -> [pc : PCs, user : Users, token : 0 .. MaxTokens, code : Codes]]
    BY <1>1, IdleRecord DEF Record
  <2>3. user \in Users /\ secrets \in 0 .. MaxSecrets
    <3>1. PICK p \in BOOLEAN :
             \/ user = [NoUser EXCEPT !.privileged = p] /\ secrets = 0
             \/ /\ user = [enabled |-> TRUE, secret |-> 1, reenroll |-> FALSE, privileged |-> p]
                /\ secrets = 1
      BY DEF Init
    <3>2. ASSUME NEW u \in Users
          PROVE  [u EXCEPT !.privileged = p] \in Users
      BY DEF Users
    <3>3. [enabled |-> TRUE, secret |-> 1, reenroll |-> FALSE, privileged |-> p] \in Users
      BY Constants DEF Users
    <3>4. [NoUser EXCEPT !.privileged = p] \in Users
      BY <3>2, IdleRecord
    <3>5. user \in Users
      BY <3>1, <3>3, <3>4, Zenon
    <3>6. secrets = 0 \/ secrets = 1
      BY <3>1
    <3> QED BY <3>5, <3>6, Constants
  <2>4. recovery \in [RecoveryCodes -> {"undrawn", "unused", "used", "deleted"}]
    BY DEF Init
  <2>5. NoCount \in Counts
    BY Constants DEF NoCount, Counts
  <2>6. failures \in [account : Counts, ip : Counts] /\ attempts \in [MfaTokens -> Counts]
    BY <2>5 DEF Init
  <2>7. /\ mfaToken \in [MfaTokens -> {0} \cup now + 1 .. now + MfaTtl]
        /\ used \in [Steps -> {0} \cup now + 1 .. now + MfaTtl]
        /\ tries \in [MfaTokens -> Nat] /\ restricted \in BOOLEAN
        /\ failed \in [guesses : Nat, tries : [MfaTokens -> Nat]] /\ late \subseteq Steps
    BY DEF Init
  <2>8. logins \in [token : [MfaTokens -> 0 .. Many], step : [Steps -> 0 .. Many],
                    code : [RecoveryCodes -> 0 .. Many]]
    BY DEF Init, Many
  <2> QED BY <2>1, <2>2, <2>3, <2>4, <2>6, <2>7, <2>8 DEF TypeOK
<1>3. /\ \A k : ByStep(k) = {} /\ ByCode(k) = {}
      /\ \A x : x # "idle" => At(x) = {}
      /\ \A x, t : x # "idle" => On(x, t) = {}
      /\ \A t : Trying(t) = {}
  BY <1>1 DEF ByStep, ByCode, At, On, Trying
<1>4. RequestInv
  BY <1>1 DEF RequestInv, VerifyPCs
<1>5. /\ \A k \in Steps : logins.step[k] = 0
      /\ \A c \in RecoveryCodes : logins.code[c] = 0
  BY DEF Init
<1>6. StepInv /\ StepLogsInOnce /\ CodeInv /\ RecoveryCodeLogsInOnce
  BY <1>3, <1>5 DEF StepInv, StepLogsInOnce, CodeInv, RecoveryCodeLogsInOnce
<1>7. /\ Cardinality(At("count_account")) = 0 /\ Cardinality(At("password")) = 0
      /\ \A t : /\ Cardinality(On("count_attempt", t)) = 0
                /\ Cardinality(Trying(t)) = 0 /\ Cardinality(On("locking", t)) = 0
  BY <1>3, FS_EmptySet
<1>8. GuessInv
  BY <1>1, <1>7, Constants DEF GuessInv, Init, NoCount
<1>9. TryInv
  BY <1>7, Constants DEF TryInv, Tries, Init, NoCount
<1> QED
  BY <1>2, <1>4, <1>6, <1>8, <1>9 DEF IInv

\* Every step preserves the invariant.
LEMMA NextInv == IInv /\ [Next]_vars => IInv'
<1> SUFFICES ASSUME IInv, [Next]_vars PROVE IInv'
  OBVIOUS
<1>1. CASE Next
  <2>1. ASSUME NEW r \in Requests,
               \/ LoginIp(r) \/ LoginUnknown(r) \/ LoginAccount(r) \/ WrongPassword(r)
               \/ CountAccount(r) \/ CountIp(r) \/ GuessFails(r) \/ Refuse(r)
               \/ \E t \in MfaTokens : IssueMfaToken(r, t)
               \/ PasswordLogin(r) \/ ResetAccountFailures(r)
        PROVE  IInv'
    BY <2>1, LoginInv
  <2>2. ASSUME NEW r \in Requests,
               \/ \E c \in Codes : ActivateRead(r, c) \/ DisableRead(r, c)
               \/ \E c \in RecoveryCodes : ActivateCommit(r, c)
               \/ AnnounceActivation(r) \/ DisableCommit(r)
        PROVE  IInv'
    BY <2>2, EnrolInv
  <2>3. ASSUME NEW r \in Requests,
               \/ \E t \in MfaTokens, c \in Codes : VerifyRead(r, t, c)
               \/ \E b \in BOOLEAN : VerifyRecovery(r, b)
               \/ VerifyTotp(r) \/ MarkStep(r) \/ VerifyFails(r)
           \/ RecordAttempt(r) \/ AttemptFails(r) \/ InvalidateMfaToken(r)
               \/ ConsumeMfaToken(r) \/ CompleteMfaLogin(r)
        PROVE  IInv'
    BY <2>3, VerifyInv
  <2> QED BY <1>1, <2>1, <2>2, <2>3, OtherInv DEF Next
<1>2. CASE UNCHANGED vars
  <2> USE <1>2 DEF vars
  <2>1. /\ \A x : At(x)' = At(x)
        /\ \A x, u : On(x, u)' = On(x, u) /\ Trying(u)' = Trying(u)
        /\ \A k : ByStep(k)' = ByStep(k) /\ ByCode(k)' = ByCode(k)
    BY DEF At, On, Trying, ByStep, ByCode
  <2>2. TypeOK' /\ RequestInv'
    BY DEF IInv, TypeOK, RequestInv, PCs, Counts, MfaTokens, Steps, RecoveryCodes, Codes, Users
  <2>3. GuessInv' /\ TryInv'
    BY <2>1 DEF IInv, GuessInv, TryInv, Tries, MfaTokens
  <2>4. StepInv' /\ StepLogsInOnce' /\ CodeInv' /\ RecoveryCodeLogsInOnce'
    BY <2>1 DEF IInv, StepInv, StepLogsInOnce, CodeInv, RecoveryCodeLogsInOnce, Steps,
                RecoveryCodes
  <2> QED BY <2>2, <2>3, <2>4 DEF IInv
<1> QED
  BY <1>1, <1>2

\* The inductive invariant of login and MFA.
THEOREM Invariance == Spec => []IInv
BY InitInv, NextInv, PTL DEF Spec

LEMMA Bounds == IInv => BoundedGuesses /\ BoundedTries
<1> SUFFICES ASSUME IInv PROVE BoundedGuesses /\ BoundedTries
  OBVIOUS
<1> USE DEF IInv
<1>1. /\ \A x : Cardinality(At(x)) \in Nat
      /\ \A u : Cardinality(Trying(u)) \in Nat
  <2>1. \A x, u : At(x) \in SUBSET Requests /\ Trying(u) \in SUBSET Requests
    BY DEF At, Trying
  <2> QED BY <2>1, Constants, FS_Subset, FS_CardinalityType
<1>2. BoundedGuesses
  BY <1>1, Constants, CountTypes DEF BoundedGuesses, GuessInv
<1>3. BoundedTries
  BY <1>1, Constants, CountTypes DEF BoundedTries, TryInv, Tries
<1> QED
  BY <1>2, <1>3

\* Every variable keeps its type, whatever the thresholds and times to live.
THEOREM TypeCorrect == Spec => []TypeOK
<1>1. IInv => TypeOK
  BY DEF IInv
<1> QED BY <1>1, Invariance, PTL

\* login counts a failure only after it has checked the counter and the
\* password: with N requests at a time at most threshold + N - 1 wrong
\* passwords are tried while the counter lives, not counting those whose
\* request failed before it could record them.
THEOREM GuessesAreBounded == Spec => []BoundedGuesses
BY Invariance, Bounds, PTL

\* verify_mfa likewise: the counter of an mfa_token outlives the token, and
\* an audit commit that fails before the token is invalidated costs one more
\* try, not the bound.
THEOREM TriesAreBounded == Spec => []BoundedTries
BY Invariance, Bounds, PTL

\* mark_step_used: the mark outlives the steps in which its code is accepted,
\* so the code of a step completes at most one login, however long the call
\* that marks it takes, short of the rest of a mark's life.
THEOREM StepsLogInOnce == Spec => []StepLogsInOnce
<1>1. IInv => StepLogsInOnce
  BY DEF IInv
<1> QED BY <1>1, Invariance, PTL

\* consume_recovery_code: a recovery code completes at most one login.
THEOREM CodesLogInOnce == Spec => []RecoveryCodeLogsInOnce
<1>1. IInv => RecoveryCodeLogsInOnce
  BY DEF IInv
<1> QED BY <1>1, Invariance, PTL

=============================================================================
