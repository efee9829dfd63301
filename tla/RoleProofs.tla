----------------------------- MODULE RoleProofs -----------------------------
(***************************************************************************)
(* What a change of roles may rely on and what it brings about.            *)
(*                                                                         *)
(* For any number of tokens and role changes and any TTLs with             *)
(* AccessTtl <= EpochTtl: the tokens of logins and refreshes a request's   *)
(* duration older than an announced role change are never accepted again,  *)
(* and later logins and refreshes carry the new scopes.                    *)
(*                                                                         *)
(* For any users, roles and number of concurrent requests: rows locked by  *)
(* the last-administrator count stand still, and so the count stays true   *)
(* up to the COMMIT it guards.                                             *)
(***************************************************************************)
EXTENDS PermissionEpoch, AdminRoster, TLAPS

(***************************************************************************)
(* The permission epoch.                                                   *)
(***************************************************************************)

\* Nothing is stamped with a time to come, and no request runs too long.
ClockInv ==
    /\ \A t \in Tokens : issuedAt[t] <= now
    /\ \A t \in Tokens : Minting(t) => now <= issuedAt[t] + MaxDuration
    /\ \A c \in Changes : begunAt[c] <= now /\ stamp[c] <= now
    /\ \A c \in Changes : Changing(c) => now <= begunAt[c] + MaxDuration
    /\ \A c \in Changes : change[c] = "stamped" => begunAt[c] <= stamp[c]
    /\ announced <= now

\* A JWT expires at most a request's duration after its session row would.
ExpiryInv ==
    \A t \in Tokens :
        mint[t] = "minted" => expires[t] <= issuedAt[t] + MaxDuration + AccessTtl

\* The key may have gone back, by less than a request's duration, and
\* outlives the newest stamp by its TTL.
EpochInv ==
    announcedVersion > 0 =>
        /\ announced <= epoch + MaxDuration
        /\ announced + EpochTtl <= epochExpires

\* The newest role set is at least as new as any change's.
VersionInv ==
    /\ announcedVersion <= version
    /\ \A c \in Changes : made[c] <= version

\* Scopes read by a mint begun after a change's stamp include the change.
ScopesInv ==
    \A t \in Tokens, c \in Changes :
        /\ mint[t] \in {"scoped", "minted"}
        /\ change[c] = "stamped"
        /\ stamp[c] < issuedAt[t]
        => made[c] <= scopes[t]

IInv ==
    /\ TypeOK
    /\ ClockInv
    /\ ExpiryInv
    /\ EpochInv
    /\ VersionInv
    /\ ScopesInv
    /\ RefreshPicksUpChange

\* Init establishes the invariant.
LEMMA InitInv == Init => IInv
BY TtlAssumption
DEF Init, IInv, TypeOK, ClockInv, ExpiryInv, EpochInv, VersionInv, ScopesInv,
    RefreshPicksUpChange, Minting, Changing

\* Either the key still covers an old token, or the token expired before it.
LEMMA OldRefused == IInv => OldTokensAreRefused
<1> SUFFICES ASSUME IInv, NEW t \in Tokens, announcedVersion > 0,
                    issuedAt[t] + MaxDuration <= announced, Accepted(t)
             PROVE  FALSE
  BY DEF OldTokensAreRefused
<1> USE TtlAssumption DEF IInv, TypeOK
<1>1. issuedAt[t] <= epoch
  BY DEF EpochInv
<1>2. epochExpires <= now
  BY <1>1 DEF Accepted, EpochPresent
<1>3. expires[t] <= announced + AccessTtl
  BY DEF Accepted, ExpiryInv
<1> QED
  BY <1>2, <1>3 DEF EpochInv, Accepted

-----------------------------------------------------------------------------
\* The steps of a login or refresh leave the epoch and the changes alone.
LEMMA MintInv ==
    ASSUME IInv, NEW t \in Tokens,
           \/ MintStart(t) \/ MintReadScopes(t)
           \/ MintEncode(t) \/ MintAbort(t)
    PROVE  IInv'
<1> USE TtlAssumption
    DEF IInv, TypeOK, MintStart, MintReadScopes, MintEncode, MintAbort,
        mintVars, changeVars, epochVars
<1>1. TypeOK'
  OBVIOUS
<1>2. ClockInv'
  BY DEF ClockInv, Minting, Changing
<1>3. ExpiryInv'
  BY DEF ExpiryInv, ClockInv, Minting
<1>4. EpochInv' /\ VersionInv'
  BY DEF EpochInv, VersionInv
<1>5. ScopesInv'
  BY DEF ScopesInv, VersionInv
<1>6. RefreshPicksUpChange'
  BY DEF RefreshPicksUpChange, VersionInv
<1> QED
  BY <1>1, <1>2, <1>3, <1>4, <1>5, <1>6

\* The steps of a role change before its SET leave the tokens and the epoch alone.
LEMMA ChangeInv ==
    ASSUME IInv, NEW c \in Changes,
           ChangeCommit(c) \/ ChangeStamp(c) \/ ChangeAbort(c)
    PROVE  IInv'
<1> USE TtlAssumption
    DEF IInv, TypeOK, ChangeCommit, ChangeStamp, ChangeAbort,
        mintVars, changeVars, epochVars
<1>1. TypeOK'
  OBVIOUS
<1>2. ClockInv'
  BY DEF ClockInv, Minting, Changing
<1>3. ExpiryInv'
  BY DEF ExpiryInv
<1>4. EpochInv' /\ VersionInv'
  BY DEF EpochInv, VersionInv
<1>5. ScopesInv'
  BY DEF ScopesInv, ClockInv
<1>6. RefreshPicksUpChange'
  BY DEF RefreshPicksUpChange
<1> QED
  BY <1>1, <1>2, <1>3, <1>4, <1>5, <1>6

\* The SET in set_perm_epoch may move the epoch back, by less than a request.
LEMMA AnnounceInv ==
    ASSUME IInv, NEW c \in Changes, ChangeAnnounce(c)
    PROVE  IInv'
<1> USE TtlAssumption
    DEF IInv, TypeOK, ChangeAnnounce, mintVars, changeVars, epochVars
<1>0. /\ announced' \in Nat /\ announcedVersion' \in Nat
      /\ announced <= announced' /\ stamp[c] <= announced'
      /\ announced' = announced \/ announced' = stamp[c]
      /\ announcedVersion' = announcedVersion \/ announcedVersion' = made[c]
  BY DEF Later
<1>1. TypeOK'
  BY <1>0
<1>2. ClockInv'
  BY <1>0 DEF ClockInv, Minting, Changing
<1>3. ExpiryInv'
  BY DEF ExpiryInv
<1>4. now <= stamp[c] + MaxDuration
  BY DEF ClockInv, Changing
<1>5. EpochInv'
  BY <1>0, <1>4 DEF EpochInv, ClockInv
<1>6. VersionInv'
  BY <1>0 DEF VersionInv
<1>7. ScopesInv'
  BY DEF ScopesInv
<1>8. RefreshPicksUpChange'
  BY <1>0 DEF RefreshPicksUpChange, ScopesInv
<1> QED
  BY <1>1, <1>2, <1>3, <1>5, <1>6, <1>7, <1>8

\* Time passes only while no request exceeds its duration.
LEMMA TickInv ==
    ASSUME IInv, Tick
    PROVE  IInv'
<1> USE TtlAssumption DEF IInv, TypeOK, Tick, mintVars, changeVars, epochVars
<1>1. TypeOK'
  OBVIOUS
<1>2. ClockInv'
  BY DEF ClockInv, Minting, Changing
<1>3. ExpiryInv' /\ EpochInv' /\ VersionInv'
  BY DEF ExpiryInv, EpochInv, VersionInv
<1>4. ScopesInv' /\ RefreshPicksUpChange'
  BY DEF ScopesInv, RefreshPicksUpChange
<1> QED
  BY <1>1, <1>2, <1>3, <1>4

\* Every step preserves the invariant.
LEMMA NextInv == IInv /\ [Next]_vars => IInv'
<1> SUFFICES ASSUME IInv, [Next]_vars
             PROVE  IInv'
  OBVIOUS
<1>1. CASE UNCHANGED vars
  BY <1>1 DEF IInv, TypeOK, ClockInv, ExpiryInv, EpochInv, VersionInv,
              ScopesInv, RefreshPicksUpChange, Minting, Changing,
              vars, mintVars, changeVars, epochVars
<1>2. CASE Next
  BY <1>2, MintInv, ChangeInv, AnnounceInv, TickInv DEF Next
<1> QED
  BY <1>1, <1>2

-----------------------------------------------------------------------------
\* The inductive invariant of the whole specification.
THEOREM Invariance == Spec => []IInv
BY InitInv, NextInv, PTL DEF Spec

\* Every state is well typed.
THEOREM TypeCorrect == Spec => []TypeOK
<1>1. IInv => TypeOK
  BY DEF IInv
<1> QED
  BY <1>1, Invariance, PTL

\* Tokens a request's duration older than an announced change stay refused.
THEOREM OldTokensStayRefused == Spec => []OldTokensAreRefused
BY OldRefused, Invariance, PTL

\* A mint begun after the announced changes carries their scopes.
THEOREM RefreshIsCurrent == Spec => []RefreshPicksUpChange
<1>1. IInv => RefreshPicksUpChange
  BY DEF IInv
<1> QED
  BY <1>1, Invariance, PTL

(***************************************************************************)
(* The roster of administrators.                                           *)
(***************************************************************************)

\* Locks are taken by the count alone and given up when the request ends.
LocksFollowPc ==
    \A r \in Requests :
        pc[r] \notin {"write", "delete"} => locks[r] = {} /\ ~checked[r]

\* A passed check left a locked administrator who is not the target.
CheckedHoldsWitness ==
    \A r \in Requests : checked[r] => locks[r] \ {target[r]} # {}

RosterInv == RosterTypeOK /\ LockedStayAdmins /\ LocksFollowPc /\ CheckedHoldsWitness

\* The witness is why the count stays true.
LEMMA WitnessRemains == RosterInv => CountStaysTrue
BY DEF RosterInv, LockedStayAdmins, CheckedHoldsWitness, CountStaysTrue

\* Init establishes the invariant.
LEMMA RosterInitInv == RosterInit => RosterInv
BY AdminAssumption
DEF RosterInit, RosterInv, RosterTypeOK, LockedStayAdmins, LocksFollowPc, CheckedHoldsWitness,
    PCs, Kinds, Statuses, ActiveAdmins

-----------------------------------------------------------------------------
\* The end of a request, whatever it wrote, preserves the request's part.
LEMMA DoneInv ==
    ASSUME RosterInv, NEW r \in Requests, Done(r),
           held' \in [Users -> SUBSET Roles], status' \in [Users -> Statuses],
           seen' \in [Requests -> SUBSET (Users \X Roles)],
           \A q \in Requests \ {r} : locks[q] \subseteq ActiveAdmins'
    PROVE  RosterInv'
<1> USE DEF RosterInv, RosterTypeOK, Done
<1>1. RosterTypeOK'
  BY DEF PCs
<1>2. LockedStayAdmins'
  <2> SUFFICES ASSUME NEW q \in Requests
               PROVE  locks'[q] \subseteq ActiveAdmins'
    BY DEF LockedStayAdmins
  <2> QED
    BY DEF LockedStayAdmins
<1>3. LocksFollowPc'
  BY DEF LocksFollowPc
<1>4. CheckedHoldsWitness'
  BY DEF CheckedHoldsWitness
<1> QED
  BY <1>1, <1>2, <1>3, <1>4

\* A step that leaves the roster, the locks and a checked request's target.
LEMMA MoveInv ==
    ASSUME RosterInv, RosterTypeOK', UNCHANGED <<rosterVars, locks, checked>>,
           NEW r \in Requests,
           \A q \in Requests \ {r} :
              pc'[q] = pc[q] /\ target'[q] = target[q],
           \/ pc[r] \notin {"write", "delete"}
           \/ target'[r] = target[r] /\ pc'[r] \in {"write", "delete"}
    PROVE  RosterInv'
<1> USE DEF RosterInv, rosterVars
<1>1. LockedStayAdmins'
  BY DEF LockedStayAdmins, ActiveAdmins
<1>2. LocksFollowPc'
  BY DEF LocksFollowPc
<1>3. CheckedHoldsWitness'
  <2> SUFFICES ASSUME NEW q \in Requests, checked[q]
               PROVE  locks[q] \ {target'[q]} # {}
    BY DEF CheckedHoldsWitness
  <2> QED
    BY DEF CheckedHoldsWitness, LocksFollowPc
<1> QED
  BY <1>1, <1>2, <1>3

-----------------------------------------------------------------------------
\* Every step of a request preserves the invariant.
LEMMA StepInv ==
    ASSUME RosterInv, NEW r \in Requests, Step(r)
    PROVE  RosterInv'
<1> USE DEF RosterInv
<1>1. ASSUME NEW u \in Users, NEW roles \in SUBSET Roles, NEW k \in Kinds,
             Arrive(r, k, u, roles)
      PROVE  RosterInv'
  <2>1. RosterTypeOK'
    BY <1>1 DEF Arrive, RosterTypeOK, PCs, rosterVars
  <2> QED
    BY <1>1, <2>1, MoveInv DEF Arrive, RosterTypeOK
<1>2. ASSUME NEW u \in Users, NEW roles \in SUBSET Roles,
             ReplaceStart(r, u, roles)
      PROVE  RosterInv'
  BY <1>1, <1>2 DEF ReplaceStart, Kinds
<1>3. ASSUME NEW u \in Users, DeactivateStart(r, u)
      PROVE  RosterInv'
  BY <1>1, <1>3 DEF DeactivateStart, Kinds
<1>4. CASE ReadRoles(r)
  <2>1. RosterTypeOK'
    BY <1>4 DEF ReadRoles, RosterTypeOK, PCs, rosterVars
  <2> QED
    BY <1>4, <2>1, MoveInv DEF ReadRoles, RosterTypeOK
<1>5. CASE CountStart(r)
  <2>1. RosterTypeOK'
    BY <1>5, AdminAssumption DEF CountStart, RosterTypeOK, PCs, rosterVars, ActiveAdmins
  <2> QED
    BY <1>5, <2>1, MoveInv DEF CountStart, RosterTypeOK
<1>6. CASE CountLock(r)
  <2>1. CASE Done(r)
    <3>1. \A q \in Requests \ {r} : locks[q] \subseteq ActiveAdmins'
      BY <1>6 DEF CountLock, LockedStayAdmins, ActiveAdmins, rosterVars
    <3>2. seen' \in [Requests -> SUBSET (Users \X Roles)]
      BY <1>6 DEF CountLock, RosterTypeOK
    <3> QED
      BY <1>6, <2>1, <3>1, <3>2, DoneInv DEF CountLock, RosterTypeOK, rosterVars
  <2>2. CASE /\ Counted(r) \ {target[r]} # {}
             /\ pc' = [pc EXCEPT ![r] = "write"]
             /\ locks' = [locks EXCEPT ![r] = Counted(r)]
             /\ checked' = [checked EXCEPT ![r] = TRUE]
             /\ UNCHANGED <<kind, target, want>>
    <3> USE <1>6, <2>2 DEF RosterTypeOK
    <3>0. Counted(r) \subseteq ActiveAdmins /\ ActiveAdmins' = ActiveAdmins
      BY DEF Counted, ActiveAdmins, CountLock, rosterVars
    <3>1. RosterTypeOK'
      BY <3>0 DEF CountLock, PCs, rosterVars, ActiveAdmins
    <3>2. LockedStayAdmins'
      BY <3>0 DEF LockedStayAdmins
    <3>3. LocksFollowPc'
      BY DEF LocksFollowPc
    <3>4. CheckedHoldsWitness'
      BY DEF CheckedHoldsWitness
    <3> QED
      BY <3>1, <3>2, <3>3, <3>4
  <2> QED
    BY <1>6, <2>1, <2>2 DEF CountLock
<1>7. CASE DeleteStart(r)
  <2>1. RosterTypeOK'
    BY <1>7 DEF DeleteStart, RosterTypeOK, PCs, rosterVars
  <2> QED
    BY <1>7, <2>1, MoveInv DEF DeleteStart, RosterTypeOK
<1>8. CASE ReplaceCommit(r)
  <2>1. \A q \in Requests \ {r} : locks[q] \subseteq ActiveAdmins'
    BY <1>8 DEF ReplaceCommit, LockedStayAdmins, ActiveAdmins, FreeFor, RosterTypeOK
  <2>2. /\ held' \in [Users -> SUBSET Roles]
        /\ seen' \in [Requests -> SUBSET (Users \X Roles)]
    BY <1>8 DEF ReplaceCommit, Missed, RosterTypeOK
  <2> QED
    BY <1>8, <2>1, <2>2, DoneInv DEF ReplaceCommit, RosterTypeOK
<1>9. CASE DeactivateCommit(r)
  <2>1. \A q \in Requests \ {r} : locks[q] \subseteq ActiveAdmins'
    BY <1>9 DEF DeactivateCommit, LockedStayAdmins, ActiveAdmins, FreeFor, RosterTypeOK
  <2>2. status' \in [Users -> Statuses]
    BY <1>9 DEF DeactivateCommit, RosterTypeOK, Statuses
  <2> QED
    BY <1>9, <2>1, <2>2, DoneInv DEF DeactivateCommit, RosterTypeOK
<1>10. CASE DeactivateRefused(r) \/ Abort(r)
  <2>1. \A q \in Requests \ {r} : locks[q] \subseteq ActiveAdmins'
    BY <1>10 DEF DeactivateRefused, Abort, LockedStayAdmins, ActiveAdmins, rosterVars
  <2>2. seen' \in [Requests -> SUBSET (Users \X Roles)]
    BY <1>10 DEF DeactivateRefused, Abort, RosterTypeOK
  <2> QED
    BY <1>10, <2>1, <2>2, DoneInv DEF DeactivateRefused, Abort, RosterTypeOK, rosterVars
<1> QED
  BY <1>2, <1>3, <1>4, <1>5, <1>6, <1>7, <1>8, <1>9, <1>10 DEF Step

\* The endpoints that check nothing respect the row locks.
LEMMA UncheckedInv ==
    ASSUME RosterInv, NEW u \in Users, SelfDeactivate(u) \/ Reactivate(u)
    PROVE  RosterInv'
<1> USE DEF RosterInv
<1>1. RosterTypeOK'
  BY DEF RosterTypeOK, Statuses, SelfDeactivate, Reactivate, reqVars
<1>2. LockedStayAdmins'
  BY DEF RosterTypeOK, LockedStayAdmins, ActiveAdmins, SelfDeactivate,
         Reactivate, Free, reqVars
<1>3. LocksFollowPc' /\ CheckedHoldsWitness'
  BY DEF LocksFollowPc, CheckedHoldsWitness, SelfDeactivate, Reactivate, reqVars
<1> QED
  BY <1>1, <1>2, <1>3

\* Every step preserves the invariant.
LEMMA RosterNextInv == RosterInv /\ [RosterNext]_adminVars => RosterInv'
<1> SUFFICES ASSUME RosterInv, [RosterNext]_adminVars
             PROVE  RosterInv'
  OBVIOUS
<1>1. CASE UNCHANGED adminVars
  BY <1>1 DEF RosterInv, RosterTypeOK, LockedStayAdmins, ActiveAdmins, LocksFollowPc,
              CheckedHoldsWitness, adminVars, rosterVars, reqVars
<1>2. CASE RosterNext
  BY <1>2, StepInv, UncheckedInv DEF RosterNext
<1> QED
  BY <1>1, <1>2

\* The inductive invariant of the whole specification.
THEOREM RosterInvariance == RosterSpec => []RosterInv
BY RosterInitInv, RosterNextInv, PTL DEF RosterSpec

\* Every state is well typed.
THEOREM RosterTypeCorrect == RosterSpec => []RosterTypeOK
<1>1. RosterInv => RosterTypeOK
  BY DEF RosterInv
<1> QED
  BY <1>1, RosterInvariance, PTL

\* count_active_admins_excluding keeps its promise up to the COMMIT.
THEOREM CountIsStable == RosterSpec => []CountStaysTrue
BY WitnessRemains, RosterInvariance, PTL

\* Users locked by a count remain active administrators.
THEOREM LockedRowsStandStill == RosterSpec => []LockedStayAdmins
<1>1. RosterInv => LockedStayAdmins
  BY DEF RosterInv
<1> QED
  BY <1>1, RosterInvariance, PTL

\* A removal that passed the check leaves an active administrator when it
\* commits, for any number of requests running beside it.
THEOREM CheckedRemovalsAreSafe ==
    RosterSpec => [][\A r \in Requests :
                 checked[r] /\ (ReplaceCommit(r) \/ DeactivateCommit(r))
                    => ActiveAdmins' # {}]_adminVars
<1> DEFINE Safe == \A r \in Requests :
                 checked[r] /\ (ReplaceCommit(r) \/ DeactivateCommit(r))
                    => ActiveAdmins' # {}
<1>1. ASSUME RosterInv PROVE Safe
  <2> SUFFICES ASSUME NEW r \in Requests, checked[r],
                      ReplaceCommit(r) \/ DeactivateCommit(r)
               PROVE  ActiveAdmins' # {}
    OBVIOUS
  <2>1. PICK v \in ActiveAdmins : v # target[r]
    BY <1>1, WitnessRemains DEF CountStaysTrue
  <2>2. v \in ActiveAdmins'
    BY <1>1, <2>1 DEF RosterInv, RosterTypeOK, ActiveAdmins, ReplaceCommit, DeactivateCommit
  <2> QED
    BY <2>2
<1>2. RosterInv => [Safe]_adminVars
  BY <1>1
<1> QED
  BY <1>2, RosterInvariance, PTL
=============================================================================
