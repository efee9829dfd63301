------------------------ MODULE SessionTokensProofs ------------------------
(***************************************************************************)
(* Proofs about SessionTokens for every number of users, tokens and        *)
(* concurrent requests, and for all settings that satisfy                  *)
(* SettingsAssumption.                                                     *)
(***************************************************************************)
EXTENDS SessionTokens, TLAPS

\* A family is rooted at its first token, whose owner all its tokens share;
\* no row is issued in the future; an unused token is blank.
RowInv ==
    /\ \A t \in rows :
        /\ owner[t] \in Users
        /\ family[t] \in rows
        /\ owner[family[t]] = owner[t]
        /\ 1 <= issuedAt[t] /\ issuedAt[t] <= now
    /\ \A t \in Tokens \ rows : family[t] = None /\ consumedAt[t] = 0

\* What a request knows between its steps.
RequestInv ==
    \A r \in Requests :
        /\ pc[r] \in LoginPCs \cup {"stamp", "set"} => user[r] \in Users
        /\ pc[r] \in LoginPCs \cup {"set"} => 1 <= started[r] /\ started[r] <= now
        /\ pc[r] \in RotatePCs =>
              /\ token[r] \in rows
              /\ issuedAt[token[r]] <= started[r]
              /\ 1 <= started[r] /\ started[r] <= now
              /\ now <= started[r] + MaxDuration

\* A rotation about to commit holds the lock of its token, which is still
\* unconsumed: no other rotation can commit on it.
LockInv ==
    \A r \in Requests :
        pc[r] = "rotating" => lock[token[r]] = r /\ consumedAt[token[r]] = 0

\* revoke_before is in the past, and its key was written no earlier.
ClockInv ==
    /\ 1 <= now
    /\ \A u \in Users :
          /\ revokeBefore[u] <= now
          /\ revokeBefore[u] # 0 => revokeBefore[u] + RefreshTtl <= keyExpires[u]

CoreInv == /\ TypeOK /\ RowInv /\ RequestInv /\ LockInv /\ ClockInv
           /\ SingleUse /\ NewestIsUnconsumed

\* The family was opened after the stamp of revoke_before, or a rotation of
\* it began between the stamp and the SET.
Young(f, u) ==
    \/ issuedAt[f] > revokeBefore[u]
    \/ \E s \in Family(f) : /\ issuedAt[s] > revokeBefore[u]
                          /\ issuedAt[s] + RefreshTtl <= keyExpires[u]

\* A row younger than revoke_before belongs to a young family, and a rotation
\* past its checks will only mint such a row.
FinalInv ==
    /\ \A t \in rows :
          issuedAt[t] > revokeBefore[owner[t]] => Young(family[t], owner[t])
    /\ \A r \in Requests :
          LET u == owner[token[r]] IN
          pc[r] \in {"consuming", "rotating"} /\ started[r] > revokeBefore[u]
          => \/ Young(family[token[r]], u)
             \/ started[r] + RefreshTtl <= keyExpires[u]

Survivor(f) == \E s \in Family(f) \ revoked : issuedAt[s] <= struckAt[f]

\* A revoked family that is not wholly revoked has a survivor, and a rotation
\* of it that began after the revocation found one.
SurvivorInv ==
    /\ \A f \in rows :
          struckAt[f] # 0 =>
             /\ ~(Family(f) \subseteq revoked) => Survivor(f)
             /\ \A r \in Requests :
                   pc[r] \in RotatePCs /\ family[token[r]] = f
                   => started[r] <= struckAt[f] \/ Survivor(f)
    /\ \A f \in Tokens \ rows : struckAt[f] = 0

FreePCs == {"idle", "reactivating", "stamp", "set", "checking", "consuming"}

\* A request holds rows only while a statement over several rows or the end
\* of a rotation is under way: a rotation that waits holds none.
HoldInv ==
    \A r \in Requests : pc[r] \in FreePCs => \A t \in Tokens : lock[t] # r

Inv == CoreInv /\ FinalInv /\ SurvivorInv /\ HoldInv

-----------------------------------------------------------------------------
(* CoreInv: only the two commits that mint a token put SingleUse and the   *)
(* order of a family at risk.                                              *)

USE NoneAssumption, SettingsAssumption
USE DEF CoreInv, TypeOK, RowInv, RequestInv, LockInv, ClockInv, SingleUse,
        NewestIsUnconsumed, LoginPCs, RotatePCs, PCs, Time,
        Goto, Remember, Finish, rowVars, reqVars, keyVars

\* Init establishes the invariant.
LEMMA InitInv == Init => Inv
<1> SUFFICES ASSUME Init PROVE Inv
  OBVIOUS
<1>1. CoreInv
  BY DEF Init
<1>2. FinalInv /\ SurvivorInv /\ HoldInv
  BY DEF Init, FinalInv, SurvivorInv, HoldInv
<1>3. QED BY <1>1, <1>2 DEF Inv

\* A request that goes on to a step other than those of a rotation, or ends,
\* while the rows and their locks stay as they are.
LEMMA MoveCore ==
  ASSUME CoreInv, NEW r \in Requests, NEW p \in PCs \ RotatePCs,
         NEW u \in Users \cup {None}, NEW t \in Tokens \cup {None},
         NEW at \in Time, NEW S \in SUBSET Tokens,
         p \in LoginPCs \cup {"stamp", "set"} => u \in Users,
         p \in LoginPCs \cup {"set"} => 1 <= at /\ at <= now,
         Goto(r, p), Remember(r, u, t, at, S),
         UNCHANGED <<now, rowVars, revoked, lock, keyVars, struckAt>>,
         deactivated' \subseteq Users
  PROVE  CoreInv'
<1>1. TypeOK'
  OBVIOUS
<1>2. RowInv' /\ ClockInv' /\ SingleUse' /\ NewestIsUnconsumed'
  OBVIOUS
<1>3. RequestInv'
  OBVIOUS
<1>4. LockInv'
  OBVIOUS
<1>5. QED BY <1>1, <1>2, <1>3, <1>4

\* A request that arrives changes only what it remembers.
LEMMA ArriveCore ==
  ASSUME CoreInv, NEW r \in Requests, Arrive(r)
  PROVE  CoreInv'
<1>1. ASSUME NEW u \in Users, LoginStart(r, u) PROVE CoreInv'
  BY <1>1 DEF LoginStart
<1>2. ASSUME NEW u \in Users, LogoutAllStart(r, u) PROVE CoreInv'
  BY <1>2 DEF LogoutAllStart
<1>3. ASSUME NEW u \in Users, DeactivateCommit(r, u) PROVE CoreInv'
  BY <1>3 DEF DeactivateCommit
<1>4. ASSUME NEW t \in Tokens, RotateStart(r, t) PROVE CoreInv'
  <2>1. CASE consumedAt[t] = 0
    <3>1. /\ Goto(r, "checking") /\ Remember(r, None, t, now, {})
          /\ UNCHANGED <<now, rowVars, revoked, deactivated, lock, keyVars, struckAt>>
          /\ t \in rows
      BY <1>4, <2>1 DEF RotateStart
    <3>2. TypeOK'
      BY <3>1
    <3>3. RowInv' /\ ClockInv' /\ SingleUse' /\ NewestIsUnconsumed'
      BY <3>1
    <3>4. RequestInv'
      BY <3>1
    <3>5. LockInv'
      BY <3>1
    <3>6. QED BY <3>2, <3>3, <3>4, <3>5
  <2>2. CASE consumedAt[t] # 0
    <3> DEFINE f == family[t]
    <3>1. /\ Goto(r, "revoke") /\ Remember(r, None, f, 0, {})
          /\ UNCHANGED <<now, rowVars, revoked, deactivated, lock, keyVars, struckAt>>
          /\ f \in Tokens /\ deactivated' \subseteq Users
      BY <1>4, <2>2 DEF RotateStart, RevokeFamily
    <3> HIDE DEF f, CoreInv, Goto, Remember
    <3>2. QED BY <3>1, MoveCore
  <2>3. QED BY <2>1, <2>2
<1>5. ASSUME NEW u \in Users, NEW t \in Tokens, LogoutStart(r, u, t) PROVE CoreInv'
  BY <1>5 DEF LogoutStart, RevokeFamily
<1>6. ASSUME NEW u \in Users, NEW t \in Tokens, RevokeSessionStart(r, u, t) PROVE CoreInv'
  BY <1>6 DEF RevokeSessionStart, RevokeFamily
<1>7. QED
  BY <1>1, <1>2, <1>3, <1>4, <1>5, <1>6 DEF Arrive

\* A statement takes a row no one holds, so not the one of a rotation.
LEMMA LockCore ==
  ASSUME CoreInv, NEW r \in Requests, NEW t \in Tokens, LockRow(r, t)
  PROVE  CoreInv'
<1>1. TypeOK' /\ RowInv' /\ ClockInv' /\ SingleUse' /\ NewestIsUnconsumed'
  BY DEF LockRow
<1>2. RequestInv'
  BY DEF LockRow
<1>3. LockInv'
  BY DEF LockRow
<1>4. QED BY <1>1, <1>2, <1>3

\* The steps of a login.
LEMMA LoginCore ==
  ASSUME CoreInv, NEW r \in Requests,
         Reactivate(r) \/ LoginSnapshot(r) \/ LoginCount(r) \/ LoginCommit(r)
  PROVE  CoreInv'
<1>1. CASE Reactivate(r)
  <2> DEFINE u == user[r]
  <2>1. /\ u \in Users /\ deactivated' \subseteq Users
        /\ UNCHANGED <<now, rowVars, revoked, lock, keyVars, struckAt>>
    BY <1>1 DEF Reactivate
  <2>2. CASE Goto(r, "opening") /\ Remember(r, u, None, now, {})
    BY <2>1, <2>2, MoveCore
  <2>3. CASE Goto(r, "idle") /\ Remember(r, None, None, 0, {})
    BY <2>1, <2>3, MoveCore
  <2>4. QED BY <1>1, <2>2, <2>3 DEF Reactivate
<1>2. CASE LoginSnapshot(r)
  BY <1>2 DEF LoginSnapshot, LiveRows
<1>3. CASE LoginCount(r)
  <2>1. PICK S \in SUBSET Tokens :
           Goto(r, "minting") /\ Remember(r, user[r], None, started[r], S)
    BY <1>3 DEF LoginCount, Family
  <2>2. /\ user[r] \in Users /\ started[r] \in Time
        /\ 1 <= started[r] /\ started[r] <= now
        /\ UNCHANGED <<now, rowVars, revoked, deactivated, lock, keyVars, struckAt>>
    BY <1>3 DEF LoginCount
  <2>3. QED BY <2>1, <2>2, MoveCore
<1>4. CASE LoginCommit(r)
  <2>1. TypeOK'
    BY <1>4 DEF LoginCommit, Insert, Release, Revoke
  <2>2. RowInv' /\ RequestInv' /\ ClockInv'
    BY <1>4 DEF LoginCommit, Insert
  <2>3. LockInv'
    BY <1>4 DEF LoginCommit, Insert, Release
  <2>4. SingleUse'
    BY <1>4 DEF LoginCommit, Insert
  <2>5. NewestIsUnconsumed'
    BY <1>4 DEF LoginCommit, Insert
  <2>6. QED BY <2>1, <2>2, <2>3, <2>4, <2>5
<1>5. QED BY <1>1, <1>2, <1>3, <1>4

\* The steps of a rotation.
LEMMA RotateCore ==
  ASSUME CoreInv, NEW r \in Requests,
         RotateCheck(r) \/ RotateConsume(r) \/ RotateCommit(r)
  PROVE  CoreInv'
<1>1. CASE RotateCheck(r)
  <2>1. CASE Eligible(token[r], started[r])
    BY <1>1, <2>1 DEF RotateCheck
  <2>2. CASE ~Eligible(token[r], started[r])
    <3>1. /\ Goto(r, "idle") /\ Remember(r, None, None, 0, {})
          /\ UNCHANGED <<now, rowVars, revoked, deactivated, lock, keyVars, struckAt>>
      BY <1>1, <2>2 DEF RotateCheck
    <3>2. QED BY <3>1, MoveCore
  <2>3. QED BY <2>1, <2>2
<1>2. CASE RotateConsume(r)
  <2>0. /\ pc[r] = "consuming" /\ token[r] \in Tokens /\ lock[token[r]] = None
        /\ UNCHANGED <<now, rowVars, revoked, deactivated, keyVars, struckAt>>
    BY <1>2 DEF RotateConsume
  <2>1. CASE consumedAt[token[r]] = 0
    <3>1. /\ lock' = [lock EXCEPT ![token[r]] = r]
          /\ Goto(r, "rotating")
          /\ UNCHANGED <<user, token, started, snapshot>>
      BY <1>2, <2>1 DEF RotateConsume
    <3>2. TypeOK' /\ RowInv' /\ ClockInv' /\ SingleUse' /\ NewestIsUnconsumed'
      BY <2>0, <3>1
    <3>3. RequestInv'
      BY <2>0, <3>1
    <3>4. LockInv'
      BY <2>0, <2>1, <3>1
    <3>5. QED BY <3>2, <3>3, <3>4
  <2>2. CASE consumedAt[token[r]] # 0 /\ WithinGrace(token[r])
    <3>1. /\ Goto(r, "idle") /\ Remember(r, None, None, 0, {})
          /\ UNCHANGED <<now, rowVars, revoked, deactivated, lock, keyVars, struckAt>>
      BY <1>2, <2>2 DEF RotateConsume
    <3>2. QED BY <3>1, MoveCore
  <2>3. CASE consumedAt[token[r]] # 0 /\ ~WithinGrace(token[r])
    <3> DEFINE f == family[token[r]]
    <3>1. /\ Goto(r, "revoke") /\ Remember(r, None, f, 0, {})
          /\ lock' \in {lock, [lock EXCEPT ![token[r]] = r]}
          /\ f \in Tokens
      BY <1>2, <2>3 DEF RotateConsume, RevokeFamily
    <3>2. TypeOK'
      BY <2>0, <3>1
    <3>3. RowInv' /\ ClockInv' /\ SingleUse' /\ NewestIsUnconsumed'
      BY <2>0, <3>1
    <3>4. RequestInv'
      BY <2>0, <3>1
    <3>5. LockInv'
      BY <2>0, <3>1
    <3>6. QED BY <3>2, <3>3, <3>4, <3>5
  <2>4. QED BY <2>1, <2>2, <2>3
<1>3. CASE RotateCommit(r)
  <2>1. TypeOK'
    BY <1>3 DEF RotateCommit, RotateInto, Insert, Release
  <2>2. RowInv' /\ ClockInv'
    BY <1>3 DEF RotateCommit, RotateInto, Insert
  <2>3. RequestInv'
    BY <1>3 DEF RotateCommit, RotateInto, Insert
  <2>4. LockInv'
    BY <1>3 DEF RotateCommit, RotateInto, Insert, Release
  <2>5. SingleUse'
    BY <1>3 DEF RotateCommit, RotateInto, Insert
  <2>6. NewestIsUnconsumed'
    BY <1>3 DEF RotateCommit, RotateInto, Insert
  <2>7. QED BY <2>1, <2>2, <2>3, <2>4, <2>5, <2>6
<1>4. QED BY <1>1, <1>2, <1>3

\* Revocations, revoke_before, the end of a request and the clock.
LEMMA OtherCore ==
  ASSUME CoreInv,
         \/ \E r \in Requests : \/ RevokeSnapshot(r) \/ RevokeCommit(r)
                                \/ Stamp(r) \/ SetRevokeBefore(r) \/ Crash(r)
         \/ Tick
  PROVE  CoreInv'
<1>1. ASSUME NEW r \in Requests, RevokeSnapshot(r) PROVE CoreInv'
  BY <1>1 DEF RevokeSnapshot, Family
<1>2. ASSUME NEW r \in Requests, RevokeCommit(r) PROVE CoreInv'
  <2>1. TypeOK' /\ RowInv' /\ ClockInv' /\ SingleUse' /\ NewestIsUnconsumed'
    BY <1>2 DEF RevokeCommit, Release, Revoke
  <2>2. RequestInv' /\ LockInv'
    BY <1>2 DEF RevokeCommit, Release
  <2>3. QED BY <2>1, <2>2
<1>3. ASSUME NEW r \in Requests, Stamp(r) PROVE CoreInv'
  BY <1>3 DEF Stamp
<1>4. ASSUME NEW r \in Requests, SetRevokeBefore(r) PROVE CoreInv'
  <2>1. TypeOK' /\ RowInv' /\ SingleUse' /\ NewestIsUnconsumed'
    BY <1>4 DEF SetRevokeBefore
  <2>2. ClockInv'
    BY <1>4 DEF SetRevokeBefore
  <2>3. RequestInv' /\ LockInv'
    BY <1>4 DEF SetRevokeBefore
  <2>4. QED BY <2>1, <2>2, <2>3
<1>5. ASSUME NEW r \in Requests, Crash(r) PROVE CoreInv'
  BY <1>5 DEF Crash, Release
<1>6. CASE Tick
  <2>1. TypeOK' /\ RowInv' /\ ClockInv'
    BY <1>6 DEF Tick
  <2>2. RequestInv'
    BY <1>6 DEF Tick
  <2>3. LockInv' /\ SingleUse' /\ NewestIsUnconsumed'
    BY <1>6 DEF Tick
  <2>4. QED BY <2>1, <2>2, <2>3
<1>7. QED BY <1>1, <1>2, <1>3, <1>4, <1>5, <1>6

\* Every step preserves CoreInv.
LEMMA CoreStep ==
  ASSUME CoreInv, [Next]_vars
  PROVE  CoreInv'
<1>1. ASSUME NEW r \in Requests, Arrive(r) \/ Step(r) \/ Crash(r) PROVE CoreInv'
  BY <1>1, ArriveCore, LoginCore, RotateCore, OtherCore DEF Step
<1>2. ASSUME NEW r \in Requests, Lock(r) PROVE CoreInv'
  BY <1>2, LockCore DEF Lock, LoginLock, EvictLock, RevokeLock
<1>3. CASE Tick
  BY <1>3, OtherCore
<1>4. CASE UNCHANGED vars
  BY <1>4 DEF vars
<1>5. QED BY <1>1, <1>2, <1>3, <1>4 DEF Next

-----------------------------------------------------------------------------
(* FinalInv: only four steps touch what it speaks of.                      *)

\* Steps that leave rows and keys alone and take no rotation past its checks.
LEMMA FinalFrame ==
  ASSUME FinalInv,
         UNCHANGED <<rows, owner, family, issuedAt, keyVars>>,
         \A q \in Requests : pc'[q] \in {"consuming", "rotating"} =>
            /\ pc[q] \in {"consuming", "rotating"}
            /\ token'[q] = token[q] /\ started'[q] = started[q]
  PROVE  FinalInv'
BY DEF FinalInv, Young, Family

\* The check is where FinalInv is earned: when the key is gone although the
\* row is older, the idle timeout has run out.
LEMMA FinalCheck ==
  ASSUME CoreInv, FinalInv, NEW r \in Requests, RotateCheck(r)
  PROVE  FinalInv'
<1> DEFINE t == token[r]
           u == owner[token[r]]
<1>1. pc[r] = "checking" /\ t \in rows /\ u \in Users
  BY DEF RotateCheck
<1>2. UNCHANGED <<rows, owner, family, issuedAt, keyVars>>
  BY DEF RotateCheck
<1>3. CASE ~Eligible(t, started[r])
  <2>1. \A q \in Requests : pc'[q] \in {"consuming", "rotating"} =>
            /\ pc[q] \in {"consuming", "rotating"}
            /\ token'[q] = token[q] /\ started'[q] = started[q]
    BY <1>3 DEF RotateCheck
  <2>2. QED BY <1>2, <2>1, FinalFrame
<1>4. CASE Eligible(t, started[r])
  <2>1. issuedAt[t] > revokeBefore[u]
    <3>1. ~RevokedBefore(t) /\ started[r] <= issuedAt[t] + Idle
      BY <1>4 DEF Eligible
    <3>2. now <= started[r] + MaxDuration /\ 1 <= issuedAt[t]
      BY <1>1
    <3>3. revokeBefore[u] # 0 => revokeBefore[u] + RefreshTtl <= keyExpires[u]
      BY <1>1
    <3>4. /\ now \in Nat /\ started[r] \in Nat /\ issuedAt[t] \in Nat
          /\ revokeBefore[u] \in Nat /\ keyExpires[u] \in Nat
      BY <1>1
    <3>5. QED BY <3>1, <3>2, <3>3, <3>4 DEF RevokedBefore
  <2>2. Young(family[t], u)
    BY <1>1, <2>1 DEF FinalInv
  <2>3. \A q \in Requests : token'[q] = token[q] /\ started'[q] = started[q]
                         /\ (q # r => pc'[q] = pc[q])
    BY <1>4 DEF RotateCheck
  <2>4. \A f, v : Young(f, v)' <=> Young(f, v)
    BY <1>2 DEF Young, Family
  <2>5. QED BY <1>1, <1>2, <2>2, <2>3, <2>4 DEF FinalInv
<1>5. QED BY <1>3, <1>4

\* A new family is as young as its first row.
LEMMA FinalLogin ==
  ASSUME CoreInv, FinalInv, NEW r \in Requests, LoginCommit(r)
  PROVE  FinalInv'
<1>1. PICK n \in Tokens \ rows : Insert(n, user[r], n, started[r], now + RefreshTtl)
  BY DEF LoginCommit
<1>2. UNCHANGED keyVars /\ rows' = rows \cup {n}
  BY <1>1 DEF LoginCommit, Insert
<1>3. \A s \in rows : /\ owner'[s] = owner[s] /\ family'[s] = family[s]
                     /\ issuedAt'[s] = issuedAt[s]
                     /\ family[s] \in rows /\ owner[s] \in Users
  BY <1>1 DEF Insert
<1>4. family'[n] = n
  BY <1>1 DEF Insert
<1>6. \A s \in rows' :
         issuedAt'[s] > revokeBefore'[owner'[s]] => Young(family[s], owner[s])'
  <2>1. ASSUME NEW s \in rows, issuedAt'[s] > revokeBefore'[owner'[s]]
        PROVE  Young(family[s], owner[s])'
    <3>1. Young(family[s], owner[s])
      BY <1>2, <1>3, <2>1 DEF FinalInv
    <3>2. Young(family[s], owner[s])'
      <4>1. family[s] \in rows /\ owner[s] \in Users
        BY <1>3
      <4>2. issuedAt[family[s]] > revokeBefore[owner[s]] =>
              issuedAt'[family'[s]] > revokeBefore'[owner'[s]]
        BY <1>2, <1>3, <4>1
      <4>3. Family(family[s]) \subseteq Family(family[s])'
        BY <1>2, <1>3, <4>1 DEF Family
      <4>4. \A x \in Family(family[s]) : issuedAt'[x] = issuedAt[x]
        BY <1>3 DEF Family
      <4>5. QED BY <1>2, <1>3, <3>1, <4>2, <4>3, <4>4 DEF Young
    <3>3. QED BY <3>2
  <2>2. issuedAt'[n] > revokeBefore'[owner'[n]] => Young(family[n], owner[n])'
    BY <1>4 DEF Young
  <2>3. QED BY <1>2, <2>1, <2>2
<1>7. \A q \in Requests : pc'[q] \in {"consuming", "rotating"} =>
         /\ pc'[q] = pc[q] /\ token'[q] = token[q] /\ started'[q] = started[q]
         /\ token[q] \in rows
  BY DEF LoginCommit
<1>8. ASSUME NEW q \in Requests, pc'[q] \in {"consuming", "rotating"},
             started'[q] > revokeBefore'[owner'[token'[q]]]
      PROVE  \/ Young(family[token[q]], owner[token[q]])'
             \/ started'[q] + RefreshTtl <= keyExpires'[owner'[token'[q]]]
  <2> DEFINE t == token[q]
  <2>1. /\ t \in rows /\ token'[q] = t /\ started'[q] = started[q]
        /\ owner'[t] = owner[t] /\ family'[t] = family[t]
        /\ family[t] \in rows /\ owner[t] \in Users
    BY <1>3, <1>7, <1>8
  <2>2. \/ Young(family[t], owner[t])
        \/ started[q] + RefreshTtl <= keyExpires[owner[t]]
    BY <1>2, <1>7, <1>8, <2>1 DEF FinalInv
  <2>3. CASE Young(family[t], owner[t])
    <3>1. issuedAt[family[t]] > revokeBefore[owner[t]] =>
             issuedAt'[family'[t]] > revokeBefore'[owner'[t]]
      BY <1>2, <1>3, <2>1
    <3>2. Family(family[t]) \subseteq Family(family[t])'
      BY <1>2, <1>3, <2>1 DEF Family
    <3>3. \A x \in Family(family[t]) : issuedAt'[x] = issuedAt[x]
      BY <1>3 DEF Family
    <3>4. Young(family[t], owner[t])'
      BY <1>2, <2>1, <2>3, <3>1, <3>2, <3>3 DEF Young
    <3>5. QED BY <2>1, <3>4
  <2>4. CASE started[q] + RefreshTtl <= keyExpires[owner[t]]
    BY <1>2, <2>1, <2>4
  <2>5. QED BY <2>2, <2>3, <2>4
<1>9. QED BY <1>6, <1>8 DEF FinalInv

\* A rotation that commits was past its checks.
LEMMA FinalRotate ==
  ASSUME CoreInv, FinalInv, NEW r \in Requests, RotateCommit(r)
  PROVE  FinalInv'
<1> DEFINE t == token[r]
<1>1. PICK n \in Tokens \ rows : Insert(n, owner[t], family[t], started[r], expiresAt[t])
  BY DEF RotateCommit, RotateInto
<1>2. UNCHANGED keyVars /\ rows' = rows \cup {n}
  BY <1>1 DEF RotateCommit, RotateInto, Insert
<1>3. \A s \in rows : /\ owner'[s] = owner[s] /\ family'[s] = family[s]
                     /\ issuedAt'[s] = issuedAt[s]
                     /\ family[s] \in rows /\ owner[s] \in Users
  BY <1>1 DEF Insert
<1>4. /\ t \in rows /\ pc[r] = "rotating"
      /\ owner'[n] = owner[t] /\ family'[n] = family[t] /\ issuedAt'[n] = started[r]
  BY <1>1 DEF RotateCommit, RotateInto, Insert
<1>5. ASSUME NEW s \in rows, Young(family[s], owner[s])
      PROVE  Young(family[s], owner[s])'
  <2>1. issuedAt[family[s]] > revokeBefore[owner[s]] =>
           issuedAt'[family'[s]] > revokeBefore'[owner'[s]]
    BY <1>2, <1>3
  <2>2. Family(family[s]) \subseteq Family(family[s])'
    BY <1>2, <1>3 DEF Family
  <2>3. \A x \in Family(family[s]) : issuedAt'[x] = issuedAt[x]
    BY <1>3 DEF Family
  <2>4. QED BY <1>2, <1>3, <1>5, <2>1, <2>2, <2>3 DEF Young
<1>6. ASSUME NEW s \in rows', issuedAt'[s] > revokeBefore'[owner'[s]]
      PROVE  Young(family[s], owner[s])'
  <2>1. CASE s \in rows
    <3>1. Young(family[s], owner[s])
      BY <1>2, <1>3, <1>6, <2>1 DEF FinalInv
    <3>2. QED BY <1>5, <2>1, <3>1
  <2>2. CASE s = n
    <3>1. started[r] > revokeBefore[owner[t]]
      BY <1>2, <1>4, <1>6, <2>2
    <3>2. CASE Young(family[t], owner[t])
      <4>1. PICK x \in rows : x = t
        BY <1>4
      <4>2. Young(family[x], owner[x])
        BY <3>2, <4>1
      <4>3. Young(family[x], owner[x])'
        BY <1>5, <4>2
      <4>4. family'[n] = family'[x] /\ owner'[n] = owner'[x]
        BY <1>3, <1>4, <4>1
      <4>5. QED BY <2>2, <4>3, <4>4 DEF Young, Family
    <3>3. CASE started[r] + RefreshTtl <= keyExpires[owner[t]]
      <4>1. n \in Family(family[n])'
        BY <1>2 DEF Family
      <4>2. /\ issuedAt'[n] > revokeBefore'[owner'[n]]
            /\ issuedAt'[n] + RefreshTtl <= keyExpires'[owner'[n]]
        BY <1>2, <1>4, <3>1, <3>3
      <4>3. QED BY <2>2, <4>1, <4>2 DEF Young
    <3>4. QED BY <1>4, <3>1, <3>2, <3>3 DEF FinalInv
  <2>3. QED BY <1>2, <2>1, <2>2
<1>7. ASSUME NEW q \in Requests, pc'[q] \in {"consuming", "rotating"},
             started'[q] > revokeBefore'[owner'[token'[q]]]
      PROVE  \/ Young(family[token[q]], owner[token[q]])'
             \/ started'[q] + RefreshTtl <= keyExpires'[owner'[token'[q]]]
  <2>1. /\ pc'[q] = pc[q] /\ token'[q] = token[q] /\ started'[q] = started[q]
        /\ token[q] \in rows
    BY <1>7 DEF RotateCommit, RotateInto
  <2>2. \/ Young(family[token[q]], owner[token[q]])
        \/ started[q] + RefreshTtl <= keyExpires[owner[token[q]]]
    BY <1>2, <1>3, <1>7, <2>1 DEF FinalInv
  <2>3. CASE Young(family[token[q]], owner[token[q]])
    <3>1. PICK x \in rows : x = token[q]
      BY <2>1
    <3>2. Young(family[x], owner[x])
      BY <2>3, <3>1
    <3>3. Young(family[x], owner[x])'
      BY <1>5, <3>2
    <3>4. x = token'[q]
      BY <2>1, <3>1
    <3>5. QED BY <3>3, <3>4 DEF Young, Family
  <2>4. CASE started[q] + RefreshTtl <= keyExpires[owner[token[q]]]
    BY <1>2, <1>3, <2>1, <2>4
  <2>5. QED BY <2>2, <2>3, <2>4
<1>8. QED BY <1>6, <1>7 DEF FinalInv

\* When the SET lands, every row and every running transaction is older.
LEMMA FinalSet ==
  ASSUME CoreInv, FinalInv, NEW r \in Requests, SetRevokeBefore(r)
  PROVE  FinalInv'
<1> DEFINE u == user[r]
<1>1. /\ u \in Users
      /\ revokeBefore' = [revokeBefore EXCEPT ![u] = started[r]]
      /\ keyExpires' = [keyExpires EXCEPT ![u] = now + RefreshTtl]
      /\ UNCHANGED <<now, rows, owner, family, issuedAt>>
  BY DEF SetRevokeBefore
<1>2. \A s \in rows : issuedAt[s] + RefreshTtl <= now + RefreshTtl
  OBVIOUS
<1>3. \A f, v : v \in Users /\ v # u /\ Young(f, v) => Young(f, v)'
  BY <1>1 DEF Young, Family
<1>4. ASSUME NEW s \in rows', issuedAt'[s] > revokeBefore'[owner'[s]]
      PROVE  Young(family[s], owner[s])'
  <2>1. s \in rows /\ s \in Family(family[s])'
    BY <1>1 DEF Family
  <2>2. CASE owner[s] = u
    <3>1. issuedAt'[s] + RefreshTtl <= keyExpires'[owner'[s]]
      BY <1>1, <1>2, <2>1, <2>2
    <3>2. QED BY <1>4, <2>1, <3>1 DEF Young
  <2>3. CASE owner[s] # u
    <3>1. Young(family[s], owner[s])
      BY <1>1, <1>4, <2>1, <2>3 DEF FinalInv
    <3>2. owner[s] \in Users
      BY <2>1
    <3>3. QED BY <1>1, <2>3, <3>1, <3>2 DEF Young, Family
  <2>4. QED BY <2>2, <2>3
<1>5. ASSUME NEW q \in Requests, pc'[q] \in {"consuming", "rotating"},
             started'[q] > revokeBefore'[owner'[token'[q]]]
      PROVE  \/ Young(family[token[q]], owner[token[q]])'
             \/ started'[q] + RefreshTtl <= keyExpires'[owner'[token'[q]]]
  <2>1. /\ pc'[q] = pc[q] /\ token'[q] = token[q] /\ started'[q] = started[q]
        /\ token[q] \in rows /\ started[q] <= now
    BY <1>5 DEF SetRevokeBefore
  <2>2. owner[token[q]] \in Users
    BY <2>1
  <2>3. CASE owner[token[q]] = u
    <3>1. keyExpires'[owner'[token'[q]]] = now + RefreshTtl
      BY <1>1, <2>1, <2>3
    <3>2. QED BY <2>1, <3>1
  <2>4. CASE owner[token[q]] # u
    <3>1. \/ Young(family[token[q]], owner[token[q]])
          \/ started[q] + RefreshTtl <= keyExpires[owner[token[q]]]
      BY <1>1, <1>5, <2>1, <2>2, <2>4 DEF FinalInv
    <3>2. QED BY <1>1, <2>1, <2>2, <2>4, <3>1 DEF Young, Family
  <2>5. QED BY <2>3, <2>4
<1>6. QED BY <1>4, <1>5 DEF FinalInv

\* Every step preserves FinalInv.
LEMMA FinalStep ==
  ASSUME CoreInv, FinalInv, [Next]_vars
  PROVE  FinalInv'
<1> DEFINE Quiet == /\ UNCHANGED <<rows, owner, family, issuedAt, keyVars>>
                    /\ \A q \in Requests : pc'[q] \in {"consuming", "rotating"} =>
                          /\ pc[q] \in {"consuming", "rotating"}
                          /\ token'[q] = token[q] /\ started'[q] = started[q]
<1>1. ASSUME NEW r \in Requests, Arrive(r) PROVE Quiet
  BY <1>1 DEF Arrive, LoginStart, LogoutAllStart, DeactivateCommit, RotateStart,
              LogoutStart, RevokeSessionStart, RevokeFamily
<1>2. ASSUME NEW r \in Requests, Reactivate(r) \/ LoginSnapshot(r) \/ LoginCount(r)
      PROVE  Quiet
  BY <1>2 DEF Reactivate, LoginSnapshot, LoginCount
<1>3. ASSUME NEW r \in Requests, RotateConsume(r) PROVE Quiet
  BY <1>3 DEF RotateConsume, RevokeFamily
<1>4. ASSUME NEW r \in Requests,
             RevokeSnapshot(r) \/ RevokeCommit(r) \/ Stamp(r) \/ Crash(r) \/ Lock(r)
      PROVE  Quiet
  BY <1>4 DEF RevokeSnapshot, RevokeCommit, Stamp, Crash, Lock, LockRow,
              LoginLock, EvictLock, RevokeLock
<1>5. ASSUME Tick \/ UNCHANGED vars PROVE Quiet
  BY <1>5 DEF Tick, vars
<1>6. ASSUME Quiet PROVE FinalInv'
  <2>1. UNCHANGED <<rows, owner, family, issuedAt, keyVars>>
    BY <1>6
  <2>2. \A q \in Requests : pc'[q] \in {"consuming", "rotating"} =>
           /\ pc[q] \in {"consuming", "rotating"}
           /\ token'[q] = token[q] /\ started'[q] = started[q]
    BY <1>6
  <2> HIDE DEF CoreInv, FinalInv, Quiet, keyVars
  <2>3. QED BY <2>1, <2>2, FinalFrame
<1> HIDE DEF Quiet
<1> HIDE DEF CoreInv
<1>7. ASSUME NEW r \in Requests, Step(r) PROVE FinalInv'
  <2>1. CASE RotateCheck(r) \/ LoginCommit(r)
    BY <2>1, FinalCheck, FinalLogin
  <2>2. CASE RotateCommit(r) \/ SetRevokeBefore(r)
    BY <2>2, FinalRotate, FinalSet
  <2>3. QED BY <1>2, <1>3, <1>4, <1>6, <1>7, <2>1, <2>2 DEF Step
<1>8. ASSUME NEW r \in Requests, Arrive(r) \/ Lock(r) \/ Crash(r) PROVE FinalInv'
  BY <1>1, <1>4, <1>6, <1>8
<1>9. QED BY <1>5, <1>6, <1>7, <1>8 DEF Next

-----------------------------------------------------------------------------
(* SurvivorInv: a rotation begins, a token is minted, a family is revoked. *)

\* Steps that leave the rows alone and begin no rotation.
LEMMA SurvivorFrame ==
  ASSUME SurvivorInv,
         UNCHANGED <<rows, family, issuedAt, revoked, struckAt>>,
         \A q \in Requests : pc'[q] \in RotatePCs =>
            /\ pc[q] \in RotatePCs
            /\ token'[q] = token[q] /\ started'[q] = started[q]
  PROVE  SurvivorInv'
<1> HIDE DEF RotatePCs
<1>1. \A f : Family(f)' = Family(f)
  BY DEF Family
<1>2. QED BY <1>1 DEF SurvivorInv, Survivor

\* A rotation begins on a row that is not revoked, so its family survived.
LEMMA SurvivorStart ==
  ASSUME CoreInv, SurvivorInv, NEW r \in Requests, NEW t \in Tokens, RotateStart(r, t)
  PROVE  SurvivorInv'
<1>1. /\ t \in rows \ revoked
      /\ UNCHANGED <<rows, family, issuedAt, revoked, struckAt>>
  BY DEF RotateStart
<1>2. \A f : Family(f)' = Family(f)
  BY <1>1 DEF Family
<1>3. \A q \in Requests : pc'[q] \in RotatePCs =>
         \/ pc[q] \in RotatePCs /\ token'[q] = token[q] /\ started'[q] = started[q]
         \/ token'[q] = t
  BY DEF RotateStart, RevokeFamily
<1>4. ~(Family(family[t]) \subseteq revoked)
  BY <1>1 DEF Family
<1> HIDE DEF RotatePCs
<1>5. QED BY <1>1, <1>2, <1>3, <1>4 DEF SurvivorInv, Survivor

\* The new row is a survivor, or another row is.
LEMMA SurvivorRotate ==
  ASSUME CoreInv, SurvivorInv, NEW r \in Requests, RotateCommit(r)
  PROVE  SurvivorInv'
<1>1. PICK n \in Tokens \ rows, g \in rows :
         /\ g = family[token[r]]
         /\ rows' = rows \cup {n} /\ family' = [family EXCEPT ![n] = g]
         /\ issuedAt' = [issuedAt EXCEPT ![n] = started[r]]
         /\ UNCHANGED <<revoked, struckAt>>
  BY DEF RotateCommit, RotateInto, Insert
<1>2. \A f \in rows : Family(f)' = IF f = g THEN Family(f) \cup {n} ELSE Family(f)
  BY <1>1 DEF Family
<1>3. \A s \in rows : issuedAt'[s] = issuedAt[s] /\ family'[s] = family[s]
  BY <1>1
<1>4. issuedAt'[n] = started[r] /\ pc[r] \in RotatePCs
  BY <1>1 DEF RotateCommit, RotateInto
<1>5. Family(n)' = {} /\ struckAt[n] = 0
  BY <1>1 DEF Family, SurvivorInv
<1>6. \A q \in Requests : pc'[q] \in RotatePCs =>
         /\ pc[q] \in RotatePCs /\ token[q] \in rows
         /\ token'[q] = token[q] /\ started'[q] = started[q]
  BY DEF RotateCommit, RotateInto
<1>7. \A f \in rows : Survivor(f) => Survivor(f)'
  <2> SUFFICES ASSUME NEW f \in rows, Survivor(f) PROVE Survivor(f)'
    OBVIOUS
  <2>1. PICK s \in Family(f) \ revoked : issuedAt[s] <= struckAt[f]
    BY DEF Survivor
  <2>2. s \in Family(f)' \ revoked' /\ issuedAt'[s] <= struckAt'[f]
    BY <1>1, <1>2, <1>3, <2>1 DEF Family
  <2>3. QED BY <2>2 DEF Survivor
<1>8. ASSUME NEW f \in rows, struckAt[f] # 0, ~(Family(f)' \subseteq revoked)
      PROVE  Survivor(f)'
  <2>1. CASE ~(Family(f) \subseteq revoked)
    BY <1>7, <1>8, <2>1 DEF SurvivorInv
  <2>2. CASE Family(f) \subseteq revoked
    <3>1. f = g /\ n \notin revoked
      BY <1>2, <1>8, <2>2
    <3>2. started[r] <= struckAt[f] \/ Survivor(f)
      BY <1>1, <1>4, <1>8, <3>1 DEF SurvivorInv
    <3>3. n \in Family(f)' \ revoked'
      BY <1>1, <1>2, <3>1
    <3>4. CASE started[r] <= struckAt[f]
      <4>1. issuedAt'[n] <= struckAt'[f]
        BY <1>1, <1>4, <3>4
      <4>2. QED BY <3>3, <4>1 DEF Survivor
    <3>5. QED BY <1>7, <3>2, <3>4
  <2>3. QED BY <2>1, <2>2
<1>9. ASSUME NEW f \in rows, struckAt[f] # 0, NEW q \in Requests,
             pc'[q] \in RotatePCs, family'[token'[q]] = f
      PROVE  started'[q] <= struckAt[f] \/ Survivor(f)'
  <2>1. started[q] <= struckAt[f] \/ Survivor(f)
    BY <1>3, <1>6, <1>9 DEF SurvivorInv
  <2>2. QED BY <1>6, <1>7, <1>9, <2>1
<1>10. \A f \in Tokens \ rows' : struckAt'[f] = 0
  BY <1>1 DEF SurvivorInv
<1>11. QED BY <1>1, <1>5, <1>8, <1>9, <1>10 DEF SurvivorInv

\* When a revocation commits, every row and every rotation is older.
LEMMA SurvivorRevoke ==
  ASSUME CoreInv, SurvivorInv, NEW S \in SUBSET Tokens, Revoke(S),
         UNCHANGED now,
         rows \subseteq rows', rows' \subseteq Tokens,
         \A s \in rows : /\ issuedAt'[s] = issuedAt[s] /\ issuedAt[s] <= now
                         /\ family'[s] = family[s] /\ family[s] \in rows,
         \A n \in rows' \ rows : family'[n] = n,
         \A q \in Requests : pc'[q] \in RotatePCs =>
            /\ pc[q] \in RotatePCs
            /\ token'[q] = token[q] /\ started'[q] = started[q]
            /\ token[q] \in rows /\ started[q] <= now
  PROVE  SurvivorInv'
<1> DEFINE hit(f) == \E t \in S : family[t] = f
<1>1. /\ revoked' = revoked \cup S
      /\ \A f \in Tokens : struckAt'[f] = IF hit(f) THEN now ELSE struckAt[f]
  BY DEF Revoke
<1>2. \A f \in rows : Family(f)' = Family(f)
  BY DEF Family
<1>3. \A f \in Tokens \ rows : ~hit(f) /\ struckAt[f] = 0
  <2>1. \A t \in Tokens : family[t] \in Tokens => family[t] \in rows
    OBVIOUS
  <2>2. QED BY <2>1 DEF SurvivorInv
<1>4. ASSUME NEW f \in rows, hit(f)
      PROVE  /\ ~(Family(f)' \subseteq revoked') => Survivor(f)'
             /\ \A q \in Requests : pc'[q] \in RotatePCs => started'[q] <= struckAt'[f]
  <2>1. struckAt'[f] = now
    BY <1>1, <1>4
  <2>2. \A s \in Family(f)' : issuedAt'[s] <= now
    BY <1>2 DEF Family
  <2> HIDE DEF hit, CoreInv, RotatePCs
  <2>3. QED BY <2>1, <2>2 DEF Survivor
<1>5. ASSUME NEW f \in rows, ~hit(f), struckAt'[f] # 0
      PROVE  /\ ~(Family(f)' \subseteq revoked') => Survivor(f)'
             /\ \A q \in Requests : pc'[q] \in RotatePCs /\ family'[token'[q]] = f
                   => started'[q] <= struckAt'[f] \/ Survivor(f)'
  <2>1. struckAt'[f] = struckAt[f]
    BY <1>1, <1>5
  <2>2. Family(f) \cap S = {}
    BY <1>5 DEF Family
  <2>3. \A s \in Family(f) : issuedAt'[s] = issuedAt[s] /\ s \in rows
    BY DEF Family
  <2>4. Family(f)' = Family(f) /\ Family(f)' \ revoked' = Family(f) \ revoked
    BY <1>1, <1>2, <2>2
  <2>5. Survivor(f) => Survivor(f)'
    BY <2>1, <2>3, <2>4 DEF Survivor
  <2>6. ~(Family(f)' \subseteq revoked') => ~(Family(f) \subseteq revoked)
    BY <1>1, <2>4
  <2> HIDE DEF hit, CoreInv, RotatePCs
  <2>7. QED BY <1>5, <2>1, <2>5, <2>6 DEF SurvivorInv
<1>6. \A f \in rows' \ rows : struckAt'[f] = 0
  BY <1>1, <1>3
<1>7. \A f \in Tokens \ rows' : struckAt'[f] = 0
  BY <1>1, <1>3
<1> HIDE DEF hit, CoreInv, RotatePCs
<1>8. QED BY <1>4, <1>5, <1>6, <1>7 DEF SurvivorInv

\* Every step preserves SurvivorInv.
LEMMA SurvivorStep ==
  ASSUME CoreInv, SurvivorInv, [Next]_vars
  PROVE  SurvivorInv'
<1> DEFINE Quiet == /\ UNCHANGED <<rows, family, issuedAt, revoked, struckAt>>
                    /\ \A q \in Requests : pc'[q] \in RotatePCs =>
                          /\ pc[q] \in RotatePCs
                          /\ token'[q] = token[q] /\ started'[q] = started[q]
<1>1. ASSUME NEW r \in Requests, NEW u \in Users,
             LoginStart(r, u) \/ LogoutAllStart(r, u) \/ DeactivateCommit(r, u)
      PROVE  Quiet
  BY <1>1 DEF LoginStart, LogoutAllStart, DeactivateCommit
<1>2. ASSUME NEW r \in Requests, NEW u \in Users, NEW t \in Tokens,
             LogoutStart(r, u, t) \/ RevokeSessionStart(r, u, t)
      PROVE  Quiet
  BY <1>2 DEF LogoutStart, RevokeSessionStart, RevokeFamily
<1>3. ASSUME NEW r \in Requests, Reactivate(r) \/ LoginSnapshot(r) \/ LoginCount(r)
      PROVE  Quiet
  BY <1>3 DEF Reactivate, LoginSnapshot, LoginCount
<1>4. ASSUME NEW r \in Requests, RotateCheck(r) \/ RotateConsume(r) PROVE Quiet
  BY <1>4 DEF RotateCheck, RotateConsume, RevokeFamily
<1>5. ASSUME NEW r \in Requests,
             \/ RevokeSnapshot(r) \/ Stamp(r) \/ SetRevokeBefore(r)
             \/ Crash(r) \/ Lock(r)
      PROVE  Quiet
  BY <1>5 DEF RevokeSnapshot, Stamp, SetRevokeBefore, Crash, Lock, LockRow,
              LoginLock, EvictLock, RevokeLock
<1>6. ASSUME Tick \/ UNCHANGED vars PROVE Quiet
  BY <1>6 DEF Tick, vars
<1>7. ASSUME Quiet PROVE SurvivorInv'
  <2>1. UNCHANGED <<rows, family, issuedAt, revoked, struckAt>>
    BY <1>7
  <2>2. \A q \in Requests : pc'[q] \in RotatePCs =>
           /\ pc[q] \in RotatePCs
           /\ token'[q] = token[q] /\ started'[q] = started[q]
    BY <1>7
  <2> HIDE DEF CoreInv, RotatePCs, Quiet
  <2>3. QED BY <2>1, <2>2, SurvivorFrame
<1>8. ASSUME NEW r \in Requests, RevokeCommit(r) PROVE SurvivorInv'
  <2>1. PICK S \in SUBSET Tokens : Revoke(S)
    BY <1>8 DEF RevokeCommit
  <2>2. UNCHANGED now /\ UNCHANGED rowVars
    BY <1>8 DEF RevokeCommit
  <2>3. \A s \in rows : issuedAt[s] <= now /\ family[s] \in rows
    OBVIOUS
  <2>4. \A q \in Requests : pc'[q] \in RotatePCs =>
            /\ pc[q] \in RotatePCs
            /\ token'[q] = token[q] /\ started'[q] = started[q]
            /\ token[q] \in rows /\ started[q] <= now
    BY <1>8 DEF RevokeCommit
  <2>5. rows \subseteq Tokens
    OBVIOUS
  <2> HIDE DEF CoreInv, RotatePCs, Quiet
  <2>6. QED BY <2>1, <2>2, <2>3, <2>4, <2>5, SurvivorRevoke
<1>9. ASSUME NEW r \in Requests, LoginCommit(r) PROVE SurvivorInv'
  <2>1. PICK S \in SUBSET Tokens : Revoke(S)
    BY <1>9 DEF LoginCommit
  <2>2. PICK n \in Tokens \ rows :
          /\ rows' = rows \cup {n} /\ UNCHANGED now /\ family'[n] = n
          /\ \A s \in rows : issuedAt'[s] = issuedAt[s] /\ family'[s] = family[s]
    BY <1>9 DEF LoginCommit, Insert
  <2>3. \A s \in rows : issuedAt[s] <= now /\ family[s] \in rows
    OBVIOUS
  <2>4. \A q \in Requests : pc'[q] \in RotatePCs =>
            /\ pc[q] \in RotatePCs
            /\ token'[q] = token[q] /\ started'[q] = started[q]
            /\ token[q] \in rows /\ started[q] <= now
    BY <1>9 DEF LoginCommit
  <2>5. rows \subseteq rows' /\ rows' \subseteq Tokens
        /\ \A m \in rows' \ rows : family'[m] = m
    BY <2>2
  <2> HIDE DEF CoreInv, RotatePCs, Quiet
  <2>6. QED BY <2>1, <2>2, <2>3, <2>4, <2>5, SurvivorRevoke
<1> HIDE DEF CoreInv, Quiet, RotatePCs
<1>10. ASSUME NEW r \in Requests, Arrive(r) PROVE SurvivorInv'
  BY <1>1, <1>2, <1>7, <1>10, SurvivorStart DEF Arrive
<1>11. ASSUME NEW r \in Requests, Step(r) PROVE SurvivorInv'
  BY <1>3, <1>4, <1>5, <1>7, <1>8, <1>9, <1>11, SurvivorRotate DEF Step
<1>12. ASSUME NEW r \in Requests, Lock(r) \/ Crash(r) PROVE SurvivorInv'
  BY <1>5, <1>7, <1>12
<1>13. QED BY <1>6, <1>7, <1>10, <1>11, <1>12 DEF Next

-----------------------------------------------------------------------------
(* HoldInv.                                                                *)

\* Every step preserves HoldInv.
LEMMA HoldStep ==
  ASSUME CoreInv, HoldInv, [Next]_vars
  PROVE  HoldInv'
<1> USE DEF HoldInv, FreePCs
<1>1. ASSUME NEW r \in Requests, Arrive(r) PROVE HoldInv'
  BY <1>1 DEF Arrive, LoginStart, LogoutAllStart, DeactivateCommit, RotateStart,
              LogoutStart, RevokeSessionStart, RevokeFamily
<1>2. ASSUME NEW r \in Requests, NEW t \in Tokens, LockRow(r, t),
             pc[r] \in {"locking", "minting", "revoking"}
      PROVE  HoldInv'
  BY <1>2 DEF LockRow
<1>3. ASSUME NEW r \in Requests, Reactivate(r) \/ LoginSnapshot(r) \/ LoginCount(r)
      PROVE  HoldInv'
  BY <1>3 DEF Reactivate, LoginSnapshot, LoginCount
<1>4. ASSUME NEW r \in Requests, lock' = Release(r), Goto(r, "idle") PROVE HoldInv'
  BY <1>4 DEF Release
<1>5. ASSUME NEW r \in Requests, LoginCommit(r) \/ RotateCommit(r) \/ RevokeCommit(r) \/ Crash(r)
      PROVE  lock' = Release(r) /\ Goto(r, "idle")
  BY <1>5 DEF LoginCommit, RotateCommit, RotateInto, RevokeCommit, Crash
<1>6. ASSUME NEW r \in Requests, RotateCheck(r) PROVE HoldInv'
  BY <1>6 DEF RotateCheck
<1>7. ASSUME NEW r \in Requests, RotateConsume(r) PROVE HoldInv'
  <2>1. token[r] \in Tokens /\ pc[r] = "consuming"
    BY <1>7 DEF RotateConsume
  <2>2. CASE UNCHANGED lock
    BY <1>7, <2>1, <2>2 DEF RotateConsume, RevokeFamily
  <2>3. CASE lock' = [lock EXCEPT ![token[r]] = r] /\ pc'[r] \in {"rotating", "revoke"}
    <3>1. \A q \in Requests : q # r => pc'[q] = pc[q]
      BY <1>7 DEF RotateConsume, RevokeFamily
    <3>2. QED BY <2>1, <2>3, <3>1
  <2>4. QED BY <1>7, <2>1, <2>2, <2>3 DEF RotateConsume, RevokeFamily
<1>8. ASSUME NEW r \in Requests, RevokeSnapshot(r) \/ Stamp(r) \/ SetRevokeBefore(r)
      PROVE  HoldInv'
  BY <1>8 DEF RevokeSnapshot, Stamp, SetRevokeBefore
<1>9. CASE Tick \/ UNCHANGED vars
  BY <1>9 DEF Tick, vars
<1> HIDE DEF HoldInv, FreePCs, CoreInv, Goto
<1>10. ASSUME NEW r \in Requests, Step(r) \/ Crash(r) PROVE HoldInv'
  BY <1>3, <1>4, <1>5, <1>6, <1>7, <1>8, <1>10 DEF Step
<1>11. ASSUME NEW r \in Requests, Lock(r) PROVE HoldInv'
  BY <1>2, <1>11 DEF Lock, LoginLock, EvictLock, RevokeLock
<1>12. QED BY <1>1, <1>9, <1>10, <1>11 DEF Next

-----------------------------------------------------------------------------
\* The invariant is inductive.
THEOREM Invariance == Spec => []Inv
<1>1. Inv /\ [Next]_vars => Inv'
  <2> HIDE DEF CoreInv
  <2>1. QED BY CoreStep, FinalStep, SurvivorStep, HoldStep DEF Inv
<1>2. QED BY InitInv, <1>1, PTL DEF Spec

-----------------------------------------------------------------------------
\* Every reachable state has the declared types.
THEOREM TypeCorrect == Spec => []TypeOK
<1>1. Inv => TypeOK
  BY DEF Inv
<1>2. QED BY Invariance, <1>1, PTL

\* consume_refresh_token makes rotation single-use for any number of
\* concurrent requests.
THEOREM RotationIsSingleUse == Spec => []SingleUse
<1>1. Inv => SingleUse
  BY DEF Inv
<1>2. QED BY Invariance, <1>1, PTL

\* list_live_families_for_user shows the token that can still be rotated.
THEOREM NewestRowIsUnconsumed == Spec => []NewestIsUnconsumed
<1>1. Inv => NewestIsUnconsumed
  BY DEF Inv
<1>2. QED BY Invariance, <1>1, PTL

\* logout_all, and deactivation once it has set revoke_before, reach every
\* family that no transaction begun between the stamp and the SET has added
\* to, whatever rotations are in flight and in whatever order stamps are
\* written, and the key's TTL never brings one back.
THEOREM RevokeBeforeFinal == Spec => []RevokeBeforeIsFinal
<1>1. Inv => RevokeBeforeIsFinal
  <2> SUFFICES ASSUME Inv, NEW t \in rows,
                      RefreshAccepted(t) \/ AccessAccepted(t)
               PROVE  Young(family[t], owner[t])
    BY DEF RevokeBeforeIsFinal, Young
  <2>1. ~RevokedBefore(t)
    BY DEF RefreshAccepted, AccessAccepted, Eligible
  <2>2. now <= issuedAt[t] + Idle \/ now < issuedAt[t] + MaxDuration + AccessTtl
    BY DEF RefreshAccepted, AccessAccepted, Eligible
  <2>3. /\ now \in Nat /\ issuedAt[t] \in Nat /\ 1 <= issuedAt[t]
        /\ revokeBefore[owner[t]] \in Nat /\ keyExpires[owner[t]] \in Nat
        /\ revokeBefore[owner[t]] # 0 =>
              revokeBefore[owner[t]] + RefreshTtl <= keyExpires[owner[t]]
    BY DEF Inv
  <2>4. issuedAt[t] > revokeBefore[owner[t]]
    BY <2>1, <2>2, <2>3 DEF RevokedBefore
  <2>5. QED BY <2>4 DEF Inv, FinalInv
<1>2. QED BY Invariance, <1>1, PTL

\* A family revocation misses only rotations that were running when it
\* committed.
THEOREM SurvivorsPredate == Spec => []SurvivorsPredateRevocation
<1>1. Inv => SurvivorsPredateRevocation
  BY DEF Inv, SurvivorInv, Survivor, SurvivorsPredateRevocation
<1>2. QED BY Invariance, <1>1, PTL

\* No rotation waits in a circle, for any number of requests and whatever
\* order statements lock their rows in.
THEOREM RotationsDoNotDeadlock == Spec => []RotationsNeverDeadlock
<1>1. Inv => RotationsNeverDeadlock
  <2> SUFFICES ASSUME Inv, NEW r \in Requests, pc[r] \in RotatePCs,
                      NEW D \in SUBSET Requests, r \in D,
                      NEW p \in D, WaitsFor(r, p), NEW q \in D, WaitsFor(q, r)
               PROVE  FALSE
    BY DEF RotationsNeverDeadlock, Deadlocked
  <2>1. pc[r] = "consuming"
    BY DEF WaitsFor, Wanted
  <2>2. \E t \in Tokens : lock[t] = r
    <3>1. q \in Requests /\ Wanted(q) \subseteq Tokens
      BY DEF Inv, Wanted
    <3>2. QED BY <3>1 DEF WaitsFor
  <2>3. QED BY <2>1, <2>2 DEF Inv, HoldInv, FreePCs
<1>2. QED BY Invariance, <1>1, PTL

-----------------------------------------------------------------------------
(* The rows change only by the commits of logins and rotations.            *)

\* A step that mints no token leaves the families and the consumed rows.
LEMMA RowsStay ==
  ASSUME [Next]_vars,
         \A r \in Requests : ~LoginCommit(r) /\ ~RotateCommit(r)
  PROVE  UNCHANGED rowVars
BY DEF Next, Arrive, Step, Lock, LockRow, LoginLock, EvictLock, RevokeLock,
       Crash, Tick, vars, LoginStart, LogoutAllStart, DeactivateCommit,
       RotateStart, LogoutStart, RevokeSessionStart, Reactivate, LoginSnapshot,
       LoginCount, RotateCheck, RotateConsume, RevokeSnapshot, RevokeCommit,
       Stamp, SetRevokeBefore

\* The rows implement the abstract single-use chain: a login is Open, a
\* rotation is Advance, every other step is invisible.
THEOREM Refinement == Spec => ImplementsChain
<1> DEFINE spent == {t \in rows : consumedAt[t] # 0}
<1>1. Init => Chain!Init
  BY DEF Init, Chain!Init
<1>2. Inv /\ [Next]_vars => [Chain!Next]_(Chain!chainVars)
  <2> SUFFICES ASSUME CoreInv, [Next]_vars
               PROVE  Chain!Next \/ UNCHANGED Chain!chainVars
    BY DEF Inv
  <2>1. ASSUME NEW r \in Requests, LoginCommit(r) PROVE Chain!Next
    <3>1. PICK n \in Tokens \ rows : Insert(n, user[r], n, started[r], now + RefreshTtl)
      BY <2>1 DEF LoginCommit
    <3>2. spent' = spent
      BY <2>1, <3>1 DEF LoginCommit, Insert
    <3>3. Chain!Open(n)
      BY <3>1, <3>2 DEF Insert, Chain!Open
    <3>4. QED BY <3>3 DEF Chain!Next
  <2>2. ASSUME NEW r \in Requests, RotateCommit(r) PROVE Chain!Next
    <3> DEFINE t == token[r]
    <3>1. PICK n \in Tokens \ rows : Insert(n, owner[t], family[t], started[r], expiresAt[t])
      BY <2>2 DEF RotateCommit, RotateInto
    <3>2. t \in rows /\ t \notin spent /\ family[t] # None
      BY <2>2 DEF RotateCommit, RotateInto
    <3>3. spent' = spent \cup {t}
      BY <2>2, <3>1, <3>2 DEF RotateCommit, RotateInto, Insert
    <3>4. Chain!Advance(t, n)
      BY <3>1, <3>2, <3>3 DEF Insert, Chain!Advance
    <3>5. QED BY <3>2, <3>4 DEF Chain!Next
  <2>3. CASE \A r \in Requests : ~LoginCommit(r) /\ ~RotateCommit(r)
    BY <2>3, RowsStay DEF Chain!chainVars
  <2>4. QED BY <2>1, <2>2, <2>3
<1>3. QED BY Invariance, <1>1, <1>2, PTL DEF Spec, ImplementsChain, Chain!Spec
=============================================================================
