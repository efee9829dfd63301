---------------------- MODULE TicketIdempotencyProofs ----------------------
(***************************************************************************)
(* Proofs about TicketIdempotency for every number of keys, bodies,        *)
(* tickets and concurrent requests.                                        *)
(***************************************************************************)
EXTENDS TicketIdempotency, TLAPS

\* A request that holds a claim began it while it could still be running,
\* and the envelope is its own, pending, and outlives it.
HoldInv ==
    \A r \in Requests :
        /\ pc[r] # "idle" => /\ key[r] \in Keys /\ hash[r] \in Hashes
                             /\ claim[r] <= now /\ now <= claim[r] + MaxDuration
        /\ pc[r] \in Holding => /\ envTicket[key[r]] = None
                                /\ envHash[key[r]] = hash[r]
                                /\ envExpires[key[r]] = claim[r] + Ttl

Exclusive ==
    \A q, r \in Requests :
        pc[q] \in Holding /\ pc[r] \in Holding /\ key[q] = key[r] => q = r

\* An envelope with a ticket names one made for its key and its body.
EnvelopeInv ==
    \A k \in Keys :
        envTicket[k] # None => /\ envTicket[k] \in tickets
                               /\ madeKey[envTicket[k]] = k
                               /\ madeHash[envTicket[k]] = envHash[k]

\* The same for a request that has a ticket in hand.
MineInv ==
    \A r \in Requests :
        pc[r] \in {"resolving", "found"} =>
            /\ mine[r] \in tickets
            /\ madeKey[mine[r]] = key[r] /\ madeHash[mine[r]] = hash[r]

Acknowledged == tickets \ unacknowledged

\* The window of an acknowledged ticket is over, or an envelope covers it.
CoverInv ==
    \A t \in Acknowledged :
        /\ madeKey[t] \in Keys
        /\ \/ claimedAt[t] + Ttl <= now
           \/ claimedAt[t] + Ttl <= envExpires[madeKey[t]]

\* A claim begins after the windows of all earlier tickets of its key.
ClaimInv ==
    \A r \in Requests, t \in Acknowledged :
        /\ pc[r] \in Holding
        /\ madeKey[t] = key[r]
        /\ pc[r] = "resolving" => t # mine[r]
        => claimedAt[t] + Ttl <= claim[r]

\* An envelope without a ticket that may still be there is held or orphaned.
OrphanInv ==
    \A k \in Keys : envTicket[k] = None /\ envExpires[k] # 0 =>
        \/ \E r \in Requests : pc[r] \in Holding /\ key[r] = k
        \/ k \in orphaned

Inv == /\ TypeOK /\ HoldInv /\ Exclusive /\ EnvelopeInv /\ MineInv
       /\ CoverInv /\ ClaimInv /\ OrphanInv /\ DuplicatesOnlyAfterLostAck

USE SettingsAssumption, NoneAssumption
USE DEF Inv, TypeOK, HoldInv, Exclusive, EnvelopeInv, MineInv, CoverInv, ClaimInv, OrphanInv,
        DuplicatesOnlyAfterLostAck, SameWindow, Acknowledged, Holding, Time, PCs,
        envVars, ticketVars, reqVars, Goto

\* Init establishes the invariant.
LEMMA InitInv == Init => Inv
BY DEF Init

\* A request that ends leaves the envelopes and the tickets; the key it held
\* is orphaned.
LEMMA FinishInv ==
  ASSUME Inv, NEW r \in Requests, pc[r] # "idle", Finish(r),
         UNCHANGED <<now, envHash, envTicket, envExpires, ticketVars>>,
         orphaned' = IF pc[r] \in Holding THEN orphaned \cup {key[r]} ELSE orphaned
  PROVE  Inv'
<1>1. TypeOK'
  BY DEF Finish
<1>2. HoldInv' /\ Exclusive'
  BY DEF Finish
<1>3. EnvelopeInv' /\ MineInv'
  BY DEF Finish
<1>4. CoverInv' /\ ClaimInv' /\ DuplicatesOnlyAfterLostAck'
  BY DEF Finish
<1>5. OrphanInv'
  BY DEF Finish
<1>6. QED BY <1>1, <1>2, <1>3, <1>4, <1>5

\* Claim: the key is free, so every earlier window of it is over.
LEMMA ClaimStepInv ==
  ASSUME Inv, NEW r \in Requests, NEW k \in Keys, NEW h \in Hashes, Claim(r, k, h)
  PROVE  Inv'
<1>1. TypeOK'
  BY DEF Claim, Begin, SetEnvelope
<1>2. \A q \in Requests : pc[q] \in Holding => key[q] # k
  BY DEF Claim, Present
<1>3. HoldInv'
  BY <1>2 DEF Claim, Begin, SetEnvelope
<1>4. Exclusive'
  BY <1>2 DEF Claim, Begin
<1>5. EnvelopeInv' /\ MineInv'
  BY DEF Claim, Begin, SetEnvelope
<1>6. \A t \in Acknowledged : madeKey[t] = k => claimedAt[t] + Ttl <= now
  BY DEF Claim, Present
<1>7. CoverInv'
  BY <1>6 DEF Claim, SetEnvelope
<1>8. ClaimInv' /\ DuplicatesOnlyAfterLostAck'
  BY <1>6 DEF Claim, Begin
<1>9. OrphanInv'
  BY DEF Claim, Begin, SetEnvelope
<1>10. QED BY <1>1, <1>3, <1>4, <1>5, <1>7, <1>8, <1>9

\* The commit, acknowledged or not.
LEMMA CommitInv ==
  ASSUME Inv, NEW r \in Requests, NEW t \in TicketIds,
         Commit(r, t) \/ CommitUnacknowledged(r, t)
  PROVE  Inv'
<1>1. CASE Commit(r, t)
  <2>1. TypeOK'
    BY <1>1 DEF Commit, Insert
  <2>2. HoldInv' /\ Exclusive'
    BY <1>1 DEF Commit
  <2>3. EnvelopeInv'
    BY <1>1 DEF Commit, Insert
  <2>4. MineInv'
    BY <1>1 DEF Commit, Insert
  <2>5. CoverInv'
    BY <1>1 DEF Commit, Insert
  <2>6. ClaimInv'
    BY <1>1 DEF Commit, Insert
  <2>7. DuplicatesOnlyAfterLostAck'
    <3>1. /\ tickets' = tickets \cup {t} /\ unacknowledged' = unacknowledged
          /\ \A s \in tickets : madeKey'[s] = madeKey[s] /\ claimedAt'[s] = claimedAt[s]
          /\ madeKey'[t] = key[r] /\ claimedAt'[t] = claim[r]
      BY <1>1 DEF Commit, Insert
    <3>2. \A s \in Acknowledged : madeKey[s] = key[r] => claimedAt[s] + Ttl <= claim[r]
      BY <1>1 DEF Commit
    <3>3. \A s \in tickets : claimedAt[s] \in Nat /\ claimedAt[s] <= MaxTime
      OBVIOUS
    <3>4. QED BY <3>1, <3>2, <3>3
  <2>8. OrphanInv'
    BY <1>1 DEF Commit
  <2>9. QED BY <2>1, <2>2, <2>3, <2>4, <2>5, <2>6, <2>7, <2>8
<1>2. CASE CommitUnacknowledged(r, t)
  <2>1. TypeOK'
    BY <1>2 DEF CommitUnacknowledged, Insert
  <2>2. HoldInv' /\ Exclusive'
    BY <1>2 DEF CommitUnacknowledged
  <2>3. EnvelopeInv'
    BY <1>2 DEF CommitUnacknowledged, Insert
  <2>4. MineInv'
    BY <1>2 DEF CommitUnacknowledged, Insert
  <2>5. CoverInv'
    BY <1>2 DEF CommitUnacknowledged, Insert
  <2>6. ClaimInv'
    BY <1>2 DEF CommitUnacknowledged, Insert
  <2>7. DuplicatesOnlyAfterLostAck'
    BY <1>2 DEF CommitUnacknowledged, Insert
  <2>8. OrphanInv'
    BY <1>2 DEF CommitUnacknowledged
  <2>9. QED BY <2>1, <2>2, <2>3, <2>4, <2>5, <2>6, <2>7, <2>8
<1>3. QED BY <1>1, <1>2

\* The last cache write of the claimant: Release or Resolve.
LEMMA LastWriteInv ==
  ASSUME Inv, NEW r \in Requests, Release(r) \/ Resolve(r)
  PROVE  Inv'
<1>1. CASE Release(r)
  <2>1. TypeOK'
    BY <1>1 DEF Release, SetEnvelope, Finish
  <2>2. HoldInv' /\ Exclusive'
    BY <1>1 DEF Release, SetEnvelope, Finish
  <2>3. EnvelopeInv' /\ MineInv'
    BY <1>1 DEF Release, SetEnvelope, Finish
  <2>4. CoverInv'
    BY <1>1 DEF Release, SetEnvelope
  <2>5. ClaimInv' /\ DuplicatesOnlyAfterLostAck'
    BY <1>1 DEF Release, Finish
  <2>6. OrphanInv'
    BY <1>1 DEF Release, SetEnvelope, Finish
  <2>7. QED BY <2>1, <2>2, <2>3, <2>4, <2>5, <2>6
<1>2. CASE Resolve(r)
  <2>1. TypeOK'
    BY <1>2 DEF Resolve, SetEnvelope, Finish
  <2>2. HoldInv' /\ Exclusive'
    BY <1>2 DEF Resolve, SetEnvelope, Finish
  <2>3. EnvelopeInv' /\ MineInv'
    BY <1>2 DEF Resolve, SetEnvelope, Finish
  <2>4. CoverInv'
    BY <1>2 DEF Resolve, SetEnvelope
  <2>5. ClaimInv' /\ DuplicatesOnlyAfterLostAck'
    BY <1>2 DEF Resolve, Finish
  <2>6. OrphanInv'
    BY <1>2 DEF Resolve, SetEnvelope, Finish
  <2>7. QED BY <2>1, <2>2, <2>3, <2>4, <2>5, <2>6
<1>3. QED BY <1>1, <1>2

\* Failing work, the poll and the clock.
LEMMA OtherInv ==
  ASSUME Inv, \/ \E r \in Requests : Fail(r) \/ Poll(r)
              \/ \E r \in Requests, k \in Keys, h \in Hashes : Replay(r, k, h)
              \/ Tick \/ UNCHANGED vars
  PROVE  Inv'
<1>1. ASSUME NEW r \in Requests, Fail(r) PROVE Inv'
  BY <1>1 DEF Fail
<1>2. ASSUME NEW r \in Requests, Poll(r) PROVE Inv'
  <2>1. TypeOK'
    <3>1. CASE envTicket[key[r]] = None
      <4>1. attempts[r] + 1 \in 0 .. MaxAttempts
        BY <1>2 DEF Poll
      <4>2. QED BY <1>2, <3>1, <4>1 DEF Poll, PollTurn
    <3>2. CASE envTicket[key[r]] # None
      BY <1>2, <3>2 DEF Poll, PollTurn
    <3>3. QED BY <3>1, <3>2
  <2>2. HoldInv' /\ Exclusive'
    BY <1>2 DEF Poll, PollTurn
  <2>3. EnvelopeInv' /\ MineInv'
    BY <1>2 DEF Poll, PollTurn
  <2>4. CoverInv' /\ ClaimInv' /\ DuplicatesOnlyAfterLostAck'
    BY <1>2 DEF Poll, PollTurn
  <2>5. OrphanInv'
    BY <1>2 DEF Poll, PollTurn
  <2>6. QED BY <2>1, <2>2, <2>3, <2>4, <2>5
<1>3. ASSUME NEW r \in Requests, NEW k \in Keys, NEW h \in Hashes, Replay(r, k, h)
      PROVE  Inv'
  BY <1>3 DEF Replay, Begin
<1>4. CASE Tick
  BY <1>4 DEF Tick
<1>5. CASE UNCHANGED vars
  BY <1>5 DEF vars
<1>6. QED BY <1>1, <1>2, <1>3, <1>4, <1>5

\* The invariant is inductive.
THEOREM Invariance == Spec => []Inv
<1>1. Inv /\ [Next]_vars => Inv'
  <2> SUFFICES ASSUME Inv, [Next]_vars PROVE Inv'
    OBVIOUS
  <2>1. ASSUME NEW r \in Requests, PollFails(r) \/ Answer(r) \/ Crash(r) PROVE Inv'
    BY <2>1, FinishInv DEF PollFails, Answer, Crash
  <2>2. QED BY <2>1, ClaimStepInv, CommitInv, LastWriteInv, OtherInv DEF Next, Step
<1>2. QED BY InitInv, <1>1, PTL DEF Spec

\* Every reachable state has the declared types.
THEOREM TypeCorrect == Spec => []TypeOK
<1>1. Inv => TypeOK
  OBVIOUS
<1>2. QED BY Invariance, <1>1, PTL

\* Within the TTL one key makes two tickets only after a commit that was
\* taken for a failure.
THEOREM Idempotent == Spec => []DuplicatesOnlyAfterLostAck
<1>1. Inv => DuplicatesOnlyAfterLostAck
  OBVIOUS
<1>2. QED BY Invariance, <1>1, PTL

\* A replay answers with the ticket of its own key and body.
THEOREM Replays == Spec => []ReplayIsSound
<1>1. Inv => ReplayIsSound
  BY DEF ReplayIsSound
<1>2. QED BY Invariance, <1>1, PTL

\* The claim is exclusive for as long as its holder may run.
THEOREM Claims == Spec => []ClaimIsExclusive
<1>1. Inv => ClaimIsExclusive
  BY DEF ClaimIsExclusive, Pending, Present
<1>2. QED BY Invariance, <1>1, PTL

\* create_ticket: an envelope is left without its ticket only by a claimant
\* that died; one whose work failed has released it.
THEOREM FailuresRelease == Spec => []StuckOnlyAfterCrash
<1>1. Inv => StuckOnlyAfterCrash
  BY DEF StuckOnlyAfterCrash, Pending, Present
<1>2. QED BY Invariance, <1>1, PTL
=============================================================================
