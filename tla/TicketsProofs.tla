--------------------------- MODULE TicketsProofs ---------------------------
(***************************************************************************)
(* Proofs about Tickets for every number of tickets, agents and concurrent *)
(* requests.                                                               *)
(***************************************************************************)
EXTENDS Tickets, TLAPS

\* What a request knows between its steps.  A reply that read a ticket which
\* was not resolved meets it resolved only when the resolution came later,
\* and one that saw first_response_at set finds it set.
RequestInv ==
    \A r \in Requests : pc[r] # "idle" =>
        /\ ticket[r] \in TicketIds
        /\ started[r] <= now /\ now <= started[r] + MaxDuration
        /\ pc[r] \in Replies /\ seen[r] # "resolved" /\ status[ticket[r]] = "resolved"
              => started[r] <= resolvedAt[ticket[r]]
        /\ pc[r] = "agentReply" /\ r \notin unanswered => firstResponseAt[ticket[r]] # 0

Inv == TypeOK /\ 1 <= now /\ ConstraintsHold /\ AnsweredIsStamped /\ RequestInv

USE WindowAssumption, NoneAssumption
USE DEF Inv, TypeOK, RequestInv, ConstraintsHold, AnsweredIsStamped,
        Time, Statuses, Transitions, Replies, PCs, Entries, ticketVars, reqVars

\* Init establishes the invariant.
LEMMA InitInv == Init => Inv
BY DEF Init

\* Every event starts from a live ticket.
LEMMA EligibleStatuses ==
  /\ Eligible("resolve") = {"open", "waiting_on_support", "waiting_on_customer"}
  /\ Eligible("close") = {"open", "waiting_on_support", "waiting_on_customer", "resolved"}
  /\ Eligible("reopen") = {"resolved"}
BY DEF Eligible

\* What update() may write, and when.
LEMMA StatusUpdates ==
  ASSUME NEW r \in Requests
  PROVE  /\ StatusUpdate(r) \in {"waiting_on_support", "waiting_on_customer", None}
         /\ StatusUpdate(r) # None => pc[r] \in Replies /\ seen[r] # "resolved"
<1>1. CASE pc[r] = "agentReply" /\ seen[r] # "resolved"
  BY <1>1 DEF StatusUpdate
<1>2. CASE pc[r] = "customerReply" /\ seen[r] = "waiting_on_customer"
  BY <1>2 DEF StatusUpdate
<1>3. CASE /\ ~(pc[r] = "agentReply" /\ seen[r] # "resolved")
           /\ ~(pc[r] = "customerReply" /\ seen[r] = "waiting_on_customer")
  BY <1>3 DEF StatusUpdate
<1>4. QED BY <1>1, <1>2, <1>3

\* A request that reads a ticket changes only what it remembers.
LEMMA ReadInv ==
  ASSUME Inv, NEW r \in Requests, NEW t \in TicketIds, NEW p \in PCs,
         NEW a \in Agents \cup {None}, Read(r, t, p, a)
  PROVE  Inv'
<1>1. TypeOK' /\ now' >= 1
  BY DEF Read
<1>2. ConstraintsHold' /\ AnsweredIsStamped'
  BY DEF Read
<1>3. RequestInv'
  BY DEF Read
<1>4. QED BY <1>1, <1>2, <1>3

\* A request that ends without a write.
LEMMA EndInv ==
  ASSUME Inv, NEW r \in Requests, End(r)
  PROVE  Inv'
<1>1. TypeOK' /\ now' >= 1
  BY DEF End, Finish
<1>2. ConstraintsHold' /\ AnsweredIsStamped'
  BY DEF End
<1>3. RequestInv'
  BY DEF End, Finish
<1>4. QED BY <1>1, <1>2, <1>3

\* The transition endpoints.
LEMMA TransitionInv ==
  ASSUME Inv, NEW r \in Requests, ResolveCommit(r) \/ CloseCommit(r) \/ ReopenCommit(r)
  PROVE  Inv'
<1>1. CASE ResolveCommit(r)
  <2>1. TypeOK' /\ now' >= 1
    BY <1>1 DEF ResolveCommit, Finish
  <2>2. ConstraintsHold' /\ AnsweredIsStamped'
    BY <1>1, EligibleStatuses DEF ResolveCommit
  <2>3. RequestInv'
    BY <1>1 DEF ResolveCommit, Finish
  <2>4. QED BY <2>1, <2>2, <2>3
<1>2. CASE CloseCommit(r)
  <2>1. TypeOK' /\ now' >= 1
    BY <1>2 DEF CloseCommit, Finish
  <2>2. ConstraintsHold' /\ AnsweredIsStamped'
    BY <1>2, EligibleStatuses DEF CloseCommit
  <2>3. RequestInv'
    BY <1>2 DEF CloseCommit, Finish
  <2>4. QED BY <2>1, <2>2, <2>3
<1>3. CASE ReopenCommit(r)
  <2>1. TypeOK' /\ now' >= 1
    BY <1>3 DEF ReopenCommit, Reopened, Finish
  <2>2. ConstraintsHold' /\ AnsweredIsStamped'
    BY <1>3, EligibleStatuses DEF ReopenCommit, Reopened, CanReopen
  <2>3. RequestInv'
    BY <1>3 DEF ReopenCommit, Reopened, Finish
  <2>4. QED BY <2>1, <2>2, <2>3
<1>4. QED BY <1>1, <1>2, <1>3

\* Assignments leave everything but the assignee.
LEMMA AssignInv ==
  ASSUME Inv, NEW r \in Requests, AssignCheck(r) \/ AssignCommit(r) \/ UnassignCommit(r)
  PROVE  Inv'
<1>1. CASE AssignCheck(r)
  BY <1>1 DEF AssignCheck
<1>2. CASE AssignCommit(r)
  BY <1>2 DEF AssignCommit, Finish
<1>3. CASE UnassignCommit(r)
  BY <1>3 DEF UnassignCommit, Finish
<1>4. QED BY <1>1, <1>2, <1>3

\* A reply.  Its unconditional UPDATE meets no closed ticket, because the
\* CHECK constraint refuses it there.
LEMMA ReplyInv ==
  ASSUME Inv, NEW r \in Requests, ReplyCommit(r)
  PROVE  Inv'
<1> DEFINE t == ticket[r]
<1>0. pc[r] \in Replies /\ t \in TicketIds
  BY DEF ReplyCommit
<1>1. CASE ReplyReopens(r)
  <2>1. TypeOK' /\ now' >= 1
    BY <1>1 DEF ReplyCommit, Reopened, Finish, Stamps
  <2>2. ConstraintsHold'
    BY <1>1, EligibleStatuses DEF ReplyCommit, Reopened, ReplyReopens, CanReopen
  <2>3. AnsweredIsStamped'
    BY <1>1 DEF ReplyCommit, ReplyReopens, Stamps
  <2>4. RequestInv'
    BY <1>1 DEF ReplyCommit, Reopened, ReplyReopens, Stamps, Finish
  <2>5. QED BY <2>1, <2>2, <2>3, <2>4
<1>2. CASE ~ReplyReopens(r)
  <2>1. /\ status' = [status EXCEPT ![t] = WrittenStatus(r)]
        /\ entry' = None /\ UNCHANGED <<resolvedAt, closedAt, now, assignee, writers>>
        /\ Finish(r)
    BY <1>2 DEF ReplyCommit
  <2>2. \/ status' = status
        \/ /\ status' = [status EXCEPT ![t] = StatusUpdate(r)]
           /\ StatusUpdate(r) \in {"waiting_on_support", "waiting_on_customer"}
           /\ closedAt[t] = 0
    BY <2>1, StatusUpdates DEF ReplyCommit, ViolatesCheck, WrittenStatus
  <2>3. /\ firstResponseAt' \in [TicketIds -> Time]
        /\ answered' \subseteq TicketIds
        /\ \A s \in TicketIds : firstResponseAt[s] # 0 => firstResponseAt'[s] # 0
    BY <1>0 DEF ReplyCommit, Stamps
  <2>4. TypeOK' /\ now' >= 1
    <3>1. status' \in [TicketIds -> Statuses]
      BY <1>0, <2>2
    <3>2. /\ pc' \in [Requests -> PCs] /\ ticket' \in [Requests -> TicketIds \cup {None}]
          /\ started' \in [Requests -> Time] /\ seen' \in [Requests -> Statuses]
          /\ seenAssignee' \in [Requests -> Agents \cup {None}]
          /\ unanswered' \subseteq Requests /\ target' \in [Requests -> Agents \cup {None}]
      BY <2>1 DEF Finish
    <3>3. QED BY <2>1, <2>3, <3>1, <3>2
  <2>5. ConstraintsHold'
    BY <1>0, <2>1, <2>2
  <2>6. AnsweredIsStamped'
    BY <1>0 DEF ReplyCommit, Stamps
  <2>7. RequestInv'
    BY <1>0, <2>1, <2>2, <2>3 DEF Finish
  <2>8. QED BY <2>4, <2>5, <2>6, <2>7
<1>3. QED BY <1>1, <1>2

\* The job, the clock and the accounts of the agents.
LEMMA OtherInv ==
  ASSUME Inv, \/ \E t \in TicketIds : Create(t)
              \/ \E a \in Agents : LoseWriter(a)
              \/ AutoClose \/ Tick \/ UNCHANGED vars
  PROVE  Inv'
<1>1. ASSUME NEW t \in TicketIds, Create(t) PROVE Inv'
  BY <1>1 DEF Create
<1>2. ASSUME NEW a \in Agents, LoseWriter(a) PROVE Inv'
  BY <1>2 DEF LoseWriter
<1>3. CASE AutoClose
  BY <1>3 DEF AutoClose, Overdue
<1>4. CASE Tick
  BY <1>4 DEF Tick
<1>5. CASE UNCHANGED vars
  BY <1>5 DEF vars
<1>6. QED BY <1>1, <1>2, <1>3, <1>4, <1>5

\* The invariant is inductive.
THEOREM Invariance == Spec => []Inv
<1>1. Inv /\ [Next]_vars => Inv'
  <2> SUFFICES ASSUME Inv, [Next]_vars PROVE Inv'
    OBVIOUS
  <2>1. ASSUME NEW r \in Requests, Arrive(r) PROVE Inv'
    BY <2>1, ReadInv DEF Arrive, TransitionStart, AssignStart, UnassignStart, ReplyStart
  <2>2. ASSUME NEW r \in Requests, Step(r) \/ Crash(r) PROVE Inv'
    BY <2>2, TransitionInv, AssignInv, ReplyInv, EndInv
       DEF Step, Crash, TransitionLost, AssignmentRefused, ReplyFails
  <2>3. QED BY <2>1, <2>2, OtherInv DEF Next
<1>2. QED BY InitInv, <1>1, PTL DEF Spec

\* Every reachable state has the declared types.
THEOREM TypeCorrect == Spec => []TypeOK
<1>1. Inv => TypeOK
  OBVIOUS
<1>2. QED BY Invariance, <1>1, PTL

\* The CHECK constraints of the table hold for every interleaving.
THEOREM Constraints == Spec => []ConstraintsHold
<1>1. Inv => ConstraintsHold
  OBVIOUS
<1>2. QED BY Invariance, <1>1, PTL

\* first_response_at tells exactly which tickets have a public agent reply.
THEOREM Stamping == Spec => []AnsweredIsStamped
<1>1. Inv => AnsweredIsStamped
  OBVIOUS
<1>2. QED BY Invariance, <1>1, PTL

-----------------------------------------------------------------------------
(* Action properties.                                                      *)

\* Only these steps touch the status, the assignee or the two times.
LEMMA TicketSteps ==
  ASSUME [Next]_vars
  PROVE  \/ UNCHANGED <<status, assignee, resolvedAt, closedAt>>
         \/ \E t \in TicketIds : Create(t)
         \/ AutoClose
         \/ \E r \in Requests :
               \/ ResolveCommit(r) \/ CloseCommit(r) \/ ReopenCommit(r)
               \/ AssignCommit(r) \/ UnassignCommit(r) \/ ReplyCommit(r)
<1>1. ASSUME NEW r \in Requests, Arrive(r)
      PROVE  UNCHANGED <<status, assignee, resolvedAt, closedAt>>
  BY <1>1 DEF Arrive, TransitionStart, AssignStart, UnassignStart, ReplyStart, Read
<1>2. ASSUME NEW r \in Requests,
             \/ TransitionLost(r) \/ AssignCheck(r) \/ AssignmentRefused(r)
             \/ ReplyFails(r) \/ Crash(r)
      PROVE  UNCHANGED <<status, assignee, resolvedAt, closedAt>>
  BY <1>2 DEF TransitionLost, AssignCheck, AssignmentRefused, ReplyFails, Crash, End
<1>3. CASE (\E a \in Agents : LoseWriter(a)) \/ Tick \/ UNCHANGED vars
  BY <1>3 DEF LoseWriter, Tick, vars
<1>4. QED BY <1>1, <1>2, <1>3 DEF Next, Step

\* No interleaving of requests and the job reopens, reassigns or restamps a
\* closed ticket.
THEOREM Terminal == Spec => ClosedIsTerminal
<1> DEFINE Frozen(t) == /\ status'[t] = "closed"
                        /\ UNCHANGED <<closedAt[t], resolvedAt[t], assignee[t]>>
<1>1. Inv /\ [Next]_vars => \A t \in TicketIds : status[t] = "closed" => Frozen(t)
  <2> SUFFICES ASSUME Inv, [Next]_vars, NEW t \in TicketIds, status[t] = "closed"
               PROVE  Frozen(t)
    OBVIOUS
  <2>1. ASSUME NEW s \in TicketIds, Create(s) PROVE Frozen(t)
    BY <2>1 DEF Create
  <2>2. CASE AutoClose
    BY <2>2 DEF AutoClose, Overdue
  <2>3. ASSUME NEW r \in Requests, ResolveCommit(r) \/ CloseCommit(r) PROVE Frozen(t)
    BY <2>3, EligibleStatuses DEF ResolveCommit, CloseCommit
  <2>4. ASSUME NEW r \in Requests, ReopenCommit(r) PROVE Frozen(t)
    BY <2>4, EligibleStatuses DEF ReopenCommit, Reopened, CanReopen
  <2>5. ASSUME NEW r \in Requests, AssignCommit(r) \/ UnassignCommit(r) PROVE Frozen(t)
    BY <2>5 DEF AssignCommit, UnassignCommit
  <2>6. ASSUME NEW r \in Requests, ReplyCommit(r) PROVE Frozen(t)
    <3>1. CASE ReplyReopens(r)
      BY <2>6, <3>1, EligibleStatuses DEF ReplyCommit, Reopened, ReplyReopens, CanReopen
    <3>2. CASE ~ReplyReopens(r)
      BY <2>6, <3>2 DEF ReplyCommit, ViolatesCheck, WrittenStatus
    <3>3. QED BY <3>1, <3>2
  <2>7. QED BY <2>1, <2>2, <2>3, <2>4, <2>5, <2>6, TicketSteps
<1>2. QED BY Invariance, <1>1, PTL DEF Spec, ClosedIsTerminal

\* A resolved ticket comes back only within its window, also by the reply
\* that read it before it was resolved.
THEOREM WindowKept == Spec => ReopensWithinWindow
<1> DEFINE Kept == \A t \in TicketIds :
          status[t] = "resolved" /\ status'[t] \notin {"resolved", "closed"}
          => resolvedAt[t] + Window + MaxDuration >= now
<1>1. Inv /\ [Next]_vars => Kept
  <2> SUFFICES ASSUME Inv, [Next]_vars, NEW t \in TicketIds,
                      status[t] = "resolved", status'[t] \notin {"resolved", "closed"},
                      ~(resolvedAt[t] + Window + MaxDuration >= now)
               PROVE  FALSE
    OBVIOUS
  <2>1. ASSUME NEW s \in TicketIds, Create(s) PROVE FALSE
    BY <2>1 DEF Create
  <2>2. CASE AutoClose
    BY <2>2 DEF AutoClose
  <2>3. ASSUME NEW r \in Requests, ResolveCommit(r) \/ CloseCommit(r) PROVE FALSE
    BY <2>3 DEF ResolveCommit, CloseCommit
  <2>4. ASSUME NEW r \in Requests, ReopenCommit(r) PROVE FALSE
    BY <2>4 DEF ReopenCommit, Reopened, CanReopen, WithinWindow
  <2>5. ASSUME NEW r \in Requests, AssignCommit(r) \/ UnassignCommit(r) PROVE FALSE
    BY <2>5 DEF AssignCommit, UnassignCommit
  <2>6. ASSUME NEW r \in Requests, ReplyCommit(r) PROVE FALSE
    <3>1. CASE ReplyReopens(r)
      BY <2>6, <3>1 DEF ReplyCommit, Reopened, ReplyReopens, CanReopen, WithinWindow
    <3>2. CASE ~ReplyReopens(r)
      <4>1. StatusUpdate(r) # None /\ ticket[r] = t
        BY <2>6, <3>2 DEF ReplyCommit, WrittenStatus
      <4>2. started[r] <= resolvedAt[t] /\ now <= started[r] + MaxDuration
        BY <2>6, <4>1, StatusUpdates DEF ReplyCommit
      <4>3. QED BY <2>6, <4>2
    <3>3. QED BY <3>1, <3>2
  <2>7. QED BY <2>1, <2>2, <2>3, <2>4, <2>5, <2>6, TicketSteps
<1>2. QED BY Invariance, <1>1, PTL DEF Spec, ReopensWithinWindow
=============================================================================
