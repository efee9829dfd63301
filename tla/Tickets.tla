------------------------------ MODULE Tickets ------------------------------
(***************************************************************************)
(* The life of support tickets: the transition endpoints (resolve, close,  *)
(* reopen), the agent queue's assign and unassign, replies with their      *)
(* status side effects, and the daily auto-close job, as concurrent        *)
(* requests against one PostgreSQL database (READ COMMITTED).              *)
(*                                                                         *)
(* Every handler reads the ticket first (get_by_id) and writes it later in *)
(* the same transaction.  An UPDATE of a ticket holds its row lock until   *)
(* the commit, and one that waited for the lock looks at the committed     *)
(* row again, so UPDATE, audit entry and commit are one step here.  The    *)
(* now() of an UPDATE is the start of its transaction.                     *)
(*                                                                         *)
(* A request that is refused without writing (404, 403, 409, 422, 429)     *)
(* ends; what it answers is left out.  Bodies, notes, notifications and    *)
(* the ids of authors are left out as well.                                *)
(***************************************************************************)
EXTENDS Naturals

CONSTANTS
    TicketIds,      \* tickets that can ever be opened
    Agents,         \* accounts that may be assignees
    Requests,       \* HTTP requests served at the same time
    None,           \* SQL NULL
    Window,         \* _RESOLUTION_WINDOW_DAYS, 7 days
    MaxDuration,    \* bound: no request runs longer than this
    MaxTime         \* bound: the clock stops here

\* A request takes seconds, the window is seven days.
ASSUME WindowAssumption ==
    /\ Window \in Nat /\ MaxDuration \in Nat /\ MaxTime \in Nat \ {0}
    /\ MaxDuration <= Window

VARIABLES
    now,                \* the clock PostgreSQL and the application share
    \* The committed ticket rows; a time is 0 for NULL.
    status, assignee, resolvedAt, closedAt, firstResponseAt,
    answered,           \* tickets with a committed public agent reply
    writers,            \* active accounts that hold tickets:write
    entry,              \* the audit event the last step appended, or None
    \* The requests, with what they remember between their steps.
    pc, ticket, started,
    seen,               \* ticket.status as read
    seenAssignee,       \* ticket.assignee_id as read
    unanswered,         \* requests that read first_response_at IS NULL
    target              \* the assignee_id asked for

ticketVars == <<status, assignee, resolvedAt, closedAt, firstResponseAt, answered>>
reqVars == <<pc, ticket, started, seen, seenAssignee, unanswered, target>>
vars == <<now, ticketVars, writers, entry, reqVars>>

Time == 0 .. MaxTime
Statuses == {"absent", "open", "waiting_on_support", "waiting_on_customer",
             "resolved", "closed"}
Transitions == {"resolve", "close", "reopen"}
Replies == {"agentReply", "internalNote", "customerReply"}
PCs == {"idle", "assignCheck", "assign", "unassign"} \cup Transitions \cup Replies
Entries == {"ticket_resolved", "ticket_closed", "ticket_reopened",
            "ticket_assigned", "ticket_unassigned", "ticket_auto_closed", None}

ASSUME NoneAssumption == None \notin Agents \cup TicketIds \cup Statuses

-----------------------------------------------------------------------------
Eligible(event) ==
    CASE event = "resolve" -> {"open", "waiting_on_support", "waiting_on_customer"}
      [] event = "close"   -> {"open", "waiting_on_support", "waiting_on_customer", "resolved"}
      [] event = "reopen"  -> {"resolved"}

\* The inclusive seven-day window, seen from a transaction begun at `at`.
WithinWindow(t, at) == resolvedAt[t] + Window >= at

\* The request has read ticket t and goes on to step p, remembering what of
\* the row its later steps look at.
Read(r, t, p, a) ==
    /\ pc[r] = "idle"
    /\ pc' = [pc EXCEPT ![r] = p]
    /\ ticket' = [ticket EXCEPT ![r] = t]
    /\ started' = [started EXCEPT ![r] = now]
    /\ seen' = [seen EXCEPT ![r] = IF p \in Replies THEN status[t] ELSE @]
    /\ seenAssignee' = [seenAssignee EXCEPT ![r] = IF p = "assignCheck" THEN assignee[t] ELSE @]
    /\ unanswered' = IF p = "agentReply" /\ firstResponseAt[t] = 0
                     THEN unanswered \cup {r} ELSE unanswered \ {r}
    /\ target' = [target EXCEPT ![r] = a]
    /\ entry' = None
    /\ UNCHANGED <<now, ticketVars, writers>>

Finish(r) ==
    /\ pc' = [pc EXCEPT ![r] = "idle"]
    /\ ticket' = [ticket EXCEPT ![r] = None]
    /\ started' = [started EXCEPT ![r] = 0]
    /\ seen' = [seen EXCEPT ![r] = "absent"]
    /\ seenAssignee' = [seenAssignee EXCEPT ![r] = None]
    /\ unanswered' = unanswered \ {r}
    /\ target' = [target EXCEPT ![r] = None]

\* The request ends without a write: refused, or dead and rolled back.
End(r) == Finish(r) /\ entry' = None /\ UNCHANGED <<now, ticketVars, writers>>

Init ==
    /\ now = 1
    /\ status = [t \in TicketIds |-> "absent"]
    /\ assignee = [t \in TicketIds |-> None]
    /\ resolvedAt = [t \in TicketIds |-> 0]
    /\ closedAt = [t \in TicketIds |-> 0]
    /\ firstResponseAt = [t \in TicketIds |-> 0]
    /\ answered = {} /\ writers = Agents /\ entry = None
    /\ pc = [r \in Requests |-> "idle"]
    /\ ticket = [r \in Requests |-> None]
    /\ started = [r \in Requests |-> 0]
    /\ seen = [r \in Requests |-> "absent"]
    /\ seenAssignee = [r \in Requests |-> None]
    /\ unanswered = {}
    /\ target = [r \in Requests |-> None]

-----------------------------------------------------------------------------
(* Transition endpoints.                                                   *)

\* create_ticket, as far as the row is concerned.
Create(t) ==
    /\ status[t] = "absent"
    /\ status' = [status EXCEPT ![t] = "open"]
    /\ entry' = None
    /\ UNCHANGED <<now, assignee, resolvedAt, closedAt, firstResponseAt,
                   answered, writers, reqVars>>

TransitionStart(r, t, event) ==
    /\ status[t] \in Eligible(event)
    /\ Read(r, t, event, None)

ResolveCommit(r) ==
    LET t == ticket[r] IN
    /\ pc[r] = "resolve"
    /\ status[t] \in Eligible("resolve")
    /\ status' = [status EXCEPT ![t] = "resolved"]
    /\ resolvedAt' = [resolvedAt EXCEPT ![t] = now]
    /\ entry' = "ticket_resolved"
    /\ Finish(r)
    /\ UNCHANGED <<now, assignee, closedAt, firstResponseAt, answered, writers>>

CloseCommitUnstamped(r) ==
    LET t == ticket[r] IN
    /\ pc[r] = "close"
    /\ status[t] \in Eligible("close")
    /\ status' = [status EXCEPT ![t] = "closed"]
    /\ entry' = "ticket_closed"
    /\ Finish(r)
    /\ UNCHANGED <<now, assignee, resolvedAt, closedAt, firstResponseAt, answered, writers>>

CloseCommit(r) ==
    LET t == ticket[r] IN
    /\ pc[r] = "close"
    /\ status[t] \in Eligible("close")
    /\ status' = [status EXCEPT ![t] = "closed"]
    /\ closedAt' = [closedAt EXCEPT ![t] = now]
    /\ entry' = "ticket_closed"
    /\ Finish(r)
    /\ UNCHANGED <<now, assignee, resolvedAt, firstResponseAt, answered, writers>>

CanReopenAnyTime(t, at) == status[t] \in Eligible("reopen")

CanReopen(t, at) == status[t] \in Eligible("reopen") /\ WithinWindow(t, at)

Reopened(t) ==
    /\ status' = [status EXCEPT ![t] = "waiting_on_support"]
    /\ resolvedAt' = [resolvedAt EXCEPT ![t] = 0]
    /\ entry' = "ticket_reopened"

ReopenCommit(r) ==
    /\ pc[r] = "reopen"
    /\ CanReopen(ticket[r], started[r])
    /\ Reopened(ticket[r])
    /\ Finish(r)
    /\ UNCHANGED <<now, assignee, closedAt, firstResponseAt, answered, writers>>

\* The conditional UPDATE matched no row: 409.
TransitionLost(r) ==
    /\ \/ pc[r] \in {"resolve", "close"} /\ status[ticket[r]] \notin Eligible(pc[r])
       \/ pc[r] = "reopen" /\ ~CanReopen(ticket[r], started[r])
    /\ End(r)

-----------------------------------------------------------------------------
(* The agent queue.                                                        *)

AssignStart(r, t, a) ==
    /\ status[t] \notin {"absent", "closed"}
    /\ Read(r, t, "assignCheck", a)

\* The scopes and the status of the target account, read after the ticket.
AssignCheck(r) ==
    /\ pc[r] = "assignCheck"
    /\ target[r] \in writers
    /\ pc' = [pc EXCEPT ![r] = "assign"]
    /\ entry' = None
    /\ UNCHANGED <<now, ticketVars, writers, ticket, started, seen, seenAssignee,
                   unanswered, target>>

\* assign_ticket's compare-and-set on assignee_id.
AssignCommit(r) ==
    LET t == ticket[r] IN
    /\ pc[r] = "assign"
    /\ status[t] # "closed" /\ assignee[t] = seenAssignee[r]
    /\ assignee' = [assignee EXCEPT ![t] = target[r]]
    /\ entry' = "ticket_assigned"
    /\ Finish(r)
    /\ UNCHANGED <<now, status, resolvedAt, closedAt, firstResponseAt, answered, writers>>

UnassignStart(r, t) ==
    /\ status[t] \notin {"absent", "closed"}
    /\ Read(r, t, "unassign", None)

UnassignCommit(r) ==
    LET t == ticket[r] IN
    /\ pc[r] = "unassign"
    /\ status[t] # "closed"
    /\ assignee' = [assignee EXCEPT ![t] = None]
    /\ entry' = "ticket_unassigned"
    /\ Finish(r)
    /\ UNCHANGED <<now, status, resolvedAt, closedAt, firstResponseAt, answered, writers>>

AssignmentRefused(r) ==
    LET t == ticket[r] IN
    /\ \/ pc[r] = "assignCheck" /\ target[r] \notin writers
       \/ pc[r] = "assign" /\ (status[t] = "closed" \/ assignee[t] # seenAssignee[r])
       \/ pc[r] = "unassign" /\ status[t] = "closed"
    /\ End(r)

\* The account of an agent is deactivated or loses its role, elsewhere.
LoseWriter(a) ==
    /\ a \in writers
    /\ writers' = writers \ {a}
    /\ entry' = None
    /\ UNCHANGED <<now, ticketVars, reqVars>>

-----------------------------------------------------------------------------
(* create_reply.                                                           *)

ReplyStart(r, t, kind) ==
    /\ status[t] \notin {"absent", "closed"}
    /\ Read(r, t, kind, None)

\* The status that update() writes without looking at the row again.
StatusUpdate(r) ==
    CASE pc[r] = "agentReply" /\ seen[r] # "resolved" -> "waiting_on_customer"
      [] pc[r] = "customerReply" /\ seen[r] = "waiting_on_customer" -> "waiting_on_support"
      [] OTHER -> None

\* None leaves the column as it is.
WrittenStatus(r) == IF StatusUpdate(r) = None THEN status[ticket[r]] ELSE StatusUpdate(r)

\* The row would have a closed_at and a status other than closed, which
\* ck_tickets_closed_requires_closed_fields does not allow.
ViolatesCheckNever(r) == FALSE

ViolatesCheck(r) == StatusUpdate(r) # None /\ closedAt[ticket[r]] # 0

StampedWithStatus(r) == pc[r] = "agentReply" /\ r \in unanswered /\ StatusUpdate(r) # None

Stamps(r) == pc[r] = "agentReply" /\ r \in unanswered

\* The customer's reply to a ticket it read as resolved reopens it, when
\* the ticket is still resolved and within its window.
ReplyReopens(r) ==
    /\ pc[r] = "customerReply" /\ seen[r] = "resolved"
    /\ CanReopen(ticket[r], started[r])

ReplyCommit(r) ==
    LET t == ticket[r] IN
    /\ pc[r] \in Replies
    /\ ~ViolatesCheck(r)
    /\ \/ ReplyReopens(r) /\ Reopened(t)
       \/ /\ ~ReplyReopens(r)
          /\ status' = [status EXCEPT ![t] = WrittenStatus(r)]
          /\ entry' = None
          /\ UNCHANGED resolvedAt
    /\ firstResponseAt' = IF Stamps(r) THEN [firstResponseAt EXCEPT ![t] = now]
                          ELSE firstResponseAt
    /\ answered' = IF pc[r] = "agentReply" THEN answered \cup {t} ELSE answered
    /\ Finish(r)
    /\ UNCHANGED <<now, assignee, closedAt, writers>>

\* IntegrityError: the reply is rolled back and the caller gets a 500.
ReplyFails(r) == pc[r] \in Replies /\ ViolatesCheck(r) /\ End(r)

-----------------------------------------------------------------------------
(* The auto-close job, lost requests, time.                                *)

NeverOverdue(t) == status[t] = "resolved" /\ resolvedAt[t] > now

Overdue(t) == status[t] = "resolved" /\ ~WithinWindow(t, now)

AutoClose ==
    /\ \E t \in TicketIds : Overdue(t)
    /\ status' = [t \in TicketIds |-> IF Overdue(t) THEN "closed" ELSE status[t]]
    /\ closedAt' = [t \in TicketIds |-> IF Overdue(t) THEN now ELSE closedAt[t]]
    /\ entry' = "ticket_auto_closed"
    /\ UNCHANGED <<now, assignee, resolvedAt, firstResponseAt, answered, writers, reqVars>>

Crash(r) == pc[r] # "idle" /\ End(r)

Tick ==
    /\ now < MaxTime
    /\ \A r \in Requests : pc[r] # "idle" => now < started[r] + MaxDuration
    /\ now' = now + 1
    /\ entry' = None
    /\ UNCHANGED <<ticketVars, writers, reqVars>>

Arrive(r) ==
    \E t \in TicketIds :
        \/ \E event \in Transitions : TransitionStart(r, t, event)
        \/ \E a \in Agents : AssignStart(r, t, a)
        \/ UnassignStart(r, t)
        \/ \E kind \in Replies : ReplyStart(r, t, kind)

Step(r) ==
    \/ ResolveCommit(r) \/ CloseCommit(r) \/ ReopenCommit(r) \/ TransitionLost(r)
    \/ AssignCheck(r) \/ AssignCommit(r) \/ UnassignCommit(r) \/ AssignmentRefused(r)
    \/ ReplyCommit(r) \/ ReplyFails(r)

Next ==
    \/ \E t \in TicketIds : Create(t)
    \/ \E r \in Requests : Arrive(r) \/ Step(r) \/ Crash(r)
    \/ \E a \in Agents : LoseWriter(a)
    \/ AutoClose
    \/ Tick

Spec == Init /\ [][Next]_vars

\* The job is a daily cron line, time passes, and a request that has begun
\* is answered.
FairSpec ==
    /\ Spec
    /\ WF_vars(AutoClose) /\ WF_vars(Tick)
    /\ \A r \in Requests : WF_vars(Step(r))

-----------------------------------------------------------------------------
\* Every variable has its type.
TypeOK ==
    /\ now \in Time
    /\ status \in [TicketIds -> Statuses]
    /\ assignee \in [TicketIds -> Agents \cup {None}]
    /\ resolvedAt \in [TicketIds -> Time]
    /\ closedAt \in [TicketIds -> Time]
    /\ firstResponseAt \in [TicketIds -> Time]
    /\ answered \subseteq TicketIds /\ writers \subseteq Agents /\ entry \in Entries
    /\ pc \in [Requests -> PCs]
    /\ ticket \in [Requests -> TicketIds \cup {None}]
    /\ started \in [Requests -> Time]
    /\ seen \in [Requests -> Statuses]
    /\ seenAssignee \in [Requests -> Agents \cup {None}]
    /\ unanswered \subseteq Requests
    /\ target \in [Requests -> Agents \cup {None}]

\* The two CHECK constraints of the tickets table agree with what the
\* transitions write, whichever of them race: none but a reply can trip
\* over one.
ConstraintsHold ==
    \A t \in TicketIds :
        /\ status[t] = "closed" <=> closedAt[t] # 0
        /\ status[t] = "resolved" => resolvedAt[t] # 0

\* Closed is terminal, and a closed ticket keeps its assignee, whatever a
\* request that read the ticket before it was closed writes afterwards.
ClosedIsTerminal ==
    [][\A t \in TicketIds :
          status[t] = "closed" =>
             /\ status'[t] = "closed"
             /\ UNCHANGED <<closedAt[t], resolvedAt[t], assignee[t]>>]_vars

\* A resolved ticket comes back to life only within its window, give or take
\* the length of one request, on every path: /reopen, a customer's reply,
\* or a reply that never noticed the resolution.
ReopensWithinWindow ==
    [][\A t \in TicketIds :
          status[t] = "resolved" /\ status'[t] \notin {"resolved", "closed"}
          => resolvedAt[t] + Window + MaxDuration >= now]_vars

\* first_response_at is stamped by, and only by, a public agent reply that
\* committed.
AnsweredIsStamped ==
    \A t \in TicketIds : t \in answered <=> firstResponseAt[t] # 0

\* A ticket does not stay resolved: it is reopened, or the job closes it.
ResolvedTicketsLeave ==
    \A t \in TicketIds :
        status[t] = "resolved" /\ resolvedAt[t] + Window < MaxTime
        ~> status[t] # "resolved"

\* "`closed` is terminal, so this stays a true biconditional without ever
\* conflicting with a later update": no reply is about to write a status
\* that the CHECK constraint refuses.
NoCheckConflict == \A r \in Requests : pc[r] \in Replies => ~ViolatesCheck(r)

\* "every reply that reopens a ticket must be audited, no code path may skip
\* it".
ReopensAreAudited ==
    [][\A t \in TicketIds :
          status[t] = "resolved" /\ status'[t] \notin {"resolved", "closed"}
          => entry' = "ticket_reopened"]_vars

\* first_response_at is "stamped once, on the first public agent reply".
StampedOnce ==
    [][\A t \in TicketIds :
          firstResponseAt[t] # 0 => firstResponseAt'[t] = firstResponseAt[t]]_vars
=============================================================================
