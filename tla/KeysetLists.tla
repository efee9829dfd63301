----------------------------- MODULE KeysetLists -----------------------------
(***************************************************************************)
(* The five keyset-paginated lists: a customer's own tickets, the agents'  *)
(* queue, the replies of a ticket, the users and the audit log.  A client  *)
(* reads one list page by page, handing back next_cursor, while            *)
(* transactions insert, change and delete rows of it.                      *)
(*                                                                         *)
(* created_at and updated_at are now(), the start of the writing           *)
(* transaction; the row becomes visible when that transaction commits.     *)
(* Every page is one SELECT, with a snapshot of its own.  Row ids are      *)
(* random uuids: they are drawn here in any order.  A timestamp survives   *)
(* isoformat and fromisoformat unchanged, so a cursor is a pair.           *)
(***************************************************************************)
EXTENDS Integers, FiniteSets

CONSTANTS
    Ids,            \* row ids that can ever be drawn
    RequestIds,     \* those of them the rows recorded by list requests get
    Writers,        \* transactions that may run at the same time
    Limits,         \* values of the limit parameter
    MaxLimit,       \* _MAX_LIST_LIMIT, _MAX_LIMIT, 100
    NoCursor,       \* no cursor
    MaxTime         \* bound: the clock stops here

ASSUME ListAssumption ==
    /\ Ids \subseteq Nat /\ RequestIds \subseteq Ids
    /\ Limits \subseteq Nat
    /\ MaxLimit \in Nat \ {0}
    /\ NoCursor \notin Nat \X Nat
    /\ MaxTime \in Nat \ {0}

VARIABLES
    list, filter,   \* the list the client reads and the filter it sends
    now,
    table,          \* ids of the committed rows
    stamp,          \* the timestamp the list is ordered by: updated_at in
                    \* the queue, occurred_at or created_at elsewhere
    matches,        \* the row meets the conditions no writer here changes:
                    \* the requester, the policy on visibility, the window
    closed, assigned,       \* columns of a ticket
    began,          \* start of a writing transaction, 0 when there is none
    requestBegan,   \* start of the transaction of the list request, or 0
    cursor,         \* next_cursor of the last page, or None
    scan,           \* "new", "open" (a next_cursor is held), "done", "failed"
    times,          \* how often a row was returned, counted up to 2
    initial,        \* history: rows of the list when the first page was read
    touched         \* history: rows whose place was changed since, or that
                    \* were out of the list at some time since

stampVars == <<stamp, matches>>
ticketVars == <<closed, assigned>>
scanVars == <<cursor, scan, times, initial>>
listVars == <<list, filter, now, table, stampVars, ticketVars, began, requestBegan,
              scanVars, touched>>

Lists == {"own", "queue", "thread", "users", "audit"}

\* The filters that matter here: "none" of the queue asks for unassigned
\* tickets, "status" of a customer's list for a status other than open.
Filters(l) ==
    CASE l = "queue" -> {"any", "none"}
      [] l = "own"   -> {"any", "status"}
      [] OTHER       -> {"any"}

-----------------------------------------------------------------------------
(* The WHERE clauses of the repositories.                                  *)

ListForRequester(i) == matches[i]

\* status != 'closed' and, for assignee_id = none, assignee_id IS NULL.
ListForAgentQueue(i) ==
    /\ matches[i]
    /\ ~closed[i]
    /\ filter = "none" => ~assigned[i]

\* The policy ticket_replies_read leaves a customer the public replies.
ListForTicket(i) == matches[i]

ListUsers(i) == matches[i]

ListAuditLogs(i) == matches[i]

InList(i) ==
    /\ i \in table
    /\ CASE list = "own"    -> ListForRequester(i)
         [] list = "queue"  -> ListForAgentQueue(i)
         [] list = "thread" -> ListForTicket(i)
         [] list = "users"  -> ListUsers(i)
         [] list = "audit"  -> ListAuditLogs(i)

EncodeSwappedMutant(i) == <<i, stamp[i]>>

\* _encode_cursor and, what it decodes to, the pair the query compares.
EncodeCursor(i) == <<stamp[i], i>>

\* Row d comes after row c: oldest first in the queue and in a thread,
\* newest first elsewhere, ties broken by the id.
Follows(c, d) ==
    IF list \in {"queue", "thread"}
    THEN c[1] < d[1] \/ (c[1] = d[1] /\ c[2] < d[2])
    ELSE c[1] > d[1] \/ (c[1] = d[1] /\ c[2] > d[2])

AfterCursorTimeMutant(i) ==
    IF list \in {"queue", "thread"} THEN cursor[1] < stamp[i] ELSE cursor[1] > stamp[i]

\* The condition a cursor adds to the query.
AfterCursor(i) == Follows(cursor, EncodeCursor(i))

\* What the SELECT would return without its LIMIT.
Candidates == {i \in Ids : InList(i) /\ (cursor # NoCursor => AfterCursor(i))}

\* rows[:limit] of the sorted result.
PageOf(S, n) ==
    {i \in S : Cardinality({j \in S : Follows(EncodeCursor(j), EncodeCursor(i))}) < n}

-----------------------------------------------------------------------------
(* One request for a page.                                                 *)

\* The transaction of a request starts with its first statement; only the
\* audit log's requests write, and only there does the start matter.
BeginRequest ==
    /\ list = "audit"
    /\ requestBegan = 0
    /\ scan \in {"new", "open"}
    /\ requestBegan' = now
    /\ UNCHANGED <<list, filter, now, table, stampVars, ticketVars, began, scanVars, touched>>

\* 422: a limit out of range or a cursor that does not decode.  The client's
\* scan is where it was.
Refuse ==
    /\ requestBegan' = 0
    /\ UNCHANGED <<list, filter, now, table, stampVars, ticketVars, began, scanVars, touched>>

\* The row next_cursor is made of: the last of the page.
LastOf(page, i) == \A j \in page : ~Follows(EncodeCursor(i), EncodeCursor(j))

\* The page itself: one row more than the limit is fetched, and its presence
\* is what makes a next_cursor.  With limit 0 the last row of an empty page
\* is asked for (IndexError, 500).
Page(n) ==
    LET page == PageOf(Candidates, n)
        more == Cardinality(Candidates) > n
    IN  /\ initial' = IF scan = "new" THEN {i \in Ids : InList(i)} ELSE initial
        /\ IF more /\ n = 0
           THEN /\ scan' = "failed"
                /\ UNCHANGED <<cursor, times>>
           ELSE /\ scan' = IF more THEN "open" ELSE "done"
                /\ cursor' = IF more
                             THEN EncodeCursor(CHOOSE i \in page : LastOf(page, i))
                             ELSE cursor
                /\ times' = [i \in Ids |->
                     IF i \in page /\ times[i] < 2 THEN times[i] + 1 ELSE times[i]]

ReadOnly == UNCHANGED <<list, filter, now, table, stampVars, ticketVars, began, touched>>

\* GET /tickets without tickets:read.  A status other than open yields an
\* empty page; "open" is no condition of the query.
ListOwnTickets(n) ==
    /\ list = "own" /\ scan \in {"new", "open"}
    /\ IF n \notin 1 .. MaxLimit THEN Refuse
       ELSE /\ requestBegan' = 0
            /\ ReadOnly
            /\ IF filter = "status"
               THEN scan' = "done" /\ UNCHANGED <<cursor, times, initial>>
               ELSE Page(n)

\* GET /tickets with tickets:read.
ListAgentQueue(n) ==
    /\ list = "queue" /\ scan \in {"new", "open"}
    /\ IF n \notin 1 .. MaxLimit THEN Refuse
       ELSE requestBegan' = 0 /\ ReadOnly /\ Page(n)

\* GET /tickets/{id}: FastAPI checks the limit.
GetTicketDetail(n) ==
    /\ list = "thread" /\ scan \in {"new", "open"}
    /\ IF n \notin 1 .. MaxLimit THEN Refuse
       ELSE requestBegan' = 0 /\ ReadOnly /\ Page(n)

\* GET /admin/users: only an upper bound is checked.
ListUsersPage(n) ==
    /\ list = "users" /\ scan \in {"new", "open"}
    /\ IF n > MaxLimit THEN Refuse
       ELSE requestBegan' = 0 /\ ReadOnly /\ Page(n)

\* GET /admin/audit-logs: the request records itself in the table it lists,
\* with the start of its own transaction; a failed one records nothing.
ListAuditLogsPage(n, j) ==
    /\ list = "audit" /\ requestBegan > 0
    /\ IF n > MaxLimit THEN Refuse
       ELSE /\ Page(n)
            /\ requestBegan' = 0
            /\ IF scan' = "failed" THEN UNCHANGED <<table, stamp>>
               ELSE /\ j \in RequestIds \ table
                    /\ table' = table \cup {j}
                    /\ stamp' = [stamp EXCEPT ![j] = requestBegan]
            /\ UNCHANGED <<list, filter, now, matches, ticketVars, began, touched>>

\* 422 for a cursor that does not decode, on every list.
RefuseCursor ==
    /\ requestBegan > 0
    /\ Refuse

-----------------------------------------------------------------------------
(* The writers.                                                            *)

\* Bound: nothing more happens once the scan has ended.
Scanning == scan \in {"new", "open"}

Begin(w) ==
    /\ began[w] = 0
    /\ Scanning
    /\ began' = [began EXCEPT ![w] = now]
    /\ UNCHANGED <<list, filter, now, table, stampVars, ticketVars, requestBegan, scanVars, touched>>

\* What every committing writer leaves alone.
Committed(w) ==
    /\ began[w] > 0
    /\ Scanning
    /\ began' = [began EXCEPT ![w] = 0]
    /\ UNCHANGED <<list, filter, now, requestBegan, scanVars>>

Touch(i) == touched' = IF scan = "new" THEN touched ELSE touched \cup {i}

\* A ticket, a reply, a user or an audit row is created.
Create(w, i, fits) ==
    /\ Committed(w)
    /\ i \in Ids \ (RequestIds \cup table)
    /\ list = "queue" => fits
    /\ table' = table \cup {i}
    /\ stamp' = [stamp EXCEPT ![i] = began[w]]
    /\ matches' = [matches EXCEPT ![i] = fits]
    /\ UNCHANGED <<ticketVars, touched>>

\* A reply, a resolution, a reopening, a closing: onupdate stamps updated_at
\* with now(), the start of the transaction, which may be earlier than the
\* stamp it replaces.  The list of own tickets shows none of this.
UpdateTicket(w, i, toClosed) ==
    /\ Committed(w)
    /\ list = "queue"
    /\ i \in table
    /\ ~closed[i]
    /\ stamp' = [stamp EXCEPT ![i] = began[w]]
    /\ closed' = [closed EXCEPT ![i] = toClosed]
    /\ Touch(i)
    /\ UNCHANGED <<table, matches, assigned>>

AssignStampsMutant(w, i, to) ==
    /\ Committed(w)
    /\ list = "queue"
    /\ i \in table
    /\ ~closed[i]
    /\ assigned' = [assigned EXCEPT ![i] = to]
    /\ stamp' = [stamp EXCEPT ![i] = began[w]]
    /\ IF filter = "none" /\ to THEN Touch(i) ELSE UNCHANGED touched
    /\ UNCHANGED <<table, matches, closed>>

\* assign_ticket, unassign_ticket: updated_at is set to itself (DR-3).
AssignTicket(w, i, to) ==
    /\ Committed(w)
    /\ list = "queue"
    /\ i \in table
    /\ ~closed[i]
    /\ assigned[i] # to
    /\ assigned' = [assigned EXCEPT ![i] = to]
    /\ IF filter = "none" /\ to THEN Touch(i) ELSE UNCHANGED touched
    /\ UNCHANGED <<table, stampVars, closed>>

\* A user's status or roles change: the row may enter or leave a filtered
\* list of users at its place.
ChangeUser(w, i, fits) ==
    /\ Committed(w)
    /\ list = "users"
    /\ i \in table
    /\ matches' = [matches EXCEPT ![i] = fits]
    /\ IF fits THEN UNCHANGED touched ELSE Touch(i)
    /\ UNCHANGED <<table, stamp, ticketVars>>

\* The purge of unverified accounts deletes users.
DeleteUser(w, i) ==
    /\ Committed(w)
    /\ list = "users"
    /\ i \in table
    /\ table' = table \ {i}
    /\ Touch(i)
    /\ UNCHANGED <<stampVars, ticketVars>>

Rollback(w) ==
    /\ Committed(w)
    /\ UNCHANGED <<table, stampVars, ticketVars, touched>>

Tick ==
    /\ now < MaxTime
    /\ Scanning
    /\ now' = now + 1
    /\ UNCHANGED <<list, filter, table, stampVars, ticketVars, began, requestBegan, scanVars, touched>>

-----------------------------------------------------------------------------
ListInit ==
    /\ list \in Lists /\ filter \in Filters(list)
    /\ now = 1
    /\ table = {}
    /\ stamp = [i \in Ids |-> 0]
    /\ matches = [i \in Ids |-> TRUE]
    /\ closed = [i \in Ids |-> FALSE] /\ assigned = [i \in Ids |-> FALSE]
    /\ began = [w \in Writers |-> 0]
    /\ requestBegan = 0
    /\ cursor = NoCursor /\ scan = "new"
    /\ times = [i \in Ids |-> 0]
    /\ initial = {} /\ touched = {}

Read ==
    \E n \in Limits :
        \/ ListOwnTickets(n)
        \/ ListAgentQueue(n)
        \/ GetTicketDetail(n)
        \/ ListUsersPage(n)
        \/ \E j \in RequestIds : ListAuditLogsPage(n, j)

Write(w) ==
    \/ \E i \in Ids, b \in BOOLEAN :
        \/ Create(w, i, b)
        \/ UpdateTicket(w, i, b)
        \/ AssignTicket(w, i, b)
        \/ ChangeUser(w, i, b)
    \/ \E i \in Ids : DeleteUser(w, i)
    \/ Rollback(w)

ListNext ==
    \/ BeginRequest \/ Read \/ RefuseCursor
    \/ \E w \in Writers : Begin(w) \/ Write(w)
    \/ Tick

ListSpec == ListInit /\ [][ListNext]_listVars

-----------------------------------------------------------------------------
(* Properties.                                                             *)

\* Every variable keeps its type; no row bears a time to come.
ListTypeOK ==
    /\ list \in Lists /\ filter \in Filters(list)
    /\ now \in 1 .. MaxTime
    /\ table \subseteq Ids /\ initial \subseteq Ids /\ touched \subseteq Ids
    /\ stamp \in [Ids -> 0 .. now]
    /\ matches \in [Ids -> BOOLEAN]
    /\ closed \in [Ids -> BOOLEAN] /\ assigned \in [Ids -> BOOLEAN]
    /\ began \in [Writers -> 0 .. now]
    /\ requestBegan \in 0 .. now
    /\ cursor \in (1 .. now) \X Ids \cup {NoCursor}
    /\ scan \in {"new", "open", "done", "failed"}
    /\ times \in [Ids -> 0 .. 2]

\* US-4.4-implementation-plan.md:231-240, of every list: whatever is written
\* between two pages, a row is not re-served on a later page unless its own
\* sort key was rewritten; in particular assigning a ticket, the audit rows
\* the scan itself adds and users who come and go repeat nothing.
NoRepeat ==
    \A i \in Ids \ touched : times[i] <= 1

\* A client that pages to the end has seen every row that was in the list
\* when it began and kept its place: nothing falls between two pages, ties
\* of created_at and rows committed late with an early stamp included.
NoSkip ==
    scan = "done" /\ filter # "status"
        => \A i \in initial \ touched : times[i] >= 1

\* The queue's order by updated_at: a ticket that stayed in the queue during
\* the whole scan is on one of its pages.  Refuted: a transaction that began
\* before the cursor's time moves the ticket behind it.
QueuedTicketsAreSeen ==
    scan = "done" /\ list = "queue"
        => \A i \in initial : InList(i) => times[i] >= 1

\* US-3.1-openapi.yaml:43 and 65 promise 422 for a limit below 1.  Refuted:
\* list_users and list_audit_logs check the upper bound only.
LimitsAreRefused == scan # "failed"

=============================================================================
