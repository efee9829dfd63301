----------------------------- MODULE AuditChain -----------------------------
(***************************************************************************)
(* The hash-chained table audit_log: the transactions that append to it,   *)
(* the BEFORE INSERT trigger that links a row to the one before it under   *)
(* an advisory lock, and the job that verifies the chain.                  *)
(*                                                                         *)
(* occurred_at defaults to now(), which PostgreSQL fixes at the start of   *)
(* the transaction; a row's id is a random uuid, so ids are drawn here in  *)
(* any order.  The trigger's SELECT runs after the advisory lock is        *)
(* granted, with a snapshot of its own: it sees the committed rows and     *)
(* those of its own transaction.  The advisory lock is released when the   *)
(* transaction ends.                                                       *)
(*                                                                         *)
(* A ticket operation and the auto-close job hold the locks of the ticket  *)
(* rows they updated when they come to insert their audit rows.            *)
(***************************************************************************)
EXTENDS Naturals, FiniteSets

CONSTANTS
    Writers,        \* transactions that may run at the same time
    Tickets,        \* tickets whose rows the writers lock
    Ids,            \* row ids that can ever be drawn
    None,           \* no lock holder
    MaxTime         \* bound: the clock stops here

ASSUME ChainAssumption ==
    /\ Ids \subseteq Nat
    /\ None \notin Writers
    /\ MaxTime \in Nat \ {0}

VARIABLES
    now,            \* the clock of the database
    rows,           \* ids of the committed rows
    occurredAt, event, previousHash, rowHash,   \* columns, by row id
    outcome,        \* the columns the hash leaves out, by row id
    pending,        \* rows a transaction has inserted and not committed
    began,          \* start of the transaction, 0 when there is none
    kind,           \* what the transaction does
    tickets,        \* tickets the transaction writes
    locked,         \* those of them whose row lock it holds
    chainLock,      \* the holder of pg_advisory_xact_lock, or None
    inOrder,        \* history: every row was inserted after all rows present
    removed,        \* history: rows deleted behind the application
    altered,        \* history: rows changed behind the application
    column,         \* history: the column that was changed, or "none"
    gap             \* history: a row was deleted that was not the last

rowVars == <<rows, occurredAt, event, outcome, previousHash, rowHash>>
txVars == <<pending, began, kind, tickets, locked, chainLock>>
tampering == <<removed, altered, column, gap>>
history == <<inOrder, tampering>>
vars == <<now, rowVars, txVars, history>>

Time == 1 .. MaxTime

\* What appends a row: a page of the log was viewed or refused, an operation
\* on one ticket, the auto-close job.
Kinds == {"audit_event", "ticket_event", "ticket_auto_closed"}

\* The columns a change of which verify_chain can see: those the hash is
\* taken of ("event" stands for the event, the actor, the target and the
\* payload) and the two that hold a hash.
HashedColumns == {"event", "occurred_at", "previous_hash", "row_hash"}

\* With "outcome" for outcome, ip, user_agent, actor_role, category and
\* request_id, which audit_log_row_hash leaves out.
Columns == HashedColumns \cup {"outcome"}

-----------------------------------------------------------------------------
(* The chain.                                                              *)

\* sha256 of the empty string.
GenesisSentinel == <<>>

\* audit_log_row_hash; sha256 is taken to be injective.
AuditLogRowHash(previous, at, ev) == <<previous, at, ev>>

\* ORDER BY occurred_at, id.
Before(i, j) ==
    \/ occurredAt[i] < occurredAt[j]
    \/ occurredAt[i] = occurredAt[j] /\ i < j

\* row_hash of the latest row of S, by ORDER BY occurred_at DESC, id DESC
\* LIMIT 1; the sentinel when there is no row.
HashOfLatest(S) ==
    IF S = {} THEN GenesisSentinel
    ELSE rowHash[CHOOSE i \in S : \A j \in S \ {i} : Before(j, i)]

\* expected_previous_hash when the loop of verify_chain comes to row i.
ExpectedPrevious(i) == HashOfLatest({j \in rows : Before(j, i)})

NoLinkCheckMutant(i) ==
    rowHash[i] # AuditLogRowHash(previousHash[i], occurredAt[i], event[i])

\* What verify_chain returns at row i, should it come that far.
Breaks(i) ==
    \/ previousHash[i] # ExpectedPrevious(i)
    \/ rowHash[i] # AuditLogRowHash(previousHash[i], occurredAt[i], event[i])

\* verify_chain: the first break, or nothing ("intact").
VerifyChain ==
    {i \in rows : Breaks(i) /\ \A j \in rows : Before(j, i) => ~Breaks(j)}

-----------------------------------------------------------------------------
(* The transactions that append.                                           *)

Idle(w) == began[w] = 0

\* Audit rows a transaction writes: the auto-close job one per ticket it
\* closed, every other transaction one.
Owed(w) == IF kind[w] = "ticket_auto_closed" THEN Cardinality(tickets[w]) ELSE 1

Drawn == rows \cup removed \cup UNION {pending[w] : w \in Writers}

\* Bound: no more transactions begin than there are row ids for.
RoomFor(n) ==
    LET outstanding == {o \in Writers \X (1 .. Cardinality(Ids)) :
                          ~Idle(o[1]) /\ o[2] <= Owed(o[1])}
    IN  Cardinality(rows \cup removed) + Cardinality(outstanding) + n
            <= Cardinality(Ids)

\* The conditions of BEGIN.  At most one auto-close job runs (cron).
CanBegin(w, k, T) ==
    /\ Idle(w)
    /\ RoomFor(IF T = {} THEN 1 ELSE Cardinality(T))
    /\ CASE k = "ticket_event"       -> Cardinality(T) = 1
         [] k = "ticket_auto_closed" -> /\ T # {}
                                        /\ \A u \in Writers :
                                             Idle(u) \/ kind[u] # k
         [] OTHER                    -> T = {}

BeginSkewedMutant(w, k, T) ==
    /\ CanBegin(w, k, T)
    /\ began' = [began EXCEPT ![w] = now + 1]
    /\ kind' = [kind EXCEPT ![w] = k]
    /\ tickets' = [tickets EXCEPT ![w] = T]
    /\ UNCHANGED <<now, rowVars, pending, locked, chainLock, history>>

\* BEGIN, which fixes now().
Begin(w, k, T) ==
    /\ CanBegin(w, k, T)
    /\ began' = [began EXCEPT ![w] = now]
    /\ kind' = [kind EXCEPT ![w] = k]
    /\ tickets' = [tickets EXCEPT ![w] = T]
    /\ UNCHANGED <<now, rowVars, pending, locked, chainLock, history>>

\* The UPDATE of a ticket takes the lock of its row and keeps it.
LockTicket(w, t) ==
    /\ ~Idle(w)
    /\ t \in tickets[w] \ UNION {locked[u] : u \in Writers}
    /\ locked' = [locked EXCEPT ![w] = @ \cup {t}]
    /\ UNCHANGED <<now, rowVars, pending, began, kind, tickets, chainLock, history>>

\* The columns the INSERT and its trigger fill in; S are the rows the
\* trigger's SELECT sees.
Link(w, i, S) ==
    LET previous == HashOfLatest(S) IN
    /\ occurredAt' = [occurredAt EXCEPT ![i] = began[w]]
    /\ event' = [event EXCEPT ![i] = kind[w]]
    /\ outcome' = [outcome EXCEPT ![i] = "recorded"]
    /\ previousHash' = [previousHash EXCEPT ![i] = previous]
    /\ rowHash' = [rowHash EXCEPT ![i] =
                     AuditLogRowHash(previous, began[w], kind[w])]
    /\ inOrder' = (inOrder /\ \A j \in S :
                     \/ occurredAt[j] < began[w]
                     \/ occurredAt[j] = began[w] /\ j < i)
    /\ pending' = [pending EXCEPT ![w] = @ \cup {i}]

CanInsert(w, i) ==
    /\ ~Idle(w)
    /\ locked[w] = tickets[w]
    /\ Cardinality(pending[w]) < Owed(w)
    /\ i \in Ids \ Drawn

NoLockMutant(w, i) ==
    /\ CanInsert(w, i)
    /\ Link(w, i, rows \cup pending[w])
    /\ UNCHANGED <<now, rows, began, kind, tickets, locked, chainLock, tampering>>

RowLockAfterMutant(w, i) ==
    /\ ~Idle(w)
    /\ Cardinality(pending[w]) < Owed(w)
    /\ i \in Ids \ Drawn
    /\ chainLock \in {None, w}
    /\ chainLock' = w
    /\ Link(w, i, rows \cup pending[w])
    /\ UNCHANGED <<now, rows, began, kind, tickets, locked, tampering>>

\* record_self_audit, record_access_denied, record_event: INSERT and flush.
Insert(w, i) ==
    /\ CanInsert(w, i)
    /\ chainLock \in {None, w}
    /\ chainLock' = w
    /\ Link(w, i, rows \cup pending[w])
    /\ UNCHANGED <<now, rows, began, kind, tickets, locked, tampering>>

\* COMMIT or ROLLBACK releases the row locks and the advisory lock.
End(w) ==
    /\ began' = [began EXCEPT ![w] = 0]
    /\ pending' = [pending EXCEPT ![w] = {}]
    /\ kind' = [kind EXCEPT ![w] = "audit_event"]
    /\ tickets' = [tickets EXCEPT ![w] = {}]
    /\ locked' = [locked EXCEPT ![w] = {}]
    /\ chainLock' = IF chainLock = w THEN None ELSE chainLock
    /\ UNCHANGED <<now, tampering>>

Commit(w) ==
    /\ ~Idle(w)
    /\ locked[w] = tickets[w]
    /\ Cardinality(pending[w]) = Owed(w)
    /\ rows' = rows \cup pending[w]
    /\ End(w)
    /\ UNCHANGED <<occurredAt, event, outcome, previousHash, rowHash, inOrder>>

\* A statement failed, a condition of the operation did not hold, or the
\* connection was lost; the rows it inserted are gone.
Rollback(w) ==
    /\ ~Idle(w)
    /\ End(w)
    /\ occurredAt' = [i \in Ids |-> IF i \in pending[w] THEN 0 ELSE occurredAt[i]]
    /\ event' = [i \in Ids |-> IF i \in pending[w] THEN "none" ELSE event[i]]
    /\ outcome' = [i \in Ids |-> IF i \in pending[w] THEN "none" ELSE outcome[i]]
    /\ previousHash' = [i \in Ids |->
         IF i \in pending[w] THEN GenesisSentinel ELSE previousHash[i]]
    /\ rowHash' = [i \in Ids |->
         IF i \in pending[w] THEN GenesisSentinel ELSE rowHash[i]]
    /\ UNCHANGED <<rows, inOrder>>

-----------------------------------------------------------------------------
(* The clock, and the tampering that verify_audit_chain looks for: one     *)
(* UPDATE of one column of a row or one DELETE, by someone with access to  *)
(* the database while no transaction of the application is under way.      *)

Tick ==
    /\ now < MaxTime
    /\ now' = now + 1
    /\ UNCHANGED <<rowVars, txVars, history>>

Tamper(i) ==
    /\ i \in rows
    /\ altered \cup removed = {}
    /\ \A w \in Writers : Idle(w)

\* What a column of hashes is overwritten with: the hash of no row.
ForgedHash == <<"forged">>

\* UPDATE audit_log SET c = ... WHERE id = i, to another value.
Alter(i, c) ==
    /\ Tamper(i)
    /\ altered' = {i}
    /\ column' = c
    /\ CASE c = "event" ->
              /\ event[i] # "forged"
              /\ event' = [event EXCEPT ![i] = "forged"]
              /\ UNCHANGED <<occurredAt, outcome, previousHash, rowHash>>
         [] c = "occurred_at" ->
              /\ \E t \in Time \ {occurredAt[i]} :
                   occurredAt' = [occurredAt EXCEPT ![i] = t]
              /\ UNCHANGED <<event, outcome, previousHash, rowHash>>
         [] c = "previous_hash" ->
              /\ previousHash[i] # ForgedHash
              /\ previousHash' = [previousHash EXCEPT ![i] = ForgedHash]
              /\ UNCHANGED <<occurredAt, event, outcome, rowHash>>
         [] c = "row_hash" ->
              /\ rowHash[i] # ForgedHash
              /\ rowHash' = [rowHash EXCEPT ![i] = ForgedHash]
              /\ UNCHANGED <<occurredAt, event, outcome, previousHash>>
         [] c = "outcome" ->
              /\ outcome' = [outcome EXCEPT ![i] = "forged"]
              /\ UNCHANGED <<occurredAt, event, previousHash, rowHash>>
    /\ UNCHANGED <<now, rows, txVars, inOrder, removed, gap>>

Delete(i) ==
    /\ Tamper(i)
    /\ rows' = rows \ {i}
    /\ removed' = {i}
    /\ gap' = \E j \in rows : Before(i, j)
    /\ UNCHANGED <<now, occurredAt, event, outcome, previousHash, rowHash, txVars, inOrder,
                   altered, column>>

-----------------------------------------------------------------------------
Init ==
    /\ now = 1
    /\ rows = {}
    /\ occurredAt = [i \in Ids |-> 0]
    /\ event = [i \in Ids |-> "none"]
    /\ outcome = [i \in Ids |-> "none"]
    /\ previousHash = [i \in Ids |-> GenesisSentinel]
    /\ rowHash = [i \in Ids |-> GenesisSentinel]
    /\ pending = [w \in Writers |-> {}]
    /\ began = [w \in Writers |-> 0]
    /\ kind = [w \in Writers |-> "audit_event"]
    /\ tickets = [w \in Writers |-> {}]
    /\ locked = [w \in Writers |-> {}]
    /\ chainLock = None
    /\ inOrder = TRUE
    /\ removed = {}
    /\ altered = {}
    /\ column = "none"
    /\ gap = FALSE

Step(w) ==
    \/ \E t \in Tickets : LockTicket(w, t)
    \/ \E i \in Ids : Insert(w, i)
    \/ Commit(w)

Next ==
    \/ \E w \in Writers, k \in Kinds, T \in SUBSET Tickets : Begin(w, k, T)
    \/ \E w \in Writers : Step(w) \/ Rollback(w)
    \/ \E i \in Ids, c \in Columns : Alter(i, c)
    \/ \E i \in Ids : Delete(i)
    \/ Tick

Spec == Init /\ [][Next]_vars

\* The event loop and PostgreSQL keep running a transaction that is not
\* waiting for a lock, and grant a lock to a transaction that waits for it
\* when its turn comes.  Nothing is assumed about rollbacks.
Fairness == \A w \in Writers : SF_vars(Step(w))
FairSpec == Spec /\ Fairness

-----------------------------------------------------------------------------
(* Properties.                                                             *)

\* Every variable keeps its type (the hash columns hold nested tuples).
TypeOK ==
    /\ now \in Time
    /\ rows \subseteq Ids
    /\ occurredAt \in [Ids -> 0 .. MaxTime]
    /\ event \in [Ids -> Kinds \cup {"none", "forged"}]
    /\ outcome \in [Ids -> {"none", "recorded", "forged"}]
    /\ pending \in [Writers -> SUBSET Ids]
    /\ began \in [Writers -> 0 .. now]
    /\ kind \in [Writers -> Kinds]
    /\ tickets \in [Writers -> SUBSET Tickets]
    /\ locked \in [Writers -> SUBSET Tickets]
    /\ chainLock \in Writers \cup {None}
    /\ inOrder \in BOOLEAN /\ gap \in BOOLEAN
    /\ removed \subseteq Ids /\ altered \subseteq Ids
    /\ column \in Columns \cup {"none"}

\* The claim the advisory lock of audit_log_hash_chain is there for:
\* concurrent inserts, rollbacks and several rows in one transaction never
\* fork or break the chain, as long as each row sorts after the rows it was
\* appended to.
OrderedChainIntact ==
    inOrder /\ altered = {} /\ removed = {} => VerifyChain = {}

\* What AU-AC7 comes to in this code.  A changed column that the hash covers,
\* or that holds a hash, is always reported.  In a chain written in order
\* verify_chain stops exactly at the changed row, unless its place in the
\* order was changed, and at the row that followed one deleted from the
\* middle; and it stops at no innocent row when the changed column is one
\* the hash leaves out.  A deleted tail is what its docstring gives up.
TamperingLocated ==
    /\ column \in HashedColumns => VerifyChain # {}
    /\ inOrder =>
         /\ column \in HashedColumns \ {"occurred_at"} => VerifyChain = altered
         /\ column = "outcome" => VerifyChain = {}
         /\ gap => VerifyChain =
              {i \in rows : \E d \in removed :
                 Before(d, i) /\ \A j \in rows : Before(d, j) => ~Before(j, i)}

\* FR-7 and AU-AC7 of US-3.3, and scripts/verify_audit_chain.py:10-11: a row
\* whose fields were altered in place after insertion is reported.  The code
\* refutes this: audit_log_row_hash leaves out six of the columns, so that a
\* changed outcome, ip, user_agent, actor_role, category or request_id goes
\* unnoticed (the conjunct on "outcome" of TamperingLocated).
AlterationsAreReported == altered # {} => VerifyChain # {}

\* A transaction that holds ticket rows waits for the advisory lock, and
\* nobody who holds the advisory lock waits for a ticket row: no writer
\* waits for ever.
WritersFinish == \A w \in Writers : ~Idle(w) ~> Idle(w)

\* scripts/verify_audit_chain.py:36-41 says that each row's predecessor by
\* (occurred_at, id) is the row the trigger seeded it from, so that without
\* tampering the chain is intact.
UntamperedChainIntact == altered = {} /\ removed = {} => VerifyChain = {}

=============================================================================
