---------------------------- MODULE Attachments ----------------------------
(***************************************************************************)
(* Attachments: rows uploaded elsewhere, bound by POST /support/tickets    *)
(* (column ticket_id) and POST /support/tickets/{id}/replies (column       *)
(* ticket_reply_id), and deleted by the daily purge of unbound rows.       *)
(*                                                                         *)
(* Requests is a set of such POSTs, each served once; a binding names the  *)
(* request whose ticket or reply it is to.  The attachments are one        *)
(* uploader's; an id of somebody else's is refused like a missing one.     *)
(* A conditional UPDATE locks its row until the request's transaction      *)
(* ends, and decides on the newest committed version of the row.  The ids  *)
(* of a request are bound in any order.                                    *)
(***************************************************************************)
CONSTANTS
    Attachments,
    Tickets,
    Requests,
    None

ASSUME NoneAssumption == None \notin Requests \cup Tickets

VARIABLES
    rows,           \* attachments that exist
    boundTo,        \* per column and attachment, the request bound to, or None
    old,            \* attachments past the 24 hour window
    pc,             \* per request: new, binding, done or failed
    kind,           \* "ticket" or "reply": the column the request binds
    ticket,         \* the ticket the request creates or replies to
    wanted,         \* attachment_ids of the request
    mine,           \* rows the request has updated and not yet committed
    candidates      \* ids found by the running purge, or None

reqVars == <<pc, kind, ticket, wanted, mine>>
vars == <<rows, boundTo, old, reqVars, candidates>>

Columns == {"ticket", "reply"}

-----------------------------------------------------------------------------
\* No other open transaction has updated the row.
FreeFor(r, a) == \A q \in Requests \ {r} : a \notin mine[q]

Bindable(k, a) == a \in rows /\ boundTo[k][a] = None

Fail(r) ==
    /\ pc' = [pc EXCEPT ![r] = "failed"]
    /\ mine' = [mine EXCEPT ![r] = {}]
    /\ UNCHANGED <<rows, boundTo, old, kind, ticket, wanted, candidates>>

\* The ids are validated, then the ticket or the reply is inserted.
Start(r, k, t, ids) ==
    /\ pc[r] = "new"
    /\ IF \A a \in ids : Bindable(k, a)
         THEN pc' = [pc EXCEPT ![r] = "binding"]
         ELSE pc' = [pc EXCEPT ![r] = "failed"]
    /\ kind' = [kind EXCEPT ![r] = k]
    /\ ticket' = [ticket EXCEPT ![r] = t]
    /\ wanted' = [wanted EXCEPT ![r] = ids]
    /\ UNCHANGED <<rows, boundTo, old, mine, candidates>>

\* create_ticket makes a ticket of its own.
CreateTicket(r, t, ids) ==
    /\ \A q \in Requests : ticket[q] # t
    /\ Start(r, "ticket", t, ids)

\* create_reply answers a ticket that is there.
CreateReply(r, t, ids) ==
    /\ \E q \in Requests : pc[q] = "done" /\ kind[q] = "ticket" /\ ticket[q] = t
    /\ Start(r, "reply", t, ids)

\* Mutant: the UPDATE is not conditional on the column being null.
BindBlind(r, a) ==
    /\ pc[r] = "binding"
    /\ a \in wanted[r] \ mine[r]
    /\ FreeFor(r, a)
    /\ a \in rows
    /\ mine' = [mine EXCEPT ![r] = @ \cup {a}]
    /\ UNCHANGED <<rows, boundTo, old, pc, kind, ticket, wanted, candidates>>

\* bind_to_ticket, bind_to_reply: the row is updated ...
Bind(r, a) ==
    /\ pc[r] = "binding"
    /\ a \in wanted[r] \ mine[r]
    /\ FreeFor(r, a)
    /\ Bindable(kind[r], a)
    /\ mine' = [mine EXCEPT ![r] = @ \cup {a}]
    /\ UNCHANGED <<rows, boundTo, old, pc, kind, ticket, wanted, candidates>>

\* ... or the race is lost, and the whole request is rolled back.
BindLost(r, a) ==
    /\ pc[r] = "binding"
    /\ a \in wanted[r] \ mine[r]
    /\ FreeFor(r, a)
    /\ ~Bindable(kind[r], a)
    /\ Fail(r)

\* Mutant: an id whose bind came back empty is skipped.
CommitSkipping(r) ==
    /\ pc[r] = "binding"
    /\ \A a \in wanted[r] \ mine[r] : ~Bindable(kind[r], a)
    /\ pc' = [pc EXCEPT ![r] = "done"]
    /\ boundTo' = [boundTo EXCEPT ![kind[r]] =
                     [a \in Attachments |-> IF a \in mine[r] THEN r ELSE @[a]]]
    /\ mine' = [mine EXCEPT ![r] = {}]
    /\ UNCHANGED <<rows, old, kind, ticket, wanted, candidates>>

Commit(r) ==
    /\ pc[r] = "binding"
    /\ mine[r] = wanted[r]
    /\ pc' = [pc EXCEPT ![r] = "done"]
    /\ boundTo' = [boundTo EXCEPT ![kind[r]] =
                     [a \in Attachments |-> IF a \in mine[r] THEN r ELSE @[a]]]
    /\ mine' = [mine EXCEPT ![r] = {}]
    /\ UNCHANGED <<rows, old, kind, ticket, wanted, candidates>>

\* The process dies, or PostgreSQL breaks a deadlock of two binders.
Abort(r) ==
    /\ pc[r] = "binding"
    /\ Fail(r)

-----------------------------------------------------------------------------
\* Time passes.
Age(a) ==
    /\ a \in rows \ old
    /\ old' = old \cup {a}
    /\ UNCHANGED <<rows, boundTo, reqVars, candidates>>

\* find_unbound_older_than looks at ticket_id alone ...
PurgeFind ==
    /\ candidates = None
    /\ candidates' = {a \in rows \cap old : boundTo["ticket"][a] = None}
    /\ UNCHANGED <<rows, boundTo, old, reqVars>>

\* ... and purge deletes what it found, by id, once no one holds the rows.
PurgeDelete ==
    /\ candidates # None
    /\ \A r \in Requests : mine[r] \cap candidates = {}
    /\ rows' = rows \ candidates
    /\ candidates' = None
    /\ UNCHANGED <<boundTo, old, reqVars>>

-----------------------------------------------------------------------------
Init ==
    /\ rows = Attachments
    /\ boundTo = [k \in Columns |-> [a \in Attachments |-> None]]
    /\ old = {}
    /\ pc = [r \in Requests |-> "new"]
    /\ kind = [r \in Requests |-> "ticket"]
    /\ ticket = [r \in Requests |-> None]
    /\ wanted = [r \in Requests |-> {}]
    /\ mine = [r \in Requests |-> {}]
    /\ candidates = None

Step(r) ==
    \/ \E t \in Tickets, ids \in SUBSET Attachments : CreateTicket(r, t, ids)
    \/ \E t \in Tickets, ids \in SUBSET Attachments : CreateReply(r, t, ids)
    \/ \E a \in Attachments : Bind(r, a)
    \/ \E a \in Attachments : BindLost(r, a)
    \/ Commit(r)
    \/ Abort(r)

Next ==
    \/ \E r \in Requests : Step(r)
    \/ \E a \in Attachments : Age(a)
    \/ PurgeFind
    \/ PurgeDelete

Spec == Init /\ [][Next]_vars

-----------------------------------------------------------------------------
\* Every variable has its type: a binding names a request, never a ticket.
TypeOK ==
    /\ rows \subseteq Attachments
    /\ boundTo \in [Columns -> [Attachments -> Requests \cup {None}]]
    /\ old \subseteq Attachments
    /\ pc \in [Requests -> {"new", "binding", "done", "failed"}]
    /\ kind \in [Requests -> Columns]
    /\ ticket \in [Requests -> Tickets \cup {None}]
    /\ wanted \in [Requests -> SUBSET Attachments]
    /\ mine \in [Requests -> SUBSET Attachments]
    /\ candidates \in (SUBSET Attachments) \cup {None}

\* FR-7 of US-4.1: of any number of requests racing to bind an attachment at
\* most one gets it, and a binding is never moved to another ticket or reply.
BoundOnce ==
    [][\A k \in Columns, a \in Attachments :
         boundTo[k][a] # None => boundTo'[k][a] = boundTo[k][a]]_vars

\* A request binds all its attachments or none: one that was answered 201
\* is the owner of every id it named, one that lost a race owns nothing.
AllOrNothing ==
    \A r \in Requests :
        {a \in Attachments : boundTo[kind[r]][a] = r} =
            IF pc[r] = "done" THEN wanted[r] ELSE {}

\* FR-7 of US-4.1, "belongs to exactly one ticket forever" while "unbound
\* attachments" are purged: the purge never deletes a ticket's attachment.
TicketAttachmentsAreKept ==
    \A a \in Attachments : boundTo["ticket"][a] # None => a \in rows

\* The same of an attachment FR-1 of US-4.2 "bound to this specific reply".
ReplyAttachmentsAreKept ==
    \A a \in Attachments : boundTo["reply"][a] # None => a \in rows

\* FR-1 of US-4.2 refuses an id "already bound to another ticket or reply":
\* an attachment's two bindings never name different tickets.
OneTicketPerAttachment ==
    \A a \in Attachments :
        boundTo["ticket"][a] # None /\ boundTo["reply"][a] # None
            => ticket[boundTo["ticket"][a]] = ticket[boundTo["reply"][a]]

=============================================================================
