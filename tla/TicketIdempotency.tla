------------------------- MODULE TicketIdempotency -------------------------
(***************************************************************************)
(* The Idempotency-Key of POST /support/tickets: an envelope in Valkey,    *)
(* claimed with SET NX EX before the work, overwritten with the ticket's   *)
(* id after the commit, deleted when the work fails; and the bounded poll  *)
(* of the requests that find the key taken.                                *)
(*                                                                         *)
(* The keys of different customers never meet, so these are the requests   *)
(* of one customer.  Between claim and commit the work (rate limit,        *)
(* attachments, inserts, audit entry) either succeeds or raises; what it   *)
(* raises is left out.                                                     *)
(***************************************************************************)
EXTENDS Naturals

CONSTANTS
    Keys,           \* Idempotency-Key headers
    Hashes,         \* hashes of request bodies
    TicketIds,      \* bound: tickets that can ever be created
    Requests,       \* HTTP requests served at the same time
    None,
    Ttl,            \* _IDEMPOTENCY_TTL_SECONDS, 24 hours
    MaxAttempts,    \* _POLL_MAX_ATTEMPTS, 5
    MaxDuration,    \* bound: no request runs longer than this
    MaxTime         \* bound: the clock stops here

\* A request takes seconds, an envelope lives a day.
ASSUME SettingsAssumption ==
    /\ Ttl \in Nat /\ MaxAttempts \in Nat \ {0} /\ MaxDuration \in Nat
    /\ MaxTime \in Nat \ {0}
    /\ MaxDuration < Ttl

ASSUME NoneAssumption == None \notin Keys \cup Hashes \cup TicketIds

VARIABLES
    now,
    envHash, envTicket, envExpires,     \* the envelope of each key
    orphaned,                           \* history: keys whose claimant died
    tickets,                            \* committed tickets
    madeKey, madeHash, claimedAt,       \* the request each ticket answers
    unacknowledged,                     \* tickets whose commit raised all the same
    pc, key, hash, claim, mine, attempts

envVars == <<envHash, envTicket, envExpires, orphaned>>
ticketVars == <<tickets, madeKey, madeHash, claimedAt, unacknowledged>>
reqVars == <<pc, key, hash, claim, mine, attempts>>
vars == <<now, envVars, ticketVars, reqVars>>

Time == 0 .. MaxTime
PCs == {"idle", "working", "releasing", "resolving", "polling", "found"}

\* Between the claim of a key and the last write to its envelope.
Holding == {"working", "releasing", "resolving"}

-----------------------------------------------------------------------------
Present(k) == now < envExpires[k]

Pending(k) == Present(k) /\ envTicket[k] = None

SetEnvelope(k, h, t, until) ==
    /\ envHash' = [envHash EXCEPT ![k] = h]
    /\ envTicket' = [envTicket EXCEPT ![k] = t]
    /\ envExpires' = [envExpires EXCEPT ![k] = until]
    /\ orphaned' = orphaned \ {k}

Goto(r, p) == pc' = [pc EXCEPT ![r] = p]

Begin(r, p, k, h) ==
    /\ pc[r] = "idle"
    /\ Goto(r, p)
    /\ key' = [key EXCEPT ![r] = k]
    /\ hash' = [hash EXCEPT ![r] = h]
    /\ claim' = [claim EXCEPT ![r] = now]
    /\ UNCHANGED <<mine, attempts>>

Finish(r) ==
    /\ Goto(r, "idle")
    /\ key' = [key EXCEPT ![r] = None]
    /\ hash' = [hash EXCEPT ![r] = None]
    /\ claim' = [claim EXCEPT ![r] = 0]
    /\ mine' = [mine EXCEPT ![r] = None]
    /\ attempts' = [attempts EXCEPT ![r] = 0]

Init ==
    /\ now = 1
    /\ envHash = [k \in Keys |-> None]
    /\ envTicket = [k \in Keys |-> None]
    /\ envExpires = [k \in Keys |-> 0]
    /\ orphaned = {}
    /\ tickets = {} /\ unacknowledged = {}
    /\ madeKey = [t \in TicketIds |-> None]
    /\ madeHash = [t \in TicketIds |-> None]
    /\ claimedAt = [t \in TicketIds |-> 0]
    /\ pc = [r \in Requests |-> "idle"]
    /\ key = [r \in Requests |-> None]
    /\ hash = [r \in Requests |-> None]
    /\ claim = [r \in Requests |-> 0]
    /\ mine = [r \in Requests |-> None]
    /\ attempts = [r \in Requests |-> 0]

-----------------------------------------------------------------------------
(* The request that wins the key.                                          *)

ClaimWithoutNX(r, k, h) ==
    /\ Begin(r, "working", k, h)
    /\ SetEnvelope(k, h, None, now + Ttl)
    /\ UNCHANGED <<now, ticketVars>>

ClaimWithoutTtl(r, k, h) ==
    /\ ~Present(k)
    /\ Begin(r, "working", k, h)
    /\ SetEnvelope(k, h, None, MaxTime + Ttl)
    /\ UNCHANGED <<now, ticketVars>>

Claim(r, k, h) ==
    /\ ~Present(k)
    /\ Begin(r, "working", k, h)
    /\ SetEnvelope(k, h, None, now + Ttl)
    /\ UNCHANGED <<now, ticketVars>>

\* The transaction inserts the ticket; mine is what the request goes on with.
Insert(r, t) ==
    /\ tickets' = tickets \cup {t}
    /\ madeKey' = [madeKey EXCEPT ![t] = key[r]]
    /\ madeHash' = [madeHash EXCEPT ![t] = hash[r]]
    /\ claimedAt' = [claimedAt EXCEPT ![t] = claim[r]]

Commit(r, t) ==
    /\ pc[r] = "working"
    /\ t \notin tickets
    /\ Insert(r, t)
    /\ Goto(r, "resolving")
    /\ mine' = [mine EXCEPT ![r] = t]
    /\ UNCHANGED <<now, envVars, unacknowledged, key, hash, claim, attempts>>

\* The connection breaks while the server commits: the ticket exists and
\* commit() raises.
CommitUnacknowledged(r, t) ==
    /\ pc[r] = "working"
    /\ t \notin tickets
    /\ Insert(r, t)
    /\ unacknowledged' = unacknowledged \cup {t}
    /\ Goto(r, "releasing")
    /\ UNCHANGED <<now, envVars, key, hash, claim, mine, attempts>>

FailUnreleased(r) ==
    /\ pc[r] = "working"
    /\ Finish(r)
    /\ UNCHANGED <<now, envVars, ticketVars>>

\* The work raises and its transaction is rolled back.
Fail(r) ==
    /\ pc[r] = "working"
    /\ Goto(r, "releasing")
    /\ UNCHANGED <<now, envVars, ticketVars, key, hash, claim, mine, attempts>>

Release(r) ==
    /\ pc[r] = "releasing"
    /\ SetEnvelope(key[r], None, None, 0)
    /\ Finish(r)
    /\ UNCHANGED <<now, ticketVars>>

ResolveThenRelease(r) ==
    /\ pc[r] = "resolving"
    /\ SetEnvelope(key[r], None, None, 0)
    /\ Finish(r)
    /\ UNCHANGED <<now, ticketVars>>

Resolve(r) ==
    /\ pc[r] = "resolving"
    /\ SetEnvelope(key[r], hash[r], mine[r], now + Ttl)
    /\ Finish(r)
    /\ UNCHANGED <<now, ticketVars>>

-----------------------------------------------------------------------------
(* The requests that find the key taken.                                   *)

Replay(r, k, h) ==
    /\ Present(k)
    /\ Begin(r, "polling", k, h)
    /\ UNCHANGED <<now, envVars, ticketVars>>

\* One turn of the poll: the ticket is there, or the request sleeps.
PollTurn(r) ==
    LET t == envTicket[key[r]] IN
    /\ \/ /\ t # None
          /\ Goto(r, "found")
          /\ mine' = [mine EXCEPT ![r] = t]
          /\ UNCHANGED <<key, hash, claim, attempts>>
       \/ /\ t = None
          /\ attempts' = [attempts EXCEPT ![r] = @ + 1]
          /\ UNCHANGED <<pc, key, hash, claim, mine>>
    /\ UNCHANGED <<now, envVars, ticketVars>>

PollAnyHash(r) ==
    /\ pc[r] = "polling" /\ attempts[r] < MaxAttempts
    /\ Present(key[r])
    /\ PollTurn(r)

Poll(r) ==
    /\ pc[r] = "polling" /\ attempts[r] < MaxAttempts
    /\ Present(key[r]) /\ envHash[key[r]] = hash[r]
    /\ PollTurn(r)

\* The envelope is gone, another body holds the key, or the poll is over.
PollFails(r) ==
    LET k == key[r] IN
    /\ pc[r] = "polling"
    /\ ~Present(k) \/ envHash[k] # hash[r] \/ attempts[r] = MaxAttempts
    /\ Finish(r)
    /\ UNCHANGED <<now, envVars, ticketVars>>

\* get_by_id for the id of the envelope, and the answer.
Answer(r) ==
    /\ pc[r] = "found"
    /\ Finish(r)
    /\ UNCHANGED <<now, envVars, ticketVars>>

-----------------------------------------------------------------------------
\* The process dies, or a Valkey call fails, and nothing more runs.
Crash(r) ==
    /\ pc[r] # "idle"
    /\ orphaned' = IF pc[r] \in Holding THEN orphaned \cup {key[r]} ELSE orphaned
    /\ Finish(r)
    /\ UNCHANGED <<now, envHash, envTicket, envExpires, ticketVars>>

Tick ==
    /\ now < MaxTime
    /\ \A r \in Requests : pc[r] # "idle" => now < claim[r] + MaxDuration
    /\ now' = now + 1
    /\ UNCHANGED <<envVars, ticketVars, reqVars>>

Step(r) ==
    \/ \E t \in TicketIds : Commit(r, t) \/ CommitUnacknowledged(r, t)
    \/ Fail(r) \/ Release(r) \/ Resolve(r)
    \/ Poll(r) \/ PollFails(r) \/ Answer(r)

Next ==
    \/ \E r \in Requests, k \in Keys, h \in Hashes : Claim(r, k, h) \/ Replay(r, k, h)
    \/ \E r \in Requests : Step(r) \/ Crash(r)
    \/ Tick

Spec == Init /\ [][Next]_vars

\* Requests go on, and time passes.
FairSpec == Spec /\ WF_vars(Tick) /\ \A r \in Requests : WF_vars(Step(r))

-----------------------------------------------------------------------------
\* Every variable has its type.
TypeOK ==
    /\ now \in Time
    /\ envHash \in [Keys -> Hashes \cup {None}]
    /\ envTicket \in [Keys -> TicketIds \cup {None}]
    /\ envExpires \in [Keys -> 0 .. MaxTime + Ttl]
    /\ orphaned \subseteq Keys
    /\ tickets \subseteq TicketIds /\ unacknowledged \subseteq tickets
    /\ madeKey \in [TicketIds -> Keys \cup {None}]
    /\ madeHash \in [TicketIds -> Hashes \cup {None}]
    /\ claimedAt \in [TicketIds -> Time]
    /\ pc \in [Requests -> PCs]
    /\ key \in [Requests -> Keys \cup {None}]
    /\ hash \in [Requests -> Hashes \cup {None}]
    /\ claim \in [Requests -> Time]
    /\ mine \in [Requests -> TicketIds \cup {None}]
    /\ attempts \in [Requests -> 0 .. MaxAttempts]

SameWindow(s, t) ==
    /\ s # t /\ madeKey[s] = madeKey[t]
    /\ claimedAt[s] <= claimedAt[t] /\ claimedAt[t] < claimedAt[s] + Ttl

\* Two tickets for one key within the TTL exist only when the commit of the
\* earlier one was taken for a failure, whichever requests die or fail
\* between claim, commit and resolve.
DuplicatesOnlyAfterLostAck ==
    \A s, t \in tickets : SameWindow(s, t) => {s, t} \cap unacknowledged # {}

\* A replay answers with a ticket that exists and that was created for the
\* same key and the same body: "idempotency envelope referenced a missing
\* ticket" is never raised.
ReplayIsSound ==
    \A r \in Requests :
        pc[r] = "found" => /\ mine[r] \in tickets
                           /\ madeKey[mine[r]] = key[r] /\ madeHash[mine[r]] = hash[r]

\* The request that works under a pending envelope is alone with it: while
\* one is between claim and its last cache write, the envelope is its own.
ClaimIsExclusive ==
    \A q, r \in Requests :
        pc[q] \in Holding /\ pc[r] \in Holding /\ key[q] = key[r]
        => q = r /\ Pending(key[r]) /\ envHash[key[r]] = hash[r]

\* support/service.py:341: work that fails releases its key, "or every retry
\* with the same key would poll against a stuck envelope until its 24h TTL
\* expires".  An envelope without a ticket has its claimant at work, unless
\* the claimant died.
StuckOnlyAfterCrash ==
    \A k \in Keys : Pending(k) =>
        \/ \E r \in Requests : pc[r] \in Holding /\ key[r] = k
        \/ k \in orphaned

\* A claimed key does not stay unresolved: it is resolved, released, or its
\* TTL runs out, also when the claimant dies.
ClaimsSettle ==
    \A k \in Keys : Pending(k) /\ now + Ttl <= MaxTime ~> ~Pending(k)

\* "retried with the same Idempotency-Key within 24 hours ... the ORIGINAL
\* ticket, and no second ticket exists".
OneTicketPerKey == \A s, t \in tickets : ~SameWindow(s, t)
=============================================================================
