--------------------------- MODULE SessionTokens ---------------------------
(***************************************************************************)
(* Login sessions of the portal: refresh-token families, their single-use  *)
(* rotation, reuse detection, logout, session revocation, the live-session *)
(* cap, logout-everywhere and account (de)activation, as concurrent        *)
(* requests against one PostgreSQL database (READ COMMITTED) and one       *)
(* Valkey key per user, `revoke_before`.                                   *)
(*                                                                         *)
(* A login or a rotation inserts one row of refresh_tokens and one row of  *)
(* user_sessions in the same transaction; both carry the transaction's     *)
(* start time as issued_at, so one row here stands for the pair.  A        *)
(* family is named by its first token.  BEGIN, the first SELECT and the    *)
(* datetime.now() that follows it are one instant.                         *)
(*                                                                         *)
(* A statement over several rows fixes them in its snapshot and then locks *)
(* them one by one, in the order of its plan: none has an ORDER BY.  It    *)
(* waits for a row another transaction holds, and two statements may meet  *)
(* in opposite orders.  What a transaction writes becomes visible when it  *)
(* commits.                                                                *)
(***************************************************************************)
EXTENDS Naturals, FiniteSets

CONSTANTS
    Users,          \* accounts
    Tokens,         \* refresh tokens that can ever be issued
    Requests,       \* HTTP requests served at the same time
    None,           \* SQL NULL, an absent cookie
    Grace,          \* _REFRESH_CONCURRENT_GRACE_WINDOW, 10 s
    Idle,           \* _REFRESH_IDLE_TIMEOUT, 14 days
    RefreshTtl,     \* refresh_token_ttl_seconds, 30 days
    AccessTtl,      \* access_token_ttl_seconds, 900 s
    Cap,            \* max_live_sessions_per_user
    MaxDuration,    \* bound: no request runs longer than this
    MaxTime         \* bound: the clock stops here

\* The settings the deployment uses satisfy these: 14 days plus any request
\* is well below 30 days, and an access token lives 15 minutes.
ASSUME SettingsAssumption ==
    /\ Grace \in Nat /\ Idle \in Nat /\ RefreshTtl \in Nat /\ AccessTtl \in Nat
    /\ Cap \in Nat \ {0}
    /\ MaxDuration \in Nat /\ MaxTime \in Nat \ {0}
    /\ Idle + MaxDuration < RefreshTtl
    /\ AccessTtl + MaxDuration <= RefreshTtl

ASSUME TokensAssumption == Tokens \subseteq Nat

ASSUME NoneAssumption == None \notin Tokens /\ None \notin Requests /\ None \notin Users

VARIABLES
    now,            \* the clock PostgreSQL and the application share
    \* The committed rows.
    rows,           \* tokens that have a row
    owner,          \* user_id
    family,         \* family_id, the first token of the family
    issuedAt,       \* issued_at, the start of the inserting transaction
    expiresAt,      \* expires_at, the same for a whole family
    consumedAt,     \* consumed_at, 0 for NULL
    revoked,        \* tokens whose revoked_at is not NULL
    deactivated,    \* accounts whose status is "deactivated"
    \* Row locks and the Valkey key.
    lock,           \* the request that holds the lock of a row, or None
    revokeBefore,   \* the stamp last written to revoke_before, 0 for none
    keyExpires,     \* when that key's TTL runs out, 0 when never set
    \* The requests, with what they remember between their steps.
    pc, user, token, started, snapshot,
    \* History, which no step reads.
    struckAt        \* when the last revocation of a family committed, 0 for never

rowVars == <<rows, owner, family, issuedAt, expiresAt, consumedAt>>
reqVars == <<pc, user, token, started, snapshot>>
keyVars == <<revokeBefore, keyExpires>>
vars == <<now, rowVars, revoked, deactivated, lock, keyVars, struckAt, reqVars>>

Time == 0 .. MaxTime

LoginPCs == {"reactivating", "opening", "locking", "minting"}
RotatePCs == {"checking", "consuming", "rotating"}
PCs == {"idle", "revoke", "revoking", "stamp", "set"} \cup LoginPCs \cup RotatePCs

-----------------------------------------------------------------------------
(* What the rows say.                                                      *)

Family(f) == {t \in rows : family[t] = f}

\* The rows the session queries call live: not revoked and not expired,
\* consumed or not.  Their now() is the start of the asking transaction.
LiveRows(u, at) ==
    {t \in rows : owner[t] = u /\ t \notin revoked /\ expiresAt[t] > at}

LiveFamilies(u, at) == {family[t] : t \in LiveRows(u, at)}

\* MIN(issued_at) over the live rows of f is no later than that over g's.
CreatedNoLater(live, f, g) ==
    \E s \in live \cap Family(f) :
        \A t \in live \cap Family(g) : issuedAt[s] <= issuedAt[t]

OldestFamilies(u, at) ==
    {f \in LiveFamilies(u, at) :
        \A g \in LiveFamilies(u, at) : CreatedNoLater(LiveRows(u, at), f, g)}

\* The key revoke_before:{user} is present and not older than the row.
RevokedBefore(t) ==
    now < keyExpires[owner[t]] /\ issuedAt[t] <= revokeBefore[owner[t]]

\* get_authenticated_user as far as families go: the access token minted
\* with row t may not have expired, its exp counting from the encoding that
\* ends the request, and is not older than revoke_before.
AccessAccepted(t) ==
    now < issuedAt[t] + MaxDuration + AccessTtl /\ ~RevokedBefore(t)

Authenticated(u) == \E t \in rows : owner[t] = u /\ AccessAccepted(t)

-----------------------------------------------------------------------------
(* Steps of a request.                                                     *)

Holds(r, S) == \A t \in S : lock[t] = r

\* The end of a transaction, committed or rolled back.
Release(r) == [t \in Tokens |-> IF lock[t] = r THEN None ELSE lock[t]]

\* Bound: a request that will mint a token starts only while one is left.
SpareToken ==
    Cardinality(rows) + Cardinality({r \in Requests : pc[r] \in LoginPCs \cup RotatePCs})
        < Cardinality(Tokens)

\* Which random string a new token gets makes no difference: they are drawn
\* in order.
InOrder(n) == \A m \in Tokens \ rows : n <= m

Goto(r, p) == pc' = [pc EXCEPT ![r] = p]

Remember(r, u, t, at, S) ==
    /\ user' = [user EXCEPT ![r] = u]
    /\ token' = [token EXCEPT ![r] = t]
    /\ started' = [started EXCEPT ![r] = at]
    /\ snapshot' = [snapshot EXCEPT ![r] = S]

Finish(r) == Goto(r, "idle") /\ Remember(r, None, None, 0, {})

\* The request goes on to revoke_refresh_token_family.
RevokeFamily(r, f) == Goto(r, "revoke") /\ Remember(r, None, f, 0, {})

\* One row of the statement's snapshot, once no other transaction holds it.
LockRow(r, t) ==
    /\ t \in snapshot[r] /\ lock[t] = None
    /\ lock' = [lock EXCEPT ![t] = r]
    /\ UNCHANGED <<now, rowVars, revoked, deactivated, keyVars, struckAt, reqVars>>

\* The rows get their revoked_at.
Revoke(S) ==
    /\ revoked' = revoked \cup S
    /\ struckAt' = [f \in Tokens |->
                      IF \E t \in S : family[t] = f THEN now ELSE struckAt[f]]

Insert(n, u, f, at, expires) ==
    /\ rows' = rows \cup {n}
    /\ owner' = [owner EXCEPT ![n] = u]
    /\ family' = [family EXCEPT ![n] = f]
    /\ issuedAt' = [issuedAt EXCEPT ![n] = at]
    /\ expiresAt' = [expiresAt EXCEPT ![n] = expires]

-----------------------------------------------------------------------------
Init ==
    /\ now = 1
    /\ rows = {} /\ revoked = {} /\ deactivated = {}
    /\ owner = [t \in Tokens |-> None]
    /\ family = [t \in Tokens |-> None]
    /\ issuedAt = [t \in Tokens |-> 0]
    /\ expiresAt = [t \in Tokens |-> 0]
    /\ consumedAt = [t \in Tokens |-> 0]
    /\ lock = [t \in Tokens |-> None]
    /\ revokeBefore = [u \in Users |-> 0] /\ keyExpires = [u \in Users |-> 0]
    /\ struckAt = [t \in Tokens |-> 0]
    /\ pc = [r \in Requests |-> "idle"]
    /\ user = [r \in Requests |-> None]
    /\ token = [r \in Requests |-> None]
    /\ started = [r \in Requests |-> 0]
    /\ snapshot = [r \in Requests |-> {}]

-----------------------------------------------------------------------------
(* Login, from the moment the password has been verified.                  *)

LoginStart(r, u) ==
    /\ pc[r] = "idle"
    /\ SpareToken
    /\ Goto(r, IF u \in deactivated THEN "reactivating" ELSE "opening")
    /\ Remember(r, u, None, now, {})
    /\ UNCHANGED <<now, rowVars, revoked, deactivated, lock, keyVars, struckAt>>

\* reactivate_account commits on its own, so the login goes on in a new
\* transaction; when the conditional UPDATE matches no row, because the
\* account is active again or its grace period is over, the login ends.
Reactivate(r) ==
    /\ pc[r] = "reactivating"
    /\ \/ /\ user[r] \in deactivated
          /\ deactivated' = deactivated \ {user[r]}
          /\ Goto(r, "opening")
          /\ Remember(r, user[r], None, now, {})
       \/ /\ Finish(r)
          /\ UNCHANGED deactivated
    /\ UNCHANGED <<now, rowVars, revoked, lock, keyVars, struckAt>>

LoginSnapshot(r) ==
    /\ pc[r] = "opening"
    /\ Goto(r, "locking")
    /\ Remember(r, user[r], None, started[r], LiveRows(user[r], started[r]))
    /\ UNCHANGED <<now, rowVars, revoked, deactivated, lock, keyVars, struckAt>>

\* SELECT ... FOR UPDATE.  A row that is no longer live when its lock is free
\* drops out of the result, but stays locked.
LoginLock(r, t) == pc[r] = "locking" /\ LockRow(r, t)

\* The count, and the snapshot of the UPDATE that evicts the oldest family.
LoginCount(r) ==
    LET full == Cardinality(LiveFamilies(user[r], started[r])) >= Cap IN
    /\ pc[r] = "locking" /\ Holds(r, snapshot[r])
    /\ Goto(r, "minting")
    /\ \/ /\ full
          /\ \E f \in OldestFamilies(user[r], started[r]) :
                Remember(r, user[r], None, started[r], Family(f))
       \/ /\ ~full
          /\ Remember(r, user[r], None, started[r], {})
    /\ UNCHANGED <<now, rowVars, revoked, deactivated, lock, keyVars, struckAt>>

EvictLock(r, t) == pc[r] = "minting" /\ LockRow(r, t)

LoginCommit(r) ==
    /\ pc[r] = "minting" /\ Holds(r, snapshot[r])
    /\ \E n \in Tokens \ rows : InOrder(n) /\ Insert(n, user[r], n, started[r], now + RefreshTtl)
    /\ Revoke(snapshot[r])
    /\ lock' = Release(r)
    /\ Finish(r)
    /\ UNCHANGED <<now, consumedAt, deactivated, keyVars>>

-----------------------------------------------------------------------------
(* rotate_refresh_token for the presented token t.  A rejection that writes *)
(* nothing leaves the request idle.                                        *)

WithinGrace(t) == now <= consumedAt[t] + Grace

RotateStart(r, t) ==
    /\ pc[r] = "idle"
    /\ t \in rows /\ expiresAt[t] > now /\ t \notin revoked
    /\ \/ /\ consumedAt[t] = 0
          /\ SpareToken
          /\ Goto(r, "checking") /\ Remember(r, None, t, now, {})
       \/ /\ consumedAt[t] # 0 /\ ~WithinGrace(t)
          /\ RevokeFamily(r, family[t])
    /\ UNCHANGED <<now, rowVars, revoked, deactivated, lock, keyVars, struckAt>>

Eligible(t, at) ==
    /\ owner[t] \notin deactivated
    /\ ~RevokedBefore(t)
    /\ at <= issuedAt[t] + Idle

RotateCheck(r) ==
    /\ pc[r] = "checking"
    /\ \/ /\ Eligible(token[r], started[r])
          /\ Goto(r, "consuming")
          /\ UNCHANGED <<user, token, started, snapshot>>
       \/ /\ ~Eligible(token[r], started[r])
          /\ Finish(r)
    /\ UNCHANGED <<now, rowVars, revoked, deactivated, lock, keyVars, struckAt>>

RotateConsumeBlind(r) ==
    /\ pc[r] = "consuming"
    /\ lock[token[r]] = None
    /\ lock' = [lock EXCEPT ![token[r]] = r]
    /\ Goto(r, "rotating")
    /\ UNCHANGED <<now, rowVars, revoked, deactivated, keyVars, struckAt,
                   user, token, started, snapshot>>

\* Locks the rows of the family before the token's own.
RotateConsumeFamily(r) ==
    /\ pc[r] = "consuming"
    /\ \E t \in Family(family[token[r]]) :
          /\ lock[t] = None
          /\ lock' = [lock EXCEPT ![t] = r]
          /\ IF t = token[r] THEN Goto(r, "rotating") ELSE UNCHANGED pc
    /\ consumedAt[token[r]] = 0
    /\ UNCHANGED <<now, rowVars, revoked, deactivated, keyVars, struckAt,
                   user, token, started, snapshot>>

\* UPDATE ... WHERE consumed_at IS NULL: it waits for a competing update of
\* the row and then looks at consumed_at again, and at nothing else.  The
\* loser that had to wait keeps the row locked until its transaction ends.
RotateConsume(r) ==
    LET t == token[r]
        locked == [lock EXCEPT ![t] = r] IN
    /\ pc[r] = "consuming"
    /\ lock[t] = None
    /\ \/ /\ consumedAt[t] = 0
          /\ lock' = locked
          /\ Goto(r, "rotating")
          /\ UNCHANGED <<user, token, started, snapshot>>
       \/ /\ consumedAt[t] # 0 /\ WithinGrace(t)
          /\ Finish(r)
          /\ UNCHANGED lock
       \/ /\ consumedAt[t] # 0 /\ ~WithinGrace(t)
          /\ RevokeFamily(r, family[t])
          /\ lock' \in {lock, locked}
    /\ UNCHANGED <<now, rowVars, revoked, deactivated, keyVars, struckAt>>

RotateInto(r, at, expires) ==
    LET t == token[r] IN
    /\ pc[r] = "rotating"
    /\ \E n \in Tokens \ rows : InOrder(n) /\ Insert(n, owner[t], family[t], at, expires)
    /\ consumedAt' = [consumedAt EXCEPT ![t] = started[r]]
    /\ lock' = Release(r)
    /\ Finish(r)
    /\ UNCHANGED <<now, revoked, deactivated, keyVars, struckAt>>

RotateCommitClock(r) == RotateInto(r, now, expiresAt[token[r]])

RotateCommit(r) == RotateInto(r, started[r], expiresAt[token[r]])

-----------------------------------------------------------------------------
(* Revocation of a family: logout, DELETE /sessions/{family}, and reuse.   *)

\* Logout with the refresh cookie c.  Without one, or with a cookie of
\* another account, no family is revoked.
LogoutStart(r, u, c) ==
    /\ pc[r] = "idle"
    /\ Authenticated(u)
    /\ c \in rows /\ owner[c] = u
    /\ RevokeFamily(r, family[c])
    /\ UNCHANGED <<now, rowVars, revoked, deactivated, lock, keyVars, struckAt>>

\* Only the caller's own families; the 409 for the current one depends on a
\* cookie the caller may leave out.
RevokeSessionStart(r, u, f) ==
    /\ pc[r] = "idle"
    /\ Authenticated(u)
    /\ \E t \in Family(f) : owner[t] = u
    /\ RevokeFamily(r, f)
    /\ UNCHANGED <<now, rowVars, revoked, deactivated, lock, keyVars, struckAt>>

RevokeSnapshot(r) ==
    /\ pc[r] = "revoke"
    /\ Goto(r, "revoking")
    /\ Remember(r, None, token[r], 0, Family(token[r]))
    /\ UNCHANGED <<now, rowVars, revoked, deactivated, lock, keyVars, struckAt>>

RevokeLock(r, t) == pc[r] = "revoking" /\ LockRow(r, t)

RevokeCommit(r) ==
    /\ pc[r] = "revoking" /\ Holds(r, snapshot[r])
    /\ Revoke(snapshot[r])
    /\ lock' = Release(r)
    /\ Finish(r)
    /\ UNCHANGED <<now, rowVars, deactivated, keyVars>>

-----------------------------------------------------------------------------
(* Everything at once: logout_all, and deactivation, which goes on to      *)
(* set_revoke_before after its commit.  set_revoke_before reads the clock  *)
(* and then awaits the SET, so stamps may be written out of order.         *)

LogoutAllStart(r, u) ==
    /\ pc[r] = "idle"
    /\ Authenticated(u)
    /\ Goto(r, "stamp") /\ Remember(r, u, None, 0, {})
    /\ UNCHANGED <<now, rowVars, revoked, deactivated, lock, keyVars, struckAt>>

DeactivateCommit(r, u) ==
    /\ pc[r] = "idle"
    /\ Authenticated(u)
    /\ u \notin deactivated
    /\ deactivated' = deactivated \cup {u}
    /\ Goto(r, "stamp") /\ Remember(r, u, None, 0, {})
    /\ UNCHANGED <<now, rowVars, revoked, lock, keyVars, struckAt>>

\* datetime.now(), the value of the SET that follows.
Stamp(r) ==
    /\ pc[r] = "stamp"
    /\ Goto(r, "set") /\ Remember(r, user[r], None, now, {})
    /\ UNCHANGED <<now, rowVars, revoked, deactivated, lock, keyVars, struckAt>>

\* SET revoke_before:{user} EX refresh_token_ttl_seconds.
SetRevokeBefore(r) ==
    LET u == user[r] IN
    /\ pc[r] = "set"
    /\ revokeBefore' = [revokeBefore EXCEPT ![u] = started[r]]
    /\ keyExpires' = [keyExpires EXCEPT ![u] = now + RefreshTtl]
    /\ Finish(r)
    /\ UNCHANGED <<now, rowVars, revoked, deactivated, lock, struckAt>>

-----------------------------------------------------------------------------
(* The environment: a request dies, or is the victim that PostgreSQL picks *)
(* from a circle of waiting transactions, and rolls back; time.            *)

Crash(r) ==
    /\ pc[r] # "idle"
    /\ lock' = Release(r)
    /\ Finish(r)
    /\ UNCHANGED <<now, rowVars, revoked, deactivated, keyVars, struckAt>>

Tick ==
    /\ now < MaxTime
    /\ \A r \in Requests : started[r] # 0 => now < started[r] + MaxDuration
    /\ now' = now + 1
    /\ UNCHANGED <<rowVars, revoked, deactivated, lock, keyVars, struckAt, reqVars>>

Step(r) ==
    \/ Reactivate(r) \/ LoginSnapshot(r) \/ LoginCount(r) \/ LoginCommit(r)
    \/ RotateCheck(r) \/ RotateConsume(r) \/ RotateCommit(r)
    \/ RevokeSnapshot(r) \/ RevokeCommit(r)
    \/ Stamp(r) \/ SetRevokeBefore(r)

Lock(r) == \E t \in Tokens : LoginLock(r, t) \/ EvictLock(r, t) \/ RevokeLock(r, t)

Arrive(r) ==
    \/ \E u \in Users : LoginStart(r, u) \/ LogoutAllStart(r, u) \/ DeactivateCommit(r, u)
    \/ \E t \in Tokens : RotateStart(r, t)
    \/ \E u \in Users, t \in Tokens : LogoutStart(r, u, t) \/ RevokeSessionStart(r, u, t)

Next ==
    \/ \E r \in Requests : Arrive(r) \/ Step(r) \/ Lock(r) \/ Crash(r)
    \/ Tick

Spec == Init /\ [][Next]_vars

-----------------------------------------------------------------------------
\* Every variable has its type: committed rows, locks and requests.
TypeOK ==
    /\ now \in Time
    /\ rows \subseteq Tokens /\ revoked \subseteq Tokens /\ deactivated \subseteq Users
    /\ owner \in [Tokens -> Users \cup {None}]
    /\ family \in [Tokens -> Tokens \cup {None}]
    /\ issuedAt \in [Tokens -> Time]
    /\ expiresAt \in [Tokens -> 0 .. MaxTime + RefreshTtl]
    /\ consumedAt \in [Tokens -> Time]
    /\ lock \in [Tokens -> Requests \cup {None}]
    /\ revokeBefore \in [Users -> Time]
    /\ keyExpires \in [Users -> 0 .. MaxTime + RefreshTtl]
    /\ struckAt \in [Tokens -> Time]
    /\ pc \in [Requests -> PCs]
    /\ user \in [Requests -> Users \cup {None}]
    /\ token \in [Requests -> Tokens \cup {None}]
    /\ started \in [Requests -> Time]
    /\ snapshot \in [Requests -> SUBSET Tokens]

\* A family never forks: at most one of its tokens is still unconsumed,
\* whatever requests race to rotate it (consume_refresh_token, "two
\* concurrent callers presenting the same token can never both succeed").
SingleUse ==
    \A s, t \in rows :
        family[s] = family[t] /\ consumedAt[s] = 0 /\ consumedAt[t] = 0 => s = t

\* The refresh token t would pass every check of rotate_refresh_token now.
RefreshAccepted(t) ==
    /\ expiresAt[t] > now /\ t \notin revoked /\ consumedAt[t] = 0
    /\ Eligible(t, now)

\* logout_all and deactivation are final.  A refresh or access token is
\* accepted only if its family was opened after the stamp, or a rotation of
\* it began between the stamp and the SET that made it visible: not because
\* a rotation in flight committed later, nor because stamps were written out
\* of order, nor because the key's TTL has run out.
RevokeBeforeIsFinal ==
    \A t \in rows :
        LET u == owner[t] IN
        RefreshAccepted(t) \/ AccessAccepted(t)
        => \/ issuedAt[family[t]] > revokeBefore[u]
           \/ \E s \in Family(family[t]) :
                 /\ issuedAt[s] > revokeBefore[u]
                 /\ issuedAt[s] + RefreshTtl <= keyExpires[u]

\* Without the second case: "every access and
\* refresh token issued before this moment is rejected on its next use".
RevokeBeforeReachesAll ==
    \A t \in rows :
        RefreshAccepted(t) \/ AccessAccepted(t)
        => issuedAt[family[t]] > revokeBefore[owner[t]]

\* The row list_live_families_for_user shows for a family, the one issued
\* last, is the one token of the family that can still be rotated.
NewestIsUnconsumed ==
    \A s, t \in rows :
        family[s] = family[t] /\ consumedAt[t] = 0 => issuedAt[s] <= issuedAt[t]

\* Revoking a family (logout, DELETE /sessions/{family}, reuse, eviction)
\* misses at most the rotations that were running when it committed: while
\* any row of the family is still unrevoked, so is one whose rotation began
\* no later than that.  No later rotation starts a branch of its own.
SurvivorsPredateRevocation ==
    \A f \in rows :
        struckAt[f] # 0 /\ ~(Family(f) \subseteq revoked)
        => \E s \in Family(f) \ revoked : issuedAt[s] <= struckAt[f]

Dead(f) == Family(f) # {} /\ Family(f) \subseteq revoked

\* A family once wholly revoked stays so: "every token in that family has
\* revoked_at set immediately (the whole refresh-token chain is destroyed".
RevocationIsFinal == [][\A f \in Tokens : Dead(f) => Dead(f)']_vars

-----------------------------------------------------------------------------
(* Who waits for whom.                                                     *)

\* The rows the statement of a request locks; it waits where another holds one.
Wanted(r) ==
    CASE pc[r] = "consuming" -> {token[r]}
      [] pc[r] \in {"locking", "minting", "revoking"} -> snapshot[r]
      [] OTHER -> {}

WaitsFor(q, r) == q # r /\ \E t \in Wanted(q) : lock[t] = r

\* r is one of a set of requests that wait for each other in circles.
Deadlocked(r) ==
    \E D \in SUBSET Requests :
        /\ r \in D
        /\ \A p \in D : \E q \in D : WaitsFor(p, q)
        /\ \A p \in D : \E q \in D : WaitsFor(q, p)

\* Logins and family revocations lock the same rows in whatever order, and
\* may have to be broken up by PostgreSQL.  A rotation never is in such a
\* circle: until it has lost its race it waits for one row while it holds
\* none, and once it holds that row it waits for nothing.
RotationsNeverDeadlock ==
    \A r \in Requests : pc[r] \in RotatePCs => ~Deadlocked(r)

\* No request at all is ever in a circle.
NoDeadlock == \A r \in Requests : ~Deadlocked(r)

-----------------------------------------------------------------------------
Chain == INSTANCE SingleUseChain WITH
    spent <- {t \in rows : consumedAt[t] # 0}

\* The rows implement the single-use chain: a token enters a family only by
\* a login or by the one rotation that spends its predecessor.
ImplementsChain == Chain!Spec

\* Two logins of one user never both run between the row lock and their
\* commit ("two logins racing concurrently for the SAME user serialize on
\* this lock rather than both observing a stale count").
LoginsSerialize ==
    \A q, r \in Requests :
        /\ pc[q] = "minting" /\ pc[r] = "minting"
        /\ user[q] = user[r]
        => q = r
=============================================================================
