---------------------------- MODULE AdminRoster ----------------------------
(***************************************************************************)
(* Who may administer the portal: the user_roles rows, users.status, and   *)
(* the requests that may take the last administrator away.                 *)
(*                                                                         *)
(* PUT /admin/users/{id}/roles and POST /admin/users/{id}/deactivate read  *)
(* the target's roles and, when the target is an administrator about to    *)
(* stop being an active one, count the others with SELECT ... FOR UPDATE   *)
(* before they write.  PostgreSQL runs every statement at READ COMMITTED:  *)
(* the statement sees the rows committed when it starts, waits for the     *)
(* locked ones, and evaluates its condition again on their newest version. *)
(* `seen` holds the rows such a waiting statement started with; a row      *)
(* deleted meanwhile drops out of it, a row inserted meanwhile never       *)
(* enters it.                                                              *)
(*                                                                         *)
(* A registered user's status is PENDING_VERIFICATION, also once the email *)
(* is verified; "active" is written by the login that reactivates a        *)
(* deactivated account, and by nothing else.  The users here have verified *)
(* emails; invited ones, who cannot log in, are left out.                  *)
(*                                                                         *)
(* The write of a request (DELETE, INSERTs, audit entry, COMMIT) is one    *)
(* step: until the COMMIT nobody sees it, and others wait for its rows.    *)
(* Audit entries, perm_epoch and revoke_before are left out.               *)
(***************************************************************************)
CONSTANTS
    Users,
    Roles,          \* the seeded catalogue
    Admin,          \* _ADMIN_ROLE_NAME; the only role with roles:write and users:write
    Requests        \* HTTP requests served at the same time

ASSUME AdminAssumption == Admin \in Roles

VARIABLES
    held,           \* user_roles: the roles of each user
    status,         \* users.status
    pc, kind, target,
    want,           \* the role set a replacement asks for
    seen,           \* user_roles rows the request's open statement started with
    locks,          \* users whose rows the request's transaction has locked
    checked         \* the request passed the last-administrator check

rosterVars == <<held, status>>
reqVars == <<pc, kind, target, want, seen, locks, checked>>
adminVars == <<rosterVars, reqVars>>

PCs == {"idle", "start", "count", "lock", "write", "delete"}
Kinds == {"replace", "deactivate"}
Statuses == {"PENDING_VERIFICATION", "active", "deactivated"}

-----------------------------------------------------------------------------
ActiveAdmins == {u \in Users : status[u] = "active" /\ Admin \in held[u]}

\* Those who can log in and administer.
Administrators ==
    {u \in Users : status[u] # "deactivated" /\ Admin \in held[u]}

\* No other transaction holds a row lock on u's users or user_roles rows.
FreeFor(r, u) == \A q \in Requests \ {r} : u \notin locks[q]

Free(u) == \A q \in Requests : u \notin locks[q]

\* The transaction ends, its locks with it.
Done(r) ==
    /\ pc' = [pc EXCEPT ![r] = "idle"]
    /\ locks' = [locks EXCEPT ![r] = {}]
    /\ checked' = [checked EXCEPT ![r] = FALSE]
    /\ UNCHANGED <<kind, target, want>>

-----------------------------------------------------------------------------
(* The guarded endpoints.                                                  *)

Arrive(r, k, u, roles) ==
    /\ pc[r] = "idle"
    /\ pc' = [pc EXCEPT ![r] = "start"]
    /\ kind' = [kind EXCEPT ![r] = k]
    /\ target' = [target EXCEPT ![r] = u]
    /\ want' = [want EXCEPT ![r] = roles]
    /\ UNCHANGED <<rosterVars, seen, locks, checked>>

\* The caller is an administrator and not the target.
ReplaceStart(r, u, roles) ==
    /\ Administrators \ {u} # {}
    /\ roles # {}
    /\ Arrive(r, "replace", u, roles)

DeactivateStart(r, u) ==
    /\ Administrators \ {u} # {}
    /\ Arrive(r, "deactivate", u, {})

\* Does the write, judged by the roles read now, take an administrator away?
Removes(r) == Admin \in held[target[r]] /\ Admin \notin want[r]

\* list_role_names_for_user: a plain read; without a removal there is no count.
ReadRoles(r) ==
    /\ pc[r] = "start"
    /\ pc' = [pc EXCEPT ![r] = IF Removes(r) THEN "count" ELSE "write"]
    /\ UNCHANGED <<rosterVars, kind, target, want, seen, locks, checked>>

CountStart(r) ==
    /\ pc[r] = "count"
    /\ pc' = [pc EXCEPT ![r] = "lock"]
    /\ seen' = [seen EXCEPT ![r] = {<<u, Admin>> : u \in ActiveAdmins}]
    /\ UNCHANGED <<rosterVars, kind, target, want, locks, checked>>

Counted(r) == {u \in ActiveAdmins : <<u, Admin>> \in seen[r]}

\* Mutant: the target itself is counted.
CountLockInclusive(r) ==
    /\ pc[r] = "lock"
    /\ \A u \in Counted(r) : FreeFor(r, u)
    /\ seen' = [seen EXCEPT ![r] = {}]
    /\ \/ /\ Counted(r) = {}
          /\ Done(r)
       \/ /\ Counted(r) # {}
          /\ pc' = [pc EXCEPT ![r] = "write"]
          /\ locks' = [locks EXCEPT ![r] = Counted(r)]
          /\ checked' = [checked EXCEPT ![r] = TRUE]
          /\ UNCHANGED <<kind, target, want>>
    /\ UNCHANGED rosterVars

\* count_active_admins_excluding: the rows locked and counted; 409 at zero.
CountLock(r) ==
    /\ pc[r] = "lock"
    /\ \A u \in Counted(r) : FreeFor(r, u)
    /\ seen' = [seen EXCEPT ![r] = {}]
    /\ \/ /\ Counted(r) \ {target[r]} = {}
          /\ Done(r)
       \/ /\ Counted(r) \ {target[r]} # {}
          /\ pc' = [pc EXCEPT ![r] = "write"]
          /\ locks' = [locks EXCEPT ![r] = Counted(r)]
          /\ checked' = [checked EXCEPT ![r] = TRUE]
          /\ UNCHANGED <<kind, target, want>>
    /\ UNCHANGED rosterVars

DeleteStart(r) ==
    /\ pc[r] = "write"
    /\ kind[r] = "replace"
    /\ pc' = [pc EXCEPT ![r] = "delete"]
    /\ seen' = [seen EXCEPT ![r] = {target[r]} \X held[target[r]]]
    /\ UNCHANGED <<rosterVars, kind, target, want, locks, checked>>

\* The target's rows that the DELETE does not find.
Missed(r) == {x \in held[target[r]] : <<target[r], x>> \notin seen[r]}

\* replace_for_user and COMMIT; the primary key refuses a row that is there.
ReplaceCommit(r) ==
    LET dead == {<<target[r], x>> : x \in Roles \ Missed(r)} IN
    /\ pc[r] = "delete"
    /\ FreeFor(r, target[r])
    /\ Missed(r) \cap want[r] = {}
    /\ held' = [held EXCEPT ![target[r]] = Missed(r) \cup want[r]]
    /\ seen' = [q \in Requests |-> IF q = r THEN {} ELSE seen[q] \ dead]
    /\ Done(r)
    /\ UNCHANGED status

\* Mutant: FOR UPDATE OF user_roles alone, which an UPDATE of users ignores.
DeactivateCommitUnlocked(r) ==
    /\ pc[r] = "write"
    /\ kind[r] = "deactivate"
    /\ status[target[r]] = "active"
    /\ status' = [status EXCEPT ![target[r]] = "deactivated"]
    /\ Done(r)
    /\ UNCHANGED <<held, seen>>

\* deactivate_if_active, conditional on the row's newest status, and COMMIT.
DeactivateCommit(r) ==
    /\ pc[r] = "write"
    /\ kind[r] = "deactivate"
    /\ FreeFor(r, target[r])
    /\ status[target[r]] = "active"
    /\ status' = [status EXCEPT ![target[r]] = "deactivated"]
    /\ Done(r)
    /\ UNCHANGED <<held, seen>>

\* No row matched: 409 already-deactivated.
DeactivateRefused(r) ==
    /\ pc[r] = "write"
    /\ kind[r] = "deactivate"
    /\ FreeFor(r, target[r])
    /\ status[target[r]] # "active"
    /\ Done(r)
    /\ UNCHANGED <<rosterVars, seen>>

\* The process dies, or PostgreSQL raises (IntegrityError, deadlock): rollback.
Abort(r) ==
    /\ pc[r] # "idle"
    /\ seen' = [seen EXCEPT ![r] = {}]
    /\ Done(r)
    /\ UNCHANGED rosterVars

-----------------------------------------------------------------------------
(* The endpoints without a last-administrator check.                       *)

\* POST /account/deactivate: one conditional UPDATE and its COMMIT.
SelfDeactivate(u) ==
    /\ status[u] # "deactivated"
    /\ Free(u)
    /\ status' = [status EXCEPT ![u] = "deactivated"]
    /\ UNCHANGED <<held, reqVars>>

\* A login within the grace period.
Reactivate(u) ==
    /\ status[u] = "deactivated"
    /\ Free(u)
    /\ status' = [status EXCEPT ![u] = "active"]
    /\ UNCHANGED <<held, reqVars>>

-----------------------------------------------------------------------------
\* Some deployment with at least one administrator.
RosterInit ==
    /\ held \in [Users -> SUBSET Roles]
    /\ status \in [Users -> Statuses]
    /\ Administrators # {}
    /\ pc = [r \in Requests |-> "idle"]
    /\ kind = [r \in Requests |-> "replace"]
    /\ target \in {[r \in Requests |-> u] : u \in Users}
    /\ want = [r \in Requests |-> {}]
    /\ seen = [r \in Requests |-> {}]
    /\ locks = [r \in Requests |-> {}]
    /\ checked = [r \in Requests |-> FALSE]

Step(r) ==
    \/ \E u \in Users, roles \in SUBSET Roles : ReplaceStart(r, u, roles)
    \/ \E u \in Users : DeactivateStart(r, u)
    \/ ReadRoles(r)
    \/ CountStart(r)
    \/ CountLock(r)
    \/ DeleteStart(r)
    \/ ReplaceCommit(r)
    \/ DeactivateCommit(r)
    \/ DeactivateRefused(r)
    \/ Abort(r)

RosterNext ==
    \/ \E r \in Requests : Step(r)
    \/ \E u \in Users : SelfDeactivate(u) \/ Reactivate(u)

RosterSpec == RosterInit /\ [][RosterNext]_adminVars

-----------------------------------------------------------------------------
\* Every variable has its type: roster, and what the requests remember.
RosterTypeOK ==
    /\ held \in [Users -> SUBSET Roles]
    /\ status \in [Users -> Statuses]
    /\ pc \in [Requests -> PCs]
    /\ kind \in [Requests -> Kinds]
    /\ target \in [Requests -> Users]
    /\ want \in [Requests -> SUBSET Roles]
    /\ seen \in [Requests -> SUBSET (Users \X Roles)]
    /\ locks \in [Requests -> SUBSET Users]
    /\ checked \in [Requests -> BOOLEAN]

\* What count_active_admins_excluding promises its callers: from the count to
\* the COMMIT of a request that passed the last-administrator check, whatever
\* other requests, self-service deactivations and logins commit meanwhile,
\* an active administrator other than the target remains.
CountStaysTrue ==
    \A r \in Requests : checked[r] => ActiveAdmins \ {target[r]} # {}

\* Locked rows stand still: while a transaction holds its FOR UPDATE locks,
\* every user it counted is still an active administrator, also against the
\* endpoints that check nothing (self-deactivation, unchecked replacement).
LockedStayAdmins ==
    \A r \in Requests : locks[r] \subseteq ActiveAdmins

\* FR-7 of US-3.2 and FR-16 of US-3.1: a role replacement or a deactivation
\* by an administrator never leaves the portal without one, only
\* self-deactivation may.
GuardedEndpointsKeepAnAdmin ==
    [][Administrators # {} /\ Administrators' = {} =>
         \E u \in Users : SelfDeactivate(u)]_adminVars

\* FR-1 of US-3.2, "a full replacement": the role set a committed PUT leaves
\* is the one it asked for, whatever other PUTs ran beside it.
ReplacementIsFull ==
    [][\A u \in Users : held'[u] # held[u] =>
         \E r \in Requests :
            target[r] = u /\ pc[r] = "delete" /\ held'[u] = want[r]]_adminVars

\* FR-14 of US-3.1: already-deactivated is the answer for a target whose
\* status is already "deactivated".
RefusedAreDeactivated ==
    [][\A r \in Requests :
         DeactivateRefused(r) => status[target[r]] = "deactivated"]_adminVars

=============================================================================
