# Customer portal: TLA+ models, model checking and proofs

The portal is a FastAPI backend (`src/app`, PostgreSQL at READ COMMITTED and
Valkey) with a React frontend (`src/frontend`) and a few cron scripts
(`src/scripts`). Several processes serve HTTP requests at the same time; a
request is a sequence of SQL statements in one or more transactions, with
single Valkey commands before, between and after them. There is no lock in the
application: what protects the data are row locks, conditional UPDATEs, `SET NX`
and the order of the statements. This directory models that layer.

## 1. Inventory

`U` is `app/modules/users/service.py`, `UR` its repository.

| Component | State | Operations | What makes it correct |
|---|---|---|---|
| Sessions and refresh tokens (`users`) | `refresh_tokens`, `user_sessions`; `revoke_before:{user}` in Valkey | login with live-session cap, rotation, reuse detection with a grace window, logout, session revocation, logout-all | a token is rotated once; revocation is final; the cap evicts the oldest family |
| Access tokens and permission epoch (`users`, `core/revocation_cache.py`) | JWT with scopes; `perm_epoch:{user}`, `user_sessions.revoked_at` per `jti` | mint, check on every request, announce a role change | old scopes stop being accepted, new ones are picked up |
| Roles, admin users, account (`roles`, `admin_users`, `account`) | `user_roles`, `users.status`, invitation tokens | replace roles, deactivate (by admin or self), reactivate by login, invite and resend | an administrator always remains; a replacement is a replacement |
| Support tickets (`support`) | `tickets`, `ticket_replies`, audit entries | create, reply, note, assign, resolve, close, reopen, auto-close job | the status machine holds for every interleaving; windows are kept |
| Ticket creation idempotency (`support/cache.py`) | one envelope per (customer, key) in Valkey | claim, poll, resolve, release, expiry | one ticket per key; a replay returns that ticket |
| Attachments (`support`) | `attachments.ticket_id`, `.ticket_reply_id` | bind to a ticket or reply, purge of unbound rows (there is no upload endpoint yet) | a binding is exclusive, final and all-or-nothing; bound rows survive |
| Rate limits, login throttling (`users/cache.py`, `support/cache.py`) | counters with a TTL | INCR + EXPIRE, lockout | requests that race between check and increment pass the limit by no more than their number |
| MFA (`users`) | encrypted secret, recovery codes; `mfa_token`, used steps, attempts in Valkey | enrol, activate, verify, disable | a step or a recovery code completes one login; the attempts are bounded |
| Password reset (`users`) | `password_reset_tokens`, cooldown key | request, confirm | single use; a later request ends the tokens that were live before it; every older session ends |
| Registration, email verification, invitations | `users`, verification and invitation tokens | register, create, verify, resend, purge | a token acts once, on its own account; the purge takes no new account |
| Profile (`profile`) | profile columns, `pending_email`, change tokens | PATCH under `If-Match`, email change, confirm | a pending address can be confirmed; addresses stay unique |
| Audit log (`audit`) | a hash chain of events | append, list, verify, anonymise | the chain does not fork, and the verifier points at what was tampered with |
| Paged lists (`support`, `admin_users`, `audit`) | a cursor in the client's hands | five keyset-paginated GETs | paging while others write neither repeats nor skips a row |
| Frontend API client and session | the access token in memory, one pending refresh | request, refresh once, retry, logout | one refresh at a time, no retry loop, no session after logout |

Interactions. Role changes, deactivation, logout-all, password reset and MFA
changes all write Valkey keys that `get_authenticated_user` and
`rotate_refresh_token` read. Login calls `account.reactivate_account`, which
commits on its own. `admin_users` and `roles` share the last-administrator
count. `create_ticket` uses idempotency, rate limits and attachments; replies
use attachments and the status machine. Every mutation writes audit entries in
its own transaction.

Hard behaviours. A handler reads a row, awaits several times, and writes
later; a commit in PostgreSQL and a write to Valkey are two steps, with a crash
possible between them; keys expire while rows live on; two SETs of one key may
arrive in the other order; cron jobs race with requests; a commit may succeed
and still raise. `PROJECT.json` lists the hazards with their lines.

## 2. Plan

Modelled, in the order in which the behaviour matters: sessions and refresh
tokens; tickets with idempotency and attachments; administrators, roles and the
permission epoch; login with its second factor; the tokens mailed for an
account; the audit chain; the paged lists. `SingleUseChain` is the abstract
specification of refresh-token rotation.

Every safety property a passing run checks is a theorem too (section 5). Next:
`revoke_before` against the commit of a new password, for which `SessionTokens`
needs passwords; the frontend's refresh coordinator against `SessionTokens`;
and theorems that say how far the refuted claims of section 6 do hold. One run
per module, and a run for a disagreement with the documents only where it
matters most.

## 3. Modules and how they correspond to the code

`PROJECT.json` maps every definition to its lines. Operators whose comment says
*Mutant*, or whose name ends in the changed detail, are faulty variants of the
definition after them; the specification never uses them.

**Conventions.** `Requests` are the requests in progress at one time; `pc` says
which statement a request executes next, and further variables hold what it
remembers between statements. `READ COMMITTED` is modelled by its effect: a
statement sees what is committed when it starts, a waiting UPDATE or
`SELECT ... FOR UPDATE` evaluates its condition again on the newest version of
the rows it started with. `now()` of a transaction is its start. A refused
request ends; status codes, wording, audit text and mails are left out. A
crash (`Crash`, `Abort`) may hit between any two steps and rolls back what was
not committed. The application and the database share one clock.
Where a module has a `MaxDuration`, no request runs longer; it is the only timing
assumption on requests, and the proofs hold for every value of it that meets the
module's assumptions. `AccountTokens`, `LoginMfa`, `AuditChain` and the others
without that constant assume nothing of how long a request takes.

**SessionTokens** (with `SingleUseChain`, its abstract specification). One row
stands for a `refresh_tokens` row and the `user_sessions` row inserted with it.
Login is `LoginStart`, `Reactivate`, `LoginSnapshot`, `LoginLock`, `LoginCount`,
`EvictLock` and `LoginCommit` (eviction, insert, commit); rotation is
`RotateStart`, `RotateCheck`, `RotateConsume` (the UPDATE on `consumed_at IS NULL`)
and `RotateCommit`; logout, session revocation and reuse detection share
`RevokeSnapshot`, `RevokeLock` and `RevokeCommit`. A statement over several rows
fixes them in its snapshot and then locks them one at a time in any order, since
no statement has an ORDER BY; two of them can wait for each other in a circle, and
the victim PostgreSQL chooses is a `Crash`. `LogoutAllStart` and `DeactivateCommit`
lead to `Stamp`, which reads the clock, and later to `SetRevokeBefore`, so that
rotations and other SETs fall between the two and SETs arrive out of order. An
access token's `exp` is computed after the commit, so `AccessAccepted` counts its
life from the latest moment a request can encode it. Abstracted: the password,
email and MFA gates before a login (a login starts once they are passed), single
access tokens revoked by `jti`, the refresh rate limit, and the thirty-day limit
of reactivation, which is a nondeterministic answer.

**Tickets**. The columns of `tickets` the transitions use, `entry` for the
audit event of the last step, and per request what its handler read
(`seen`, `seenAssignee`, `unanswered`) and uses later. An UPDATE holds its row
lock to the commit, so UPDATE, audit entry and commit are one action.
`ReplyCommit` is the whole of `create_reply` after its read; `ReplyFails` is the
IntegrityError of the CHECK constraint. `AutoClose` is the daily script.

**TicketIdempotency**. The envelope of each key with its expiry, and ghost
variables recording for which key, body and claim each ticket was made.
`CommitUnacknowledged` is a commit that succeeds and raises; `orphaned` records the
keys whose claimant died. The keys of different customers never meet, so the model
has one customer.

**AdminRoster**. `user_roles`, `users.status` with the value
`PENDING_VERIFICATION` that registration writes and verification leaves, and the
two guarded endpoints with their FOR UPDATE count; self-deactivation and
reactivation run beside them without a check. `seen` is the set of rows an open
statement started with. Only the admin role carries `roles:write` and
`users:write` (migration `e50fbe8161fc`), so the privilege-escalation refusal
never meets an administrator and is left out; so are invited users.

**PermissionEpoch**. One user's tokens and role changes. `MintStart`,
`MintReadScopes` and `MintEncode` are the three instants that matter in a login
or refresh (`issued_at`, the scopes, `exp`); `ChangeCommit`, `ChangeStamp` and
`ChangeAnnounce` those of a role change, stamp and SET being separate so that SETs
can be reordered. Activating MFA announces itself in the same way.

**Attachments**. The two binding columns, the requests that bind, and the purge
as its two statements. Validation is one read, since every bind tests the row
again; ids are bound in any order. Bytes and quotas are left out.

**AccountTokens**. One `users` row (`gen` is its id), the addresses of the other
accounts, and the four token tables as one function: a token is of a kind,
belongs to a `gen`, was mailed `to` an address, and is live, spent, void or gone
with its row. `Register` and `CreateUser` commit the row before the token
(`IssuePending`, which may fail). `request_password_reset` is `ResetRequest` (the
cooldown key), `ResetFind` (the account and the snapshot of the UPDATE that
invalidates), `Invalidate` and `IssuePending`; `resend_invite` is `ResendInvite`
(the cooldown check), `ReadPrior`, `Invalidate` by id and `IssuePending`. An
`Invalidate` waits for the locks of others and reaches the tokens its statement
started with, so a token issued since escapes it; `replaced` records which tokens
a new one was to replace. Nothing keeps a request from outliving its cooldown.
`ReadToken`, `Consume` and
`ApplyVerify`, `ApplyReset` or `ReadPending` and `SwapEmail` are the three
confirmations; `PurgeFind` and `DeleteUser` the two statements of the purge,
whose cascade waits for token rows others have locked. `Lower` is Python's
`lower()`; what the profile stores is the address as typed. The hourly limits of
a reset, and its refusal to a deactivated account, are one nondeterministic
refusal. Accepting an invitation is no endpoint yet, so an invitation is issued
and invalidated only. Passwords, and the sessions that a confirmation revokes,
are left out.

**LoginMfa**. The MFA columns of one account, its recovery codes, the Valkey
keys with their expiry, and requests that work on the row they read first. One
unit of time is a TOTP step of 30 s. A code is abstracted to its secret and step.
`LoginIp`, `LoginAccount`, `WrongPassword`, `CountAccount`, `CountIp`,
`IssueMfaToken`, `PasswordLogin` and `ResetAccountFailures` are
`authenticate_user` in its order; `VerifyRead` to `CompleteMfaLogin` is
`verify_mfa`, where `VerifyTotp` reads the clock and `MarkStep` is the SET NX, by
which time the code may be too old. A request may end early anywhere: in `Refuse`
(the deactivation and verification gates, and failures that no bound depends on),
in `GuessFails` before a wrong password is counted, and in `AttemptFails` when the
counter or the commit of the audit row after it fails, which leaves the mfa_token
alive. `failed` counts the last two, and the bounds are stated with it. `late` are
the steps marked so long after the check that an earlier mark may be over
(`MfaTtl - 2` steps, four minutes with the code's settings); `StepLogsInOnce`
exempts them, because then the code does accept a second login. The session a login opens is the subject of
`SessionTokens`. The role behind `privileged` does not change, and its grace
period is over.

**AuditChain**. The columns of `audit_log`, the transactions that append to it
with the ticket rows they hold, the advisory lock, and tampering by one UPDATE of
one column or one DELETE. Of the columns there are those the hash covers (`event`
for all content, `occurred_at`), the two that hold hashes, and `outcome` for the
six that `audit_log_row_hash` leaves out (outcome, ip, user_agent, actor_role,
category, request_id). Rehashing a changed row and all rows after it is not among
the tampering: no hash chain without a secret would show it. `Link` is the trigger; hashes are nested tuples, so equal hashes mean
equal content. `VerifyChain` is the verifier as a function of the table.
`inOrder` is a history variable: every row so far sorts after the rows it was
appended to.

**KeysetLists**. One list, chosen initially, with a filter; a client that pages
through it; writers whose timestamp is the start of their transaction. A list's
WHERE clause is an operator of its own; conditions no writer changes
(requester, visibility under row-level security, time window) are `matches`. The
request for a page of the audit log adds a row to the table it reads.

## 4. Runs

Model checking asks about small instances; the bounds are in the `.cfg` files.
The type invariant is a theorem in every module (section 5); the runs of the
four modules with the richest records check it as well.

| Run | Checks | Instance and why it is enough |
|---|---|---|
| `session_tokens` | `SingleUse`, `RevokeBeforeIsFinal`, `NewestIsUnconsumed`, `SurvivorsPredateRevocation`, `RotationsNeverDeadlock`, `ImplementsChain` | one user, three tokens, two requests, four instants, cap 1: two families or a family of three, every login evicts, a rotation races each other operation, two SETs cross, and two statements lock two rows in opposite orders (916,399 states). With five instants `revoke_before` lives to expire as well (3,464,116 states, no error; not part of the run for its length) |
| `tickets` | `ConstraintsHold`, `AnsweredIsStamped`, `ClosedIsTerminal`, `ReopensWithinWindow`, `ResolvedTicketsLeave` | one ticket (tickets do not interact), one agent, two requests, window 1 in four instants, so that a ticket can be resolved, reopened, resolved again and become overdue |
| `ticket_idempotency` | `DuplicatesOnlyAfterLostAck`, `ReplayIsSound`, `ClaimIsExclusive`, `StuckOnlyAfterCrash`, `ClaimsSettle` | one key (keys do not interact), two bodies, two tickets, two requests, TTL 2 in five instants: a key can be claimed, expire and be claimed again. `ClaimsSettle` rests on the TTL, the release after a failure is `StuckOnlyAfterCrash` (346,183 states) |
| `admin_roster` | `CountStaysTrue`, `LockedStayAdmins` | three users with any roles and statuses that include an administrator, two requests: target, witness and a bystander |
| `permission_epoch` | `OldTokensAreRefused`, `RefreshPicksUpChange` | two tokens, two changes, TTLs 2 in six instants: the SETs cross, and the key expires before and after a token |
| `attachments` | `AllOrNothing`, `BoundOnce` | two attachments, three requests, two tickets: two binders and the reply that needs a ticket |
| `account_tokens` | `TypeOK`, `SpentIffApplied`, `ReplacedStayDead`, `PendingHasToken`, `PurgeSparesNewAccounts`, `TokensFollowTheirAccount` | one account registered twice, one address in two spellings, three tokens, two requests, two instants: two uses of a token, two resets that overlap, a third that meets what they left, a second change while the first is pending, a purge whose victim registers again (2,196,028 states) |
| `login_mfa` | `TypeOK`, `BoundedGuesses`, `BoundedTries`, `StepLogsInOnce`, `RecoveryCodeLogsInOnce` | two requests at a time and five in all, thresholds 2 and 3, two mfa_tokens, three instants: both requests pass a threshold together, counters expire, requests fail between check, count and invalidation, and a code is offered again in the last step in which it is accepted, through another token (3,735,179 states). With a fourth instant a used-step mark expires too (8,892,164 states, no error; not part of the run for its length) |
| `audit_chain` | `TypeOK`, `OrderedChainIntact`, `TamperingLocated`, `WritersFinish` | two transactions at a time, two tickets, three rows, two instants: the auto-close job's two rows and another row between, before or after them, and each of five columns altered in each of them (400,196 states) |
| `keyset_lists` | `ListTypeOK`, `NoRepeat`, `NoSkip` | each of the five lists with three rows and two more for the requests that record themselves, pages of one or two, two writers, two instants: ties at the end of a page and rows committed late |
| `email_uniqueness` | violation of `EmailIsUnique` | see section 6 |
| `audit_chain_broken` | violation of `UntamperedChainIntact` | see section 6 |

Where the clock stops at `MaxTime`, or all tokens or requests are used up, the
model comes to rest, so these runs do not look for deadlock; who waits for whom is
what `RotationsNeverDeadlock` and `WritersFinish` are about. `AdminRoster` and
`Attachments` have no such end and are checked for deadlock too. Symmetry is used
in safety runs only.

**Fairness.** A request that has begun takes its next step (weak fairness on
`Step(r)`): the event loop runs every ready coroutine and no handler waits for
another. In `AuditChain` a transaction's steps, which wait for ticket rows or for
the advisory lock, get strong fairness: PostgreSQL queues the waiters of a lock, so
newcomers cannot overtake one for ever; nothing is assumed about rollbacks.
`SessionTokens` assumes no fairness: its requests can deadlock (section 6), and that
rotations take no part in it is stated as an invariant. The auto-close job and time are weakly fair: the job is a daily
cron line. No fairness is assumed of new requests, of crashes, or of clients
coming back; `ClaimsSettle` and `ResolvedTicketsLeave` hold although a claimant may
die and a customer may never return.

## 5. Proofs

TLAPS checks these for every number of users, tokens, tickets, rows, keys and
concurrent requests, and all settings that meet the named assumptions. In every
module the argument is: an inductive invariant holds initially, each action
preserves it (one step per action), and it implies the property.

`RoleProofs` is about two modules that share no state, `PermissionEpoch` and
`AdminRoster`, and so is `RowProofs`, about `Attachments` and `KeysetLists`; that
is why the parts of `AdminRoster` and `KeysetLists` that every specification has
are called `RosterInit`, `RosterSpec`, `ListInit`, `ListSpec` and so on.

| Module | Theorems | Inductive invariant, and why the property alone is not enough |
|---|---|---|
| `SessionTokensProofs` | `TypeCorrect`, `RotationIsSingleUse`, `NewestRowIsUnconsumed`, `RevokeBeforeFinal`, `SurvivorsPredate`, `RotationsDoNotDeadlock`, `Refinement` | `CoreInv`: a rotation about to commit holds the lock of its token, which is unconsumed, so two of them cannot be on one token, and a rotation's start is not before its token's `issued_at`. `FinalInv`: a row younger than `revoke_before` belongs to a family that is younger too, or to one rotated between a stamp and its SET, whose key then outlives its tokens; the same of the row a rotation in flight is about to insert. `SurvivorInv`: a rotation of a revoked family began before the revocation committed, or found a row that such a rotation left. `HoldInv`: a rotation that waits holds no row. |
| `TicketsProofs` | `TypeCorrect`, `Constraints`, `Stamping`, `Terminal`, `WindowKept` | `RequestInv` says what a handler still knows of a row it read earlier: a reply that saw the ticket unresolved and meets it resolved began before the resolution, which bounds how late it may reopen. |
| `TicketIdempotencyProofs` | `TypeCorrect`, `Idempotent`, `Replays`, `Claims`, `FailuresRelease` | `HoldInv`: a claimant's envelope is its own and outlives it (`MaxDuration < Ttl`); `CoverInv` and `ClaimInv`: an acknowledged ticket's window is covered by an envelope, so a new claim on the key begins after it. `OrphanInv`: an envelope without a ticket is held or orphaned, also after it has expired. |
| `RoleProofs` (roster) | `RosterTypeCorrect`, `CountIsStable`, `LockedRowsStandStill`, `CheckedRemovalsAreSafe` | A request that passed the check holds the lock of a witness other than its target (`CheckedHoldsWitness`), and locked users stay active administrators. |
| `RoleProofs` (epoch) | `TypeCorrect`, `OldTokensStayRefused`, `RefreshIsCurrent` | `EpochInv`: however SETs are reordered, the stored epoch is less than a request's duration behind the newest announced one and its key outlives the newest stamp by the TTL; `ExpiryInv` bounds the life of a token. It needs `AccessTtl <= EpochTtl`. |
| `RowProofs` (attachments) | `TypeCorrect`, `RequestsAreAtomic`, `BindingsAreFinal` | `BindingsAreCommitted` and `CommittedAreBound` tie bindings to requests that ended well; `OpenUpdates`: what an open request has updated is still unbound in that column, and no other open request has it. |
| `RowProofs` (lists) | `ListTypeCorrect`, `RowsAreServedOnce`, `RowsAreNotSkipped` | `PlaceInv`: while the client holds a cursor, the rows that kept their place are served and not after the cursor, or are still in the list and after it. Lemmas about the page itself: it is a beginning of the sorted rows, all of them when they are not more than the limit (`PageFacts`), and it has a last row, which is what `next_cursor` is made of; the least and greatest row come from well-foundedness of the natural numbers, since induction over the rows is out of reach. |
| `LoginMfaProofs` | `TypeCorrect`, `GuessesAreBounded`, `TriesAreBounded`, `StepsLogInOnce`, `CodesLogInOnce` | The bounds need the requests in flight: `GuessInv` and `TryInv` count a wrong answer as soon as it was given, give each request that passed the check one of the guesses left, and credit each request that failed before it could count or lock. `StepInv` and `CodeInv`: one request at most is about to complete a login with a step or a code, then no login was completed with it, and a step stays marked until another mark would be overdue. |
| `AccountTokensProofs` | `TypeCorrect`, `TokensApplyOnce`, `ReplacedTokensStayDead`, `PendingCanBeConfirmed`, `PurgeIsSafe`, `TokensActOnTheirAccount` | `LockInv` and `ApplyInv`: who applies a token holds its row lock, and the token is live and of the right kind; `LiveInv`: the tokens that exist are those of the account that exists, which the cascade of a deletion keeps true; `PurgeInv`: an account the purge found is gone or the same, old one; `PriorInv`: the tokens a request is to replace were issued before, are of its kind while they live, and are locked by it from its UPDATE to its commit, so that none of them is used or lives on when the new one is issued. |
| `AuditChainProofs` | `TypeCorrect`, `ChainIsIntact`, `TamperingIsLocated` | `OwnHash`, of every chain: exactly the rows changed in a covered column fail to carry the hash of their own content, which is why such a change cannot go unseen. `PrefixInv`, of a chain written in order and unless `occurred_at` was changed: the rows before a changed one stay linked and new rows come after it, so that the verifier stops exactly there. `ChainInv`, as long as rows were inserted in order: every row carries the hash of the row before it (`Linked`) and of its own content (`Hashed`), no two hashes agree (`Distinct`), and rows that are not committed sort after all others (`Ordered`), so that a rollback cuts them off without a gap. `PendingInv`: they belong to the holder of the advisory lock. A deleted row stays in the invariant as a link: the row after it is the one `verify_chain` stops at. |

`Refinement` shows that the rows of `SessionTokens` implement `SingleUseChain`: a
token enters a family only by a login or by the one rotation that spends its
predecessor.

Assumptions: `SettingsAssumption` (`Idle + MaxDuration < RefreshTtl`, `AccessTtl <=
RefreshTtl`; the code has 14 days, 30 days and 900 s), `WindowAssumption`
(`MaxDuration <= Window`, seven days), the `SettingsAssumption` of the idempotency
module (`MaxDuration < Ttl`, 24 hours), `TtlAssumption` (`AccessTtl <= EpochTtl`, both
900 s), `AdminAssumption`, `LoginAssumption` (thresholds and windows are positive and
`MfaTtl >= 3`, as the code's five minutes are more than the three steps in which a
code is accepted), `AccountAssumption` (`lower()` is idempotent, TTL and cooldown are
positive), `ChainAssumption` and `ListAssumption` (row ids are numbers, as uuids are
ordered), and that `None` is none of the values it stands beside. That `sha256` is
injective is part of `AuditLogRowHash`, not an assumption of a theorem.

Only model-checked: the liveness properties (`ResolvedTicketsLeave`, `ClaimsSettle`, `WritersFinish`), since temporal reasoning
with fairness is outside what the prover does.

## 6. Where code and documents disagree

With a run of its own:

- **`UntamperedChainIntact`**. Transaction A begins, B begins, inserts its row and
  commits, A inserts: A's row is linked to B's but sorts before it, because
  `occurred_at` is the start of the transaction. The verifier then reports a break
  although nobody touched the table. The auto-close job meets this on its own:
  its rows have one `occurred_at` and sort by random ids. What the advisory lock
  does guarantee is `OrderedChainIntact`.
- **`EmailIsUnique`**. A customer changes the address to `A`, the token confirms it,
  and `A` is stored as typed; somebody registers `a`, which the case-sensitive
  constraint takes for another address. Rule BR-001 says the comparison is
  case-insensitive.

Stated in the modules and refuted by them. To see a trace, put the property into
a copy of the module's `.cfg`:

- **`RevocationIsFinal`**. A rotation reads its token, a revocation of the family
  commits, the rotation consumes (its guard is `consumed_at` alone) and inserts an
  unrevoked successor, which can be rotated on. What does hold, and is proved, is
  `SurvivorsPredateRevocation`: whatever is still alive descends from a rotation that
  was running when the revocation committed.
- **`RevokeBeforeReachesAll`** (SessionTokens). `revoke_before` is stamped with
  `datetime.now()` and written by an awaited SET (`core/revocation_cache.py:29-32`). A
  rotation that begins after the stamp and checks before the SET inserts a row with
  an `issued_at` beyond the stamp, and the family lives on; so does one rotated after
  a later stamp whose SET is overtaken by an earlier one's. These are the exceptions
  that `RevokeBeforeIsFinal` names; everything else is proved to end.
- **`NoDeadlock`** (SessionTokens). A login's FOR UPDATE and the UPDATE of a
  revocation lock the rows of one user row by row, without an ORDER BY, and can wait
  for each other; PostgreSQL then aborts one of the two. `RotationsNeverDeadlock` says
  that a refresh is never the victim.
- **`AlterationsAreReported`** (AuditChain). US-3.3 (FR-7, AU-AC7) and
  `scripts/verify_audit_chain.py:10-11` say a row whose fields were altered is
  reported; `audit_log_row_hash` (migration `57a978462b74`, lines 89-107) leaves out
  six columns, and a change of one of them is not. `TamperingLocated` states both
  halves: every covered column is reported, at the changed row when the chain was
  written in order; an uncovered one is reported nowhere.
- **`OneLiveReset`** (AccountTokens). US-2.4 FR-1 and the docstring at
  `users/repository.py:166` promise one live reset token per account. Two requests
  for two spellings of the address, or one that outlives its cooldown, each
  invalidate what was there when their UPDATE began and then issue, and both tokens
  live. The next request ends both (`ReplacedStayDead`).
- **`ReopensAreAudited`**. A reply that read the ticket before it was resolved
  takes it out of `resolved` by an unconditional UPDATE, without an audit entry.
- **`GuardedEndpointsKeepAnAdmin`**. The decision to count administrators rests
  on an unlocked read; a grant that commits afterwards makes the uncounted
  removal take the last one. The count itself is sound (`CountStaysTrue`).
- **`RefusedAreDeactivated`**. An administrator cannot deactivate a registered,
  verified user: the guard wants status `active`, which only a reactivating login
  writes.
- **`ReplyAttachmentsAreKept`**. The purge tests `ticket_id` alone and deletes the
  attachments of replies after a day.

- `LoginsSerialize` (SessionTokens): with no live row there is nothing to lock, so
  two first logins count at the same time (comment at U:481).
- `NoCheckConflict` (Tickets): a reply racing a close trips over the CHECK
  constraint and ends in an IntegrityError; `support/models.py:53` says the
  constraint never conflicts with a later update.
- `StampedOnce` (Tickets): two first replies both stamp `first_response_at`
  (`support/models.py:122`).
- `OneTicketPerKey` (TicketIdempotency): a commit that succeeds and raises releases
  the key (US-4.1-spec.md:216).
- `ReplacementIsFull` (AdminRoster): two concurrent PUTs leave the union of their
  role sets (US-3.2-spec.md:22).
- `StaleTokensAreRefused` (PermissionEpoch): a token with scopes read before a
  change and encoded after it outlives the epoch key by that delay
  (US-3.2-spec.md:28).
- `TicketAttachmentsAreKept`, `OneTicketPerAttachment` (Attachments): the purge
  deletes by id what a ticket has bound since its scan, and an attachment of one
  ticket can be bound to a reply of another (US-4.1-spec.md:135,
  US-4.2-spec.md:167).
- `ConfirmedAddressWasMailed` (AccountTokens): two changes are pending in turn, and
  the token mailed to the first address installs the second (US-1.3-spec.md, UP-AC10).
- `NoLostUpdate` (AccountTokens): two PATCHes with one `If-Match` both commit; the
  ETag is compared with a row read before and the UPDATE has no condition.
- `PurgedWereUnverified` (AccountTokens): an account verified between the two
  statements of the purge is deleted.
- `OneLiveInvitation` (AccountTokens): a resend between the commit of a new user
  and the issue of its invitation finds no token to invalidate; two resends at once
  both invalidate the same one.
- `ErasedStaysErased` (AccountTokens): the erasure leaves `pending_email` and its
  token, and a confirmation afterwards installs the address.
- `MfaTokenLogsInOnce` (LoginMfa): the answer of GETDEL is ignored (U:1510), so two
  valid codes shown with one mfa_token both log in; `users/cache.py:168` says they
  never do.
- `EnrollmentKeepsActiveSecret` (LoginMfa; try `MaxSecrets = 2`): enrolling again
  overwrites the secret of an active enrolment, while the comment at U:1297 says
  an unfinished enrolment can never lock the user out.
- `ActivatedSecretWasShown` (LoginMfa): an activation that read the secret before a
  disabling commits leaves MFA enabled with no secret.
- `ActivationLiftsScope` (LoginMfa): a login with a recovery code between the read
  of an activation and its commit leaves a scoped token that nothing announces
  stale.
- `QueuedTicketsAreSeen` (KeysetLists): the queue is ordered by `updated_at`, the
  start of the last writing transaction; a reply that began before the cursor's
  time moves an unseen ticket behind the cursor.
- `LimitsAreRefused` (KeysetLists): `limit=0` passes the upper-bound check of the
  users and the audit list and ends in an IndexError; US-3.1-openapi.yaml:43
  promises 422.

Not properties of a model, but seen on the way: a login completed by MFA does not
reset the account's failure counter (U:1380), recovery codes of earlier
activations stay valid beside the new ones (UR:263), and a code used to activate
or to disable is not marked used. `audit_log.actor_role` holds 32 characters and
is written with all role names joined (`audit/service.py:93`).

## 7. Not modelled

- **Access tokens revoked one by one** by `jti`, and `revoke_other_sessions` after an
  address change: a column of `user_sessions` that only the check of an access
  token reads.
- **`update_user`** of the administrators, and the editable profile columns: plain
  columns under the same `If-Match` test as `pending_email`.
- **The refresh, ticket, reply and hourly limits**: one INCR before a request;
  where a limit can refuse a modelled request it is a nondeterministic refusal.
- **`revoke_before` of a password reset** against the commit of the new password:
  the models of sessions and of passwords are apart.
- **The thirty-day limit of reactivation**, which is a nondeterministic answer.
- **The frontend**: within one tab the single-flight refresh is one shared promise
  set before any await; several tabs are concurrent rotations, which
  `SessionTokens` has. Screens and hooks hold no protocol state of their own.
- **Migrations** run once; their constraints, triggers and policies are in the
  modules that meet them. Routers, settings, cryptography, mail and geolocation
  adapters are stateless, and the settings that matter appear as constants.
  `scripts/validate_harness.py` checks the repository's documents, not the portal.
