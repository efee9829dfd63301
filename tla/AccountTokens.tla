---------------------------- MODULE AccountTokens ----------------------------
(***************************************************************************)
(* One users row and the tokens mailed for it: the verification of the     *)
(* address, the change of the address, the reset of the password and the   *)
(* invitation; with registration, the purge of unverified accounts and the *)
(* erasure of an account, while other people register addresses.           *)
(*                                                                         *)
(* A request is a transaction, cut where another transaction can come      *)
(* between: after what it reads, and after an UPDATE whose row lock it     *)
(* holds until it commits.  gen is the id of the users row: a person who   *)
(* registers again after a purge has another one.                          *)
(***************************************************************************)
EXTENDS Naturals, FiniteSets

CONSTANTS
    Requests,
    Emails, Lower,  \* addresses as typed, and their lower-case forms
    Erased,         \* the address of an erased account
    None,           \* no address, no lock holder
    MaxTokens,      \* bound: tokens issued
    MaxGen,         \* bound: how often the account is registered
    MaxTime,        \* bound: the clock stops here
    TokenTtl,       \* verification_token_ttl_hours and the like
    Cooldown,       \* password_reset_cooldown_seconds, resend_cooldown_seconds
    PurgeAfter      \* unverified_account_purge_after_days

ASSUME AccountAssumption ==
    /\ Lower \in [Emails -> Emails]
    /\ \A e \in Emails : Lower[Lower[e]] = Lower[e]
    /\ {Erased, None} \cap Emails = {} /\ Erased # None
    /\ None \notin Requests
    /\ MaxTokens \in Nat /\ MaxGen \in Nat \ {0} /\ MaxTime \in Nat
    /\ TokenTtl \in Nat \ {0} /\ Cooldown \in Nat \ {0} /\ PurgeAfter \in Nat

VARIABLES
    now,
    account,        \* the users row; gen 0 when there is none
    gens,           \* ids drawn so far
    taken,          \* addresses in the users rows of other people
    token,          \* the token tables
    lock,           \* the transaction that holds a token's row lock
    cooldown,       \* when the Valkey key of a reset cooldown expires
    request,
    applied,        \* history: how often a token took effect
    replaced        \* history: the tokens the issuer of a token was to void

history == <<applied, replaced>>
vars == <<now, account, gens, taken, token, lock, cooldown, request, history>>

Time == 0 .. MaxTime
Tokens == 1 .. MaxTokens
Kinds == {"verify", "change", "reset", "invite"}

NoAccount == [gen |-> 0, email |-> None, pending |-> None, verified |-> FALSE,
              invited |-> FALSE, created |-> 0]

\* A token is unissued, live, spent by its use, void (invalidated by a
\* newer one), or gone with its account.
NoToken == [state |-> "unissued", kind |-> "verify", gen |-> 0, to |-> None, issued |-> 0]

\* prior are the tokens a request is to invalidate before it issues one.
Idle == [pc |-> "idle", kind |-> "verify", gen |-> 0, mail |-> None, token |-> 0,
         seen |-> None, prior |-> {}]

Exists == account.gen # 0
Free(r) == request[r].pc = "idle"

-----------------------------------------------------------------------------
(* Steps shared by the requests.                                           *)

Goto(r, q) == request' = [request EXCEPT ![r] = q]
Done(r) == Goto(r, Idle)

\* The lock table and the tokens after transaction r has ended.
Unlocked(r) == [t \in Tokens |-> IF lock[t] = r THEN None ELSE lock[t]]

Issuable == \E t \in Tokens : token[t].state = "unissued"

\* create_token and its likes: the foreign key wants the users row, and a
\* token this transaction has locked to invalidate it is void from now on.
Issue(r, kind, gen, to) ==
    LET t == CHOOSE u \in Tokens : /\ token[u].state = "unissued"
                                   /\ \A v \in 1 .. u - 1 : token[v].state # "unissued"
    IN  /\ Issuable
        /\ account.gen = gen
        /\ token' = [u \in Tokens |->
             IF u = t THEN [state |-> "live", kind |-> kind, gen |-> gen,
                            to |-> to, issued |-> now]
             ELSE IF lock[u] = r THEN [token[u] EXCEPT !.state = "void"]
             ELSE token[u]]
        /\ lock' = Unlocked(r)
        /\ replaced' = [replaced EXCEPT ![t] = request[r].prior]

\* ROLLBACK: an error, a lost race, a lost connection, a deadlock.
Fail(r) ==
    /\ ~Free(r)
    /\ Done(r)
    /\ lock' = Unlocked(r)
    /\ UNCHANGED <<now, account, gens, taken, token, cooldown, history>>

\* The newest token of a kind for this account, or 0.
Latest(kind) ==
    LET S == {t \in Tokens : /\ token[t].kind = kind /\ token[t].gen = account.gen
                             /\ token[t].state \in {"live", "spent", "void"}}
    IN  IF S = {} THEN 0 ELSE CHOOSE t \in S : \A u \in S : u <= t

CoolingDown(kind) ==
    Latest(kind) # 0 /\ now < token[Latest(kind)].issued + Cooldown

-----------------------------------------------------------------------------
(* Registration, invitation and verification.                              *)

NewAccount(e, byAdmin) ==
    [NoAccount EXCEPT !.gen = gens + 1, !.email = Lower[e], !.invited = byAdmin,
                      !.created = now]

\* register_user: the row is committed first, its token issued afterwards,
\* in a transaction that may fail.
Register(r, e) ==
    /\ Free(r)
    /\ ~Exists /\ gens < MaxGen
    /\ Lower[e] \notin taken
    /\ account' = NewAccount(e, FALSE)
    /\ gens' = gens + 1
    /\ Goto(r, [Idle EXCEPT !.pc = "issue", !.gen = gens + 1, !.mail = Lower[e]])
    /\ UNCHANGED <<now, taken, token, lock, cooldown, history>>

\* create_user of an administrator: likewise, with an invitation.
CreateUser(r, e) ==
    /\ Free(r)
    /\ ~Exists /\ gens < MaxGen
    /\ Lower[e] \notin taken
    /\ account' = NewAccount(e, TRUE)
    /\ gens' = gens + 1
    /\ Goto(r, [Idle EXCEPT !.pc = "issue", !.kind = "invite", !.gen = gens + 1,
                            !.mail = Lower[e]])
    /\ UNCHANGED <<now, taken, token, lock, cooldown, history>>

\* issue_pending_token, _issue_invitation and the end of resend_verification
\* and resend_invite.
IssuePending(r) ==
    /\ request[r].pc = "issue"
    /\ Issue(r, request[r].kind, request[r].gen, request[r].mail)
    /\ Done(r)
    /\ UNCHANGED <<now, account, gens, taken, cooldown, applied>>

\* resend_verification up to its INSERT.
ResendVerification(r, e) ==
    /\ Free(r)
    /\ Exists /\ account.email \in Emails /\ Lower[account.email] = Lower[e]
    /\ ~account.verified
    /\ ~CoolingDown("verify")
    /\ Goto(r, [Idle EXCEPT !.pc = "issue", !.gen = account.gen, !.mail = account.email])
    /\ UNCHANGED <<now, account, gens, taken, token, lock, cooldown, history>>

\* resend_invite up to its cooldown and its hourly limit ...
ResendInvite(r) ==
    /\ Free(r)
    /\ Exists /\ account.invited
    /\ ~CoolingDown("invite")
    /\ Goto(r, [Idle EXCEPT !.pc = "resend", !.kind = "invite", !.gen = account.gen,
                            !.mail = account.email])
    /\ UNCHANGED <<now, account, gens, taken, token, lock, cooldown, history>>

\* The live tokens of a kind, and get_latest_unconsumed_invitation_token.
LiveOf(kind, gen) ==
    {t \in Tokens : token[t].state = "live" /\ token[t].kind = kind /\ token[t].gen = gen}
LatestOf(S) == {t \in S : \A u \in S : u <= t}

\* ... which then reads the invitation it is to replace.
ReadPrior(r) ==
    /\ request[r].pc = "resend"
    /\ Goto(r, [request[r] EXCEPT !.pc = "invalidate",
                                  !.prior = LatestOf(LiveOf("invite", request[r].gen))])
    /\ UNCHANGED <<now, account, gens, taken, token, lock, cooldown, history>>

InvalidateSkipLocked(r) ==
    LET live == {t \in request[r].prior : token[t].state = "live" /\ lock[t] = None} IN
    /\ request[r].pc = "invalidate"
    /\ lock' = [t \in Tokens |-> IF t \in live THEN r ELSE lock[t]]
    /\ Goto(r, [request[r] EXCEPT !.pc = "issue"])
    /\ UNCHANGED <<now, account, gens, taken, token, cooldown, history>>

\* The UPDATE that sets consumed_at of the tokens found before waits for
\* their row locks and keeps them until the commit; a row consumed or
\* deleted meanwhile stays what it is.
Invalidate(r) ==
    LET live == {t \in request[r].prior : token[t].state = "live"} IN
    /\ request[r].pc = "invalidate"
    /\ \A t \in live : lock[t] = None
    /\ lock' = [t \in Tokens |-> IF t \in live THEN r ELSE lock[t]]
    /\ Goto(r, [request[r] EXCEPT !.pc = "issue"])
    /\ UNCHANGED <<now, account, gens, taken, token, cooldown, history>>

\* purge_unverified_accounts looks for its candidates ...
PurgeFind(r) ==
    /\ Free(r)
    /\ Exists /\ ~account.verified
    /\ account.created + PurgeAfter < now
    /\ Goto(r, [Idle EXCEPT !.pc = "purge", !.gen = account.gen, !.mail = account.email])
    /\ UNCHANGED <<now, account, gens, taken, token, lock, cooldown, history>>

DeleteUserByMail(r) ==
    /\ request[r].pc = "purge"
    /\ Exists /\ account.email = request[r].mail
    /\ \A t \in Tokens : token[t].gen = account.gen => lock[t] = None
    /\ account' = NoAccount
    /\ token' = [t \in Tokens |-> IF token[t].gen = account.gen /\ token[t].gen # 0
                                  THEN [NoToken EXCEPT !.state = "gone"] ELSE token[t]]
    /\ Done(r)
    /\ UNCHANGED <<now, gens, taken, lock, cooldown, history>>

DeleteUserNoCascade(r) ==
    /\ request[r].pc = "purge"
    /\ account.gen = request[r].gen
    /\ \A t \in Tokens : token[t].gen = account.gen => lock[t] = None
    /\ account' = NoAccount
    /\ Done(r)
    /\ UNCHANGED <<now, gens, taken, token, lock, cooldown, history>>

\* ... and deletes them by id; the tokens go with the row (ON DELETE
\* CASCADE, which waits for their row locks).
DeleteUser(r) ==
    /\ request[r].pc = "purge"
    /\ account.gen = request[r].gen
    /\ \A t \in Tokens : token[t].gen = account.gen => lock[t] = None
    /\ account' = NoAccount
    /\ token' = [t \in Tokens |-> IF token[t].gen = account.gen
                                  THEN [NoToken EXCEPT !.state = "gone"] ELSE token[t]]
    /\ Done(r)
    /\ UNCHANGED <<now, gens, taken, lock, cooldown, history>>

-----------------------------------------------------------------------------
(* PATCH /profile with a new address.                                      *)

\* get_by_email_ci finds another account.
TakenByOther(e) == \E f \in taken : Lower[f] = Lower[e]

\* apply_partial_update, for a customer who is logged in and so has a
\* verified address, up to its first UPDATE.  seen is what the ETag says
\* of pending_email; the address is compared case-insensitively with the
\* other accounts'.
PatchRead(r, e) ==
    /\ Free(r)
    /\ Exists /\ account.verified
    /\ ~TakenByOther(e)
    /\ Goto(r, [Idle EXCEPT !.pc = "patch", !.gen = account.gen, !.mail = e,
                            !.seen = account.pending])
    /\ UNCHANGED <<now, account, gens, taken, token, lock, cooldown, history>>

\* pending_email and its token are committed together, the address as typed.
PatchCommit(r) ==
    /\ request[r].pc = "patch"
    /\ Issue(r, "change", request[r].gen, request[r].mail)
    /\ account' = [account EXCEPT !.pending = request[r].mail]
    /\ Done(r)
    /\ UNCHANGED <<now, gens, taken, cooldown, applied>>

-----------------------------------------------------------------------------
(* Requests for a password reset.                                          *)

ResetRequestExtends(r, e, refused) ==
    /\ Free(r)
    /\ (now < cooldown[Lower[e]]) => refused
    /\ cooldown' = [cooldown EXCEPT ![Lower[e]] = (IF @ > now THEN @ ELSE now) + Cooldown]
    /\ IF refused THEN UNCHANGED request
       ELSE Goto(r, [Idle EXCEPT !.pc = "cooled", !.mail = Lower[e]])
    /\ UNCHANGED <<now, account, gens, taken, token, lock, history>>

\* record_cooldown_attempt: INCR and EXPIRE, which an attempt that is
\* refused renews too.
RecordCooldownAttempt(e) == cooldown' = [cooldown EXCEPT ![e] = now + Cooldown]

\* request_password_reset up to its first query.  The hourly limits, and the
\* deactivation of the account, may refuse the request after the cooldown.
ResetRequest(r, e, refused) ==
    /\ Free(r)
    /\ (now < cooldown[Lower[e]]) => refused
    /\ RecordCooldownAttempt(Lower[e])
    /\ IF refused THEN UNCHANGED request
       ELSE Goto(r, [Idle EXCEPT !.pc = "cooled", !.mail = Lower[e]])
    /\ UNCHANGED <<now, account, gens, taken, token, lock, history>>

\* The queries of request_password_reset: the account, and the rows that
\* invalidate_password_reset_tokens_for_user finds when its UPDATE starts.
\* An address that is unknown or unverified gets the same answer and no
\* token.
ResetFind(r) ==
    /\ request[r].pc = "cooled"
    /\ IF Exists /\ account.email \in Emails /\ account.verified
             /\ Lower[account.email] = request[r].mail
       THEN Goto(r, [Idle EXCEPT !.pc = "invalidate", !.kind = "reset", !.gen = account.gen,
                                 !.mail = account.email,
                                 !.prior = LiveOf("reset", account.gen)])
       ELSE Done(r)
    /\ UNCHANGED <<now, account, gens, taken, token, lock, cooldown, history>>

-----------------------------------------------------------------------------
(* The use of a token: verify_email, confirm_email_change and              *)
(* confirm_password_reset read it, consume it by a conditional UPDATE and  *)
(* apply it before they commit.                                            *)

Usable(t) ==
    /\ token[t].state = "live"
    /\ token[t].kind # "invite"
    /\ now < token[t].issued + TokenTtl

ReadToken(r, t) ==
    /\ Free(r)
    /\ Usable(t)
    /\ Goto(r, [Idle EXCEPT !.pc = "consume", !.token = t])
    /\ UNCHANGED <<now, account, gens, taken, token, lock, cooldown, history>>

ConsumeBlind(r) ==
    LET t == request[r].token IN
    /\ request[r].pc = "consume"
    /\ lock[t] = None
    /\ IF token[t].state = "gone"
       THEN Done(r) /\ UNCHANGED lock
       ELSE /\ lock' = [lock EXCEPT ![t] = r]
            /\ Goto(r, [request[r] EXCEPT !.pc = token[t].kind])
    /\ UNCHANGED <<now, account, gens, taken, token, cooldown, history>>

\* UPDATE ... WHERE consumed_at IS NULL: it waits for the row lock, and
\* finds no row when another transaction consumed the token.
Consume(r) ==
    LET t == request[r].token IN
    /\ request[r].pc = "consume"
    /\ lock[t] = None
    /\ IF token[t].state # "live"
       THEN Done(r) /\ UNCHANGED lock
       ELSE /\ lock' = [lock EXCEPT ![t] = r]
            /\ Goto(r, [request[r] EXCEPT !.pc = token[t].kind])
    /\ UNCHANGED <<now, account, gens, taken, token, cooldown, history>>

\* COMMIT of the transaction that consumed its token.
Spend(r) ==
    LET t == request[r].token IN
    /\ token' = [token EXCEPT ![t].state = "spent"]
    /\ applied' = [applied EXCEPT ![t] = IF @ < 2 THEN @ + 1 ELSE @]
    /\ lock' = Unlocked(r)
    /\ Done(r)

\* mark_user_verified.
ApplyVerify(r) ==
    /\ request[r].pc = "verify"
    /\ account' = IF account.gen = token[request[r].token].gen
                  THEN [account EXCEPT !.verified = TRUE] ELSE account
    /\ Spend(r)
    /\ UNCHANGED <<now, gens, taken, cooldown, replaced>>

\* update_password_hash; the hash itself is not part of this model.
ApplyReset(r) ==
    /\ request[r].pc = "reset"
    /\ Spend(r)
    /\ UNCHANGED <<now, account, gens, taken, cooldown, replaced>>

\* confirm_email_change reads pending_email after it consumed the token;
\* without one the transaction is rolled back.
ReadPending(r) ==
    /\ request[r].pc = "change"
    /\ IF account.pending = None
       THEN Done(r) /\ lock' = Unlocked(r)
       ELSE /\ Goto(r, [request[r] EXCEPT !.pc = "swap", !.mail = account.pending])
            /\ UNCHANGED lock
    /\ UNCHANGED <<now, account, gens, taken, token, cooldown, history>>

SwapKeepsPending(r) ==
    /\ request[r].pc = "swap"
    /\ account' = [account EXCEPT !.email = request[r].mail]
    /\ Spend(r)
    /\ UNCHANGED <<now, gens, taken, cooldown, replaced>>

\* apply_email_change: the unique constraint compares the addresses as they
\* are stored.
DuplicateKey(e) == e \in taken

\* The rest of confirm_email_change; an IntegrityError rolls the transaction
\* back.
SwapEmail(r) ==
    /\ request[r].pc = "swap"
    /\ IF DuplicateKey(request[r].mail)
       THEN Done(r) /\ lock' = Unlocked(r) /\ UNCHANGED <<account, token, applied>>
       ELSE /\ account' = [account EXCEPT !.email = request[r].mail, !.pending = None]
            /\ Spend(r)
    /\ UNCHANGED <<now, gens, taken, cooldown, replaced>>

-----------------------------------------------------------------------------
(* The world around.                                                       *)

\* Somebody else registers: the address is stored in lower case.
OtherRegisters(e) ==
    /\ Lower[e] \notin taken \cup {account.email}
    /\ taken' = taken \cup {Lower[e]}
    /\ UNCHANGED <<now, account, gens, token, lock, cooldown, request, history>>

\* anonymize_erased_user leaves pending_email and the tokens alone.
Anonymize ==
    /\ Exists /\ account.email # Erased
    /\ account' = [account EXCEPT !.email = Erased]
    /\ UNCHANGED <<now, gens, taken, token, lock, cooldown, request, history>>

Tick ==
    /\ now < MaxTime
    /\ now' = now + 1
    /\ UNCHANGED <<account, gens, taken, token, lock, cooldown, request, history>>

\* There is no account yet, or one that was registered and verified before.
Init ==
    /\ now = 0
    /\ \/ account = NoAccount /\ gens = 0
       \/ \E e \in Emails :
            /\ account = [NoAccount EXCEPT !.gen = 1, !.email = Lower[e], !.verified = TRUE]
            /\ gens = 1
    /\ taken = {}
    /\ token = [t \in Tokens |-> NoToken]
    /\ lock = [t \in Tokens |-> None]
    /\ cooldown = [e \in Emails |-> 0]
    /\ request = [r \in Requests |-> Idle]
    /\ applied = [t \in Tokens |-> 0]
    /\ replaced = [t \in Tokens |-> {}]

Next ==
    \/ \E r \in Requests :
        \/ \E e \in Emails :
            \/ Register(r, e) \/ CreateUser(r, e)
            \/ ResendVerification(r, e)
            \/ PatchRead(r, e)
            \/ \E b \in BOOLEAN : ResetRequest(r, e, b)
        \/ \E t \in Tokens : ReadToken(r, t)
        \/ IssuePending(r) \/ ResendInvite(r) \/ ReadPrior(r) \/ Invalidate(r)
        \/ PurgeFind(r) \/ DeleteUser(r)
        \/ PatchCommit(r) \/ ResetFind(r)
        \/ Consume(r) \/ ApplyVerify(r) \/ ApplyReset(r)
        \/ ReadPending(r) \/ SwapEmail(r)
        \/ Fail(r)
    \/ \E e \in Emails : OtherRegisters(e)
    \/ Anonymize
    \/ Tick

Spec == Init /\ [][Next]_vars

-----------------------------------------------------------------------------
(* Properties.                                                             *)

\* Every variable keeps its type.
TypeOK ==
    /\ now \in Time
    /\ account \in [gen : 0 .. gens, email : Emails \cup {Erased, None},
                    pending : Emails \cup {None}, verified : BOOLEAN,
                    invited : BOOLEAN, created : 0 .. now]
    /\ gens \in 0 .. MaxGen
    /\ taken \subseteq Emails
    /\ token \in [Tokens -> [state : {"unissued", "live", "spent", "void", "gone"},
                             kind : Kinds, gen : 0 .. gens,
                             to : Emails \cup {Erased, None}, issued : 0 .. now]]
    /\ lock \in [Tokens -> Requests \cup {None}]
    /\ cooldown \in [Emails -> 0 .. now + Cooldown]
    /\ applied \in [Tokens -> 0 .. 2]
    /\ replaced \in [Tokens -> SUBSET Tokens]

\* verify_email, confirm_email_change and confirm_password_reset: a token is
\* spent exactly when it took effect, and it takes effect once, whatever two
\* concurrent uses, lost races and rolled-back transactions do.
SpentIffApplied ==
    \A t \in Tokens :
        /\ applied[t] <= 1
        /\ token[t].state # "gone" => (token[t].state = "spent" <=> applied[t] = 1)

\* FR-1 of password resets, as far as the code keeps it: every reset token of
\* the account that was live when a later request started to invalidate is
\* dead once that request has issued its own, and stays dead, however long
\* the requests take, whether they overlap, lose their cooldown or roll back.
\* Two live reset tokens are those of two requests that overlapped, and the
\* next request ends both.  Likewise the invitation that resend_invite read.
ReplacedStayDead ==
    \A t \in Tokens : \A u \in replaced[t] : token[u].state \in {"spent", "void", "gone"}

\* A pending address has its token: the one mailed to it was not spent by
\* another confirmation nor invalidated by another change.  It may be past
\* its expiry, which only a new change ends.
PendingHasToken ==
    account.pending # None =>
        \E t \in Tokens : /\ token[t].kind = "change" /\ token[t].state = "live"
                          /\ token[t].gen = account.gen /\ token[t].to = account.pending

\* purge_unverified_accounts never deletes an account younger than its
\* window, not even one registered under the same address between its two
\* statements.
PurgeSparesNewAccounts ==
    [][Exists /\ account'.gen = 0 => account.created + PurgeAfter < now]_vars

\* A token takes effect on the very account it was issued for: an account
\* registered again under the same address owes nothing to old mail.
TokensFollowTheirAccount ==
    [][\A t \in Tokens : applied'[t] # applied[t] => token[t].gen = account'.gen]_vars

\* docs/product/business-rules.md:5, BR-001: the address is unique across
\* accounts and the comparison is case-insensitive, at the data layer.
EmailIsUnique ==
    account.email \in Emails => \A f \in taken : Lower[f] # Lower[account.email]

(* Stated and refuted; the README describes the traces.                    *)

\* UP-AC10: confirming installs the address the token was mailed to.
ConfirmedAddressWasMailed ==
    [][\A t \in Tokens :
        applied'[t] # applied[t] /\ token[t].kind = "change"
            => account'.email = token[t].to]_vars

\* The purge deletes unverified accounts only.
PurgedWereUnverified == [][Exists /\ account'.gen = 0 => ~account.verified]_vars

\* If-Match: a PATCH is committed only on the state its ETag describes.
NoLostUpdate ==
    [][\A r \in Requests :
        request[r].pc = "patch" /\ account'.pending # account.pending
            /\ request'[r].pc = "idle" => account.pending = request[r].seen]_vars

\* FR-1 of US-2.4: an earlier unconsumed reset token of the account is
\* invalidated when a new one is issued, so that one is live at most.  The
\* cooldown keeps two requests for one address apart only while it lasts.
OneLiveReset ==
    Cardinality({t \in Tokens : token[t].kind = "reset" /\ token[t].state = "live"}) <= 1

\* At most one invitation is live.
OneLiveInvitation ==
    Cardinality({t \in Tokens : token[t].kind = "invite" /\ token[t].state = "live"}) <= 1

\* An erased account stays erased.
ErasedStaysErased == [][account.email = Erased => account'.email \in {Erased, None}]_vars

=============================================================================
