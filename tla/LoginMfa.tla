------------------------------ MODULE LoginMfa ------------------------------
(***************************************************************************)
(* Password login under its two throttle counters, and the second factor:  *)
(* enrolment, activation, verification by TOTP or recovery code, and       *)
(* disabling, for one account and one client address.                      *)
(*                                                                         *)
(* The counters, the mfa_token and the used-step marks are Valkey keys     *)
(* with a time to live; the account and its recovery codes are rows.  A    *)
(* request works on the user row it read first (expire_on_commit=False),   *)
(* and other requests come between any two of its calls.  Time is counted  *)
(* in TOTP steps of 30 seconds.                                            *)
(***************************************************************************)
EXTENDS Naturals, FiniteSets

CONSTANTS
    Requests,
    AccountThreshold,   \* login_failure_threshold_account
    IpThreshold,        \* login_failure_threshold_ip
    Window,             \* login_throttle_window_seconds
    MfaThreshold,       \* mfa_verify_lockout_threshold
    MfaTtl,             \* mfa_token_ttl_seconds
    MaxTokens,          \* bound: mfa_tokens issued
    MaxSecrets,         \* bound: TOTP secrets drawn
    MaxCodes,           \* bound: recovery codes drawn
    MaxTime,            \* bound: the clock stops here
    MaxRequests         \* bound: requests served, besides those to enrol

\* A mark must outlive the three steps in which a code is accepted; with
\* 300 seconds, ten steps, it does.
ASSUME LoginAssumption ==
    /\ IsFiniteSet(Requests)
    /\ {AccountThreshold, IpThreshold, Window, MfaThreshold} \subseteq Nat \ {0}
    /\ MfaTtl \in Nat /\ MfaTtl >= 3
    /\ {MaxTokens, MaxTime, MaxRequests} \subseteq Nat
    /\ {MaxSecrets, MaxCodes} \subseteq Nat \ {0}

VARIABLES
    now,
    user,           \* the MFA columns of the users row
    secrets,        \* TOTP secrets drawn so far
    recovery,       \* the mfa_recovery_codes rows
    failures,       \* login_fail counters, of the account and of the address
    mfaToken,       \* mfa_token keys: when each expires, 0 when it is absent
    attempts,       \* mfa_verify_attempts counters
    used,           \* mfa_used_step keys: when each expires
    request,
    served,         \* requests begun so far
    guesses,        \* history: wrong passwords tried since the counter began
    tries,          \* history: wrong codes tried with an mfa_token
    failed,         \* history: requests that failed before they had counted a
                    \* guess, or before they had counted a try and acted on it
    late,           \* history: steps marked when an earlier mark may be over
    logins,         \* history: logins completed by an mfa_token, a step, a code
    restricted      \* history: an enrolment-scoped access token is in use

vars == <<now, user, secrets, recovery, failures, mfaToken, attempts, used,
          request, served, guesses, tries, failed, late, logins, restricted>>

Steps == 0 .. MaxTime + 1
MfaTokens == 1 .. MaxTokens
RecoveryCodes == 1 .. MaxCodes
Many == 2   \* history counts logins up to here

\* A submitted code: wrong, a recovery code, or the code of a secret at a step.
WrongCode == [kind |-> "wrong", secret |-> 0, n |-> 0]
Codes == {WrongCode}
    \cup [kind : {"recovery"}, secret : {0}, n : RecoveryCodes]
    \cup [kind : {"totp"}, secret : 1 .. MaxSecrets, n : Steps]

NoUser == [enabled |-> FALSE, secret |-> 0, reenroll |-> FALSE, privileged |-> FALSE]
Users == [enabled : BOOLEAN, secret : 0 .. MaxSecrets, reenroll : BOOLEAN, privileged : BOOLEAN]

Idle == [pc |-> "idle", user |-> NoUser, token |-> 0, code |-> WrongCode]
Free(r) == request[r].pc = "idle"
Begin(r) == Free(r) /\ served < MaxRequests /\ served' = served + 1
Goto(r, pc) == request' = [request EXCEPT ![r].pc = pc]
Done(r) == request' = [request EXCEPT ![r] = Idle]

-----------------------------------------------------------------------------
(* Valkey keys with a time to live.                                        *)

NoCount == [n |-> 0, until |-> 0]
IncrWithTtl(c, ttl) == [n |-> c.n + 1, until |-> now + ttl]
Aged(c) == IF now + 1 < c.until THEN c ELSE NoCount
Lives(until) == IF now + 1 < until THEN until ELSE 0

-----------------------------------------------------------------------------
(* The TOTP and its enrolment scope.                                       *)

\* verify_totp_code: the current step and one on either side.
VerifyTotpCode(secret, code) ==
    /\ code.kind = "totp"
    /\ secret # 0 /\ code.secret = secret
    /\ code.n <= now + 1 /\ now <= code.n + 1

\* _resolve_enrollment_scoping, for a privileged account past its grace
\* period.
Scoped(u) == u.reenroll \/ (u.privileged /\ ~u.enabled)

-----------------------------------------------------------------------------
(* What the statements of the repository do to the rows.                   *)

WithSecret(u, secret) == [u EXCEPT !.secret = secret]
Activated(u) == [u EXCEPT !.enabled = TRUE, !.reenroll = FALSE]
Reenrolling(u) == [u EXCEPT !.reenroll = TRUE]
Disabled(u) == [u EXCEPT !.enabled = FALSE, !.secret = 0, !.reenroll = FALSE]

\* consume_recovery_code is a conditional UPDATE, so a second use of a code
\* waits and finds no row.
Consumable(c) == recovery[c] = "unused"

\* create_recovery_codes leaves the codes of earlier activations as they are.
WithNewCode(c) == [recovery EXCEPT ![c] = "unused"]

WithoutCodes ==
    [c \in RecoveryCodes |-> IF recovery[c] = "undrawn" THEN "undrawn" ELSE "deleted"]

-----------------------------------------------------------------------------
(* POST /auth/login.                                                       *)

\* The address is checked before anything is looked up.
LoginIp(r) ==
    /\ Begin(r)
    /\ failures.ip.n < IpThreshold
    /\ Goto(r, "ip")
    /\ UNCHANGED <<now, user, secrets, recovery, failures, mfaToken, attempts, used,
                   guesses, tries, failed, late, logins, restricted>>

\* An unknown email costs a dummy verification and counts for the address.
LoginUnknown(r) ==
    /\ request[r].pc = "ip"
    /\ Goto(r, "count_ip")
    /\ UNCHANGED <<now, user, secrets, recovery, failures, mfaToken, attempts, used,
                   served, guesses, tries, failed, late, logins, restricted>>

LoginAccountUnchecked(r) ==
    /\ request[r].pc = "ip"
    /\ request' = [request EXCEPT ![r].pc = "password", ![r].user = user]
    /\ UNCHANGED <<now, user, secrets, recovery, failures, mfaToken, attempts, used,
                   served, guesses, tries, failed, late, logins, restricted>>

LoginAccount(r) ==
    /\ request[r].pc = "ip"
    /\ IF failures.account.n < AccountThreshold
       THEN request' = [request EXCEPT ![r].pc = "password", ![r].user = user]
       ELSE Done(r)
    /\ UNCHANGED <<now, user, secrets, recovery, failures, mfaToken, attempts, used,
                   served, guesses, tries, failed, late, logins, restricted>>

WrongPassword(r) ==
    /\ request[r].pc = "password"
    /\ guesses' = guesses + 1
    /\ request' = [request EXCEPT ![r] = [Idle EXCEPT !.pc = "count_account"]]
    /\ UNCHANGED <<now, user, secrets, recovery, failures, mfaToken, attempts, used,
                   served, tries, failed, late, logins, restricted>>

\* record_account_failure and then record_ip_failure, after the commit of
\* the audit row.
CountAccount(r) ==
    /\ request[r].pc = "count_account"
    /\ failures' = [failures EXCEPT !.account = IncrWithTtl(@, Window)]
    /\ Goto(r, "count_ip")
    /\ UNCHANGED <<now, user, secrets, recovery, mfaToken, attempts, used,
                   served, guesses, tries, failed, late, logins, restricted>>

CountIp(r) ==
    /\ request[r].pc = "count_ip"
    /\ failures' = [failures EXCEPT !.ip = IncrWithTtl(@, Window)]
    /\ Done(r)
    /\ UNCHANGED <<now, user, secrets, recovery, mfaToken, attempts, used,
                   served, guesses, tries, failed, late, logins, restricted>>

\* The commit of the audit row fails, or the counter cannot be reached: the
\* guess is never counted.
GuessFails(r) ==
    /\ request[r].pc = "count_account"
    /\ failed' = [failed EXCEPT !.guesses = @ + 1]
    /\ Done(r)
    /\ UNCHANGED <<now, user, secrets, recovery, failures, mfaToken, attempts, used,
                   served, guesses, tries, late, logins, restricted>>

\* The deactivation and the verification gate, and whatever else ends a
\* request between two calls that are not the ones that count failures.
Refuse(r) ==
    /\ request[r].pc \notin {"idle", "count_account", "count_attempt", "locking"}
    /\ Done(r)
    /\ UNCHANGED <<now, user, secrets, recovery, failures, mfaToken, attempts, used,
                   served, guesses, tries, failed, late, logins, restricted>>

IssueMfaTokenTwice(r, t) ==
    /\ request[r].pc = "password"
    /\ request[r].user.enabled
    /\ mfaToken' = [mfaToken EXCEPT ![t] = IF @ = 0 THEN now + MfaTtl ELSE @ + MfaTtl]
    /\ Done(r)
    /\ UNCHANGED <<now, user, secrets, recovery, failures, attempts, used,
                   served, guesses, tries, failed, late, logins, restricted>>

\* The right password of an account with MFA: an mfa_token and no session.
\* A bound: MaxTokens.
IssueMfaToken(r, t) ==
    /\ request[r].pc = "password"
    /\ request[r].user.enabled
    /\ mfaToken[t] = 0 /\ tries[t] = 0 /\ logins.token[t] = 0
    /\ \A s \in 1 .. t - 1 : mfaToken[s] # 0 \/ tries[s] # 0 \/ logins.token[s] # 0
    /\ mfaToken' = [mfaToken EXCEPT ![t] = now + MfaTtl]
    /\ Done(r)
    /\ UNCHANGED <<now, user, secrets, recovery, failures, attempts, used,
                   served, guesses, tries, failed, late, logins, restricted>>

\* The right password without MFA: the login is committed ...
PasswordLogin(r) ==
    /\ request[r].pc = "password"
    /\ ~request[r].user.enabled
    /\ Goto(r, "resetting")
    /\ UNCHANGED <<now, user, secrets, recovery, failures, mfaToken, attempts, used,
                   served, guesses, tries, failed, late, logins, restricted>>

\* ... the account's counter is deleted, not the address's, and the access
\* token is scoped by the row read at the beginning.
ResetAccountFailures(r) ==
    /\ request[r].pc = "resetting"
    /\ failures' = [failures EXCEPT !.account = NoCount]
    /\ guesses' = 0
    /\ failed' = [failed EXCEPT !.guesses = 0]
    /\ restricted' = (restricted \/ Scoped(request[r].user))
    /\ Done(r)
    /\ UNCHANGED <<now, user, secrets, recovery, mfaToken, attempts, used, served,
                   tries, late, logins>>

-----------------------------------------------------------------------------
(* Enrolment, activation and disabling, by a user who is logged in.        *)

\* enroll_mfa: a fresh secret overwrites the one in the row, whatever
\* enabled says.
EnrollMfa ==
    /\ secrets < MaxSecrets
    /\ secrets' = secrets + 1
    /\ user' = WithSecret(user, secrets + 1)
    /\ UNCHANGED <<now, recovery, failures, mfaToken, attempts, used, request,
                   served, guesses, tries, failed, late, logins, restricted>>

\* activate_mfa checks the code against the row it read ...
ActivateRead(r, c) ==
    /\ Begin(r)
    /\ VerifyTotpCode(user.secret, c)
    /\ request' = [request EXCEPT ![r] = [Idle EXCEPT !.pc = "activating", !.user = user]]
    /\ UNCHANGED <<now, user, secrets, recovery, failures, mfaToken, attempts, used,
                   guesses, tries, failed, late, logins, restricted>>

\* ... and enables MFA with new recovery codes next to the old ones.
ActivateCommit(r, c) ==
    /\ request[r].pc = "activating"
    /\ recovery[c] = "undrawn" /\ \A d \in 1 .. c - 1 : recovery[d] # "undrawn"
    /\ recovery' = WithNewCode(c)
    /\ user' = Activated(user)
    /\ IF Scoped(request[r].user) THEN Goto(r, "announcing") ELSE Done(r)
    /\ UNCHANGED <<now, secrets, failures, mfaToken, attempts, used,
                   served, guesses, tries, failed, late, logins, restricted>>

\* set_perm_epoch: the scoped access tokens are stale from now on.
AnnounceActivation(r) ==
    /\ request[r].pc = "announcing"
    /\ restricted' = FALSE
    /\ Done(r)
    /\ UNCHANGED <<now, user, secrets, recovery, failures, mfaToken, attempts, used,
                   served, guesses, tries, failed, late, logins>>

\* disable_mfa: refused to a privileged account.
DisableRead(r, c) ==
    /\ Begin(r)
    /\ VerifyTotpCode(user.secret, c)
    /\ ~user.privileged
    /\ request' = [request EXCEPT ![r] = [Idle EXCEPT !.pc = "disabling", !.user = user]]
    /\ UNCHANGED <<now, user, secrets, recovery, failures, mfaToken, attempts, used,
                   guesses, tries, failed, late, logins, restricted>>

\* The recovery codes are deleted with the enrolment.
DisableCommit(r) ==
    /\ request[r].pc = "disabling"
    /\ user' = Disabled(user)
    /\ recovery' = WithoutCodes
    /\ Done(r)
    /\ UNCHANGED <<now, secrets, failures, mfaToken, attempts, used,
                   served, guesses, tries, failed, late, logins, restricted>>

-----------------------------------------------------------------------------
(* POST /auth/mfa/verify.                                                  *)

\* get_user_id leaves the token where it is.  The code of a secret that
\* is not drawn yet is a wrong one.
VerifyRead(r, t, c) ==
    /\ Begin(r)
    /\ mfaToken[t] # 0
    /\ c.secret <= secrets
    /\ request' = [request EXCEPT ![r] =
                     [pc |-> "verify", user |-> user, token |-> t, code |-> c]]
    /\ UNCHANGED <<now, user, secrets, recovery, failures, mfaToken, attempts, used,
                   guesses, tries, failed, late, logins, restricted>>

RecoveryMatchesDrawn(r) ==
    request[r].code.kind = "recovery" /\ recovery[request[r].code.n] \in {"unused", "used"}

RecoveryMatches(r) ==
    request[r].code.kind = "recovery" /\ Consumable(request[r].code.n)

\* The mfa_token is deleted before the commit; if the commit fails the code
\* is unused and the token is gone.
VerifyRecovery(r, committed) ==
    /\ request[r].pc = "verify"
    /\ RecoveryMatches(r)
    /\ mfaToken' = [mfaToken EXCEPT ![request[r].token] = 0]
    /\ IF committed
       THEN /\ recovery' = [recovery EXCEPT ![request[r].code.n] = "used"]
            /\ user' = Reenrolling(user)
            /\ request' = [request EXCEPT ![r].pc = "minting", ![r].user = Reenrolling(@)]
       ELSE Done(r) /\ UNCHANGED <<recovery, user>>
    /\ UNCHANGED <<now, secrets, failures, attempts, used,
                   served, guesses, tries, failed, late, logins, restricted>>

\* verify_totp_code reads the clock ...
VerifyTotp(r) ==
    /\ request[r].pc = "verify"
    /\ ~RecoveryMatches(r)
    /\ VerifyTotpCode(request[r].user.secret, request[r].code)
    /\ Goto(r, "marking")
    /\ UNCHANGED <<now, user, secrets, recovery, failures, mfaToken, attempts, used,
                   served, guesses, tries, failed, late, logins, restricted>>

MarkStepUsedShort(k) ==
    /\ used[k] = 0
    /\ used' = [used EXCEPT ![k] = now + 1]

\* mark_step_used, SET NX: the mark lives as long as an mfa_token does.
MarkStepUsed(k) ==
    /\ used[k] = 0
    /\ used' = [used EXCEPT ![k] = now + MfaTtl]

\* A mark of step k is set in step k - 1 at the earliest, so from here on a
\* first mark may be over when the second one is set.
Overdue(k) == k + MfaTtl <= now + 1

\* ... and the step is marked by a call of its own, whenever that is.
MarkStep(r) ==
    LET k == request[r].code.n IN
    /\ request[r].pc = "marking"
    /\ MarkStepUsed(k)
    /\ late' = IF Overdue(k) THEN late \cup {k} ELSE late
    /\ Goto(r, "consuming")
    /\ UNCHANGED <<now, user, secrets, recovery, failures, mfaToken, attempts,
                   served, guesses, tries, failed, logins, restricted>>

\* A code that does not fit, or whose step was marked before, is to be
\* counted against the mfa_token.
VerifyFails(r) ==
    /\ \/ /\ request[r].pc = "verify"
          /\ ~RecoveryMatches(r)
          /\ ~VerifyTotpCode(request[r].user.secret, request[r].code)
       \/ /\ request[r].pc = "marking"
          /\ used[request[r].code.n] # 0
    /\ tries' = [tries EXCEPT ![request[r].token] = @ + 1]
    /\ request' = [request EXCEPT ![r] =
                     [Idle EXCEPT !.pc = "count_attempt", !.token = request[r].token]]
    /\ UNCHANGED <<now, user, secrets, recovery, failures, mfaToken, attempts, used,
                   served, guesses, failed, late, logins, restricted>>

RecordAttemptLate(r) ==
    LET t == request[r].token IN
    /\ request[r].pc = "count_attempt"
    /\ attempts' = [attempts EXCEPT ![t] = IncrWithTtl(@, MfaTtl)]
    /\ IF attempts'[t].n > MfaThreshold THEN Goto(r, "locking") ELSE Done(r)
    /\ UNCHANGED <<now, user, secrets, recovery, failures, mfaToken, used,
                   served, guesses, tries, failed, late, logins, restricted>>

RecordAttempt(r) ==
    LET t == request[r].token IN
    /\ request[r].pc = "count_attempt"
    /\ attempts' = [attempts EXCEPT ![t] = IncrWithTtl(@, MfaTtl)]
    /\ IF attempts'[t].n >= MfaThreshold THEN Goto(r, "locking") ELSE Done(r)
    /\ UNCHANGED <<now, user, secrets, recovery, failures, mfaToken, used,
                   served, guesses, tries, failed, late, logins, restricted>>

\* The counter cannot be reached, or the commit of the audit row after it
\* fails: the mfa_token is not invalidated.
AttemptFails(r) ==
    /\ request[r].pc \in {"count_attempt", "locking"}
    /\ failed' = [failed EXCEPT !.tries[request[r].token] = @ + 1]
    /\ Done(r)
    /\ UNCHANGED <<now, user, secrets, recovery, failures, mfaToken, attempts, used,
                   served, guesses, tries, late, logins, restricted>>

InvalidateMfaToken(r) ==
    /\ request[r].pc = "locking"
    /\ mfaToken' = [mfaToken EXCEPT ![request[r].token] = 0]
    /\ attempts' = [attempts EXCEPT ![request[r].token] = NoCount]
    /\ Done(r)
    /\ UNCHANGED <<now, user, secrets, recovery, failures, used,
                   served, guesses, tries, failed, late, logins, restricted>>

\* consume: GETDEL, whose answer nobody looks at.
ConsumeMfaToken(r) ==
    /\ request[r].pc = "consuming"
    /\ mfaToken' = [mfaToken EXCEPT ![request[r].token] = 0]
    /\ Goto(r, "minting")
    /\ UNCHANGED <<now, user, secrets, recovery, failures, attempts, used,
                   served, guesses, tries, failed, late, logins, restricted>>

\* _complete_mfa_login: unlike a login without MFA it leaves the counter of
\* the account alone.
CompleteMfaLogin(r) ==
    LET req == request[r]
        More(count, i) == [count EXCEPT ![i] = IF @ < Many THEN @ + 1 ELSE @]
    IN  /\ req.pc = "minting"
        /\ logins' = [token |-> More(logins.token, req.token),
                      step |-> IF req.code.kind = "totp" THEN More(logins.step, req.code.n)
                               ELSE logins.step,
                      code |-> IF req.code.kind = "recovery" THEN More(logins.code, req.code.n)
                               ELSE logins.code]
        /\ restricted' = (restricted \/ Scoped(req.user))
        /\ Done(r)
        /\ UNCHANGED <<now, user, secrets, recovery, failures, mfaToken, attempts, used,
                       served, guesses, tries, failed, late>>

-----------------------------------------------------------------------------

\* A step of 30 seconds passes; keys whose time is over are gone.
Tick ==
    /\ now < MaxTime
    /\ now' = now + 1
    /\ failures' = [k \in DOMAIN failures |-> Aged(failures[k])]
    /\ attempts' = [t \in MfaTokens |-> Aged(attempts[t])]
    /\ mfaToken' = [t \in MfaTokens |-> Lives(mfaToken[t])]
    /\ used' = [k \in Steps |-> Lives(used[k])]
    /\ IF failures'.account = NoCount
       THEN guesses' = 0 /\ failed' = [failed EXCEPT !.guesses = 0]
       ELSE UNCHANGED <<guesses, failed>>
    /\ UNCHANGED <<user, secrets, recovery, request, served, tries, late, logins, restricted>>

\* The account has no second factor, or an active one with a recovery code.
Init ==
    /\ now = 0
    /\ \E priv \in BOOLEAN :
        \/ /\ user = [NoUser EXCEPT !.privileged = priv]
           /\ secrets = 0
           /\ recovery = [c \in RecoveryCodes |-> "undrawn"]
        \/ /\ user = [enabled |-> TRUE, secret |-> 1, reenroll |-> FALSE, privileged |-> priv]
           /\ secrets = 1
           /\ recovery = [c \in RecoveryCodes |-> IF c = 1 THEN "unused" ELSE "undrawn"]
    /\ failures = [account |-> NoCount, ip |-> NoCount]
    /\ mfaToken = [t \in MfaTokens |-> 0]
    /\ attempts = [t \in MfaTokens |-> NoCount]
    /\ used = [k \in Steps |-> 0]
    /\ request = [r \in Requests |-> Idle]
    /\ served = 0
    /\ guesses = 0
    /\ tries = [t \in MfaTokens |-> 0]
    /\ failed = [guesses |-> 0, tries |-> [t \in MfaTokens |-> 0]]
    /\ late = {}
    /\ logins = [token |-> [t \in MfaTokens |-> 0], step |-> [k \in Steps |-> 0],
                 code |-> [c \in RecoveryCodes |-> 0]]
    /\ restricted = FALSE

Next ==
    \/ \E r \in Requests :
        \/ LoginIp(r) \/ LoginUnknown(r) \/ LoginAccount(r) \/ WrongPassword(r)
        \/ CountAccount(r) \/ CountIp(r) \/ GuessFails(r) \/ Refuse(r)
        \/ \E t \in MfaTokens : IssueMfaToken(r, t)
        \/ PasswordLogin(r) \/ ResetAccountFailures(r)
        \/ \E c \in Codes : ActivateRead(r, c) \/ DisableRead(r, c)
        \/ \E c \in RecoveryCodes : ActivateCommit(r, c)
        \/ AnnounceActivation(r) \/ DisableCommit(r)
        \/ \E t \in MfaTokens, c \in Codes : VerifyRead(r, t, c)
        \/ \E b \in BOOLEAN : VerifyRecovery(r, b)
        \/ VerifyTotp(r) \/ MarkStep(r) \/ VerifyFails(r)
        \/ RecordAttempt(r) \/ AttemptFails(r) \/ InvalidateMfaToken(r)
        \/ ConsumeMfaToken(r) \/ CompleteMfaLogin(r)
    \/ EnrollMfa
    \/ Tick

Spec == Init /\ [][Next]_vars

-----------------------------------------------------------------------------
(* Properties.                                                             *)

PCs == {"idle", "ip", "password", "count_account", "count_ip", "resetting", "activating",
        "announcing", "disabling", "verify", "marking", "count_attempt", "locking",
        "consuming", "minting"}

Counts == [n : Nat, until : 0 .. MaxTime + Window + MfaTtl]

\* Every variable keeps its type, and a key that exists has time to live.
TypeOK ==
    /\ now \in 0 .. MaxTime
    /\ user \in Users
    /\ secrets \in 0 .. MaxSecrets
    /\ recovery \in [RecoveryCodes -> {"undrawn", "unused", "used", "deleted"}]
    /\ failures \in [account : Counts, ip : Counts]
    /\ attempts \in [MfaTokens -> Counts]
    /\ mfaToken \in [MfaTokens -> {0} \cup now + 1 .. now + MfaTtl]
    /\ used \in [Steps -> {0} \cup now + 1 .. now + MfaTtl]
    /\ request \in [Requests -> [pc : PCs, user : Users, token : 0 .. MaxTokens, code : Codes]]
    /\ served \in 0 .. MaxRequests
    /\ guesses \in Nat
    /\ tries \in [MfaTokens -> Nat]
    /\ failed \in [guesses : Nat, tries : [MfaTokens -> Nat]]
    /\ late \subseteq Steps
    /\ logins \in [token : [MfaTokens -> 0 .. Many], step : [Steps -> 0 .. Many],
                   code : [RecoveryCodes -> 0 .. Many]]
    /\ restricted \in BOOLEAN

\* FR-5 of logins: however many requests race between the check of the
\* counter and its increment, at most one wrong password per request gets
\* past the threshold while the counter lives, and one for every request that
\* failed before it could count.
BoundedGuesses == guesses < AccountThreshold + Cardinality(Requests) + failed.guesses

\* FR-5 of MFA: the same for the wrong codes tried with one mfa_token, whose
\* counter is deleted together with the token.  A commit that fails after the
\* count leaves the token to the next wrong code.
BoundedTries ==
    \A t \in MfaTokens : tries[t] < MfaThreshold + Cardinality(Requests) + failed.tries[t]

\* MF-AC4: the code of a step completes one login at most, although it is
\* accepted during three steps and by requests that run side by side, unless
\* one of them was held up between the check and the mark for as long as a
\* mark lives beyond the window.
StepLogsInOnce == \A k \in Steps \ late : logins.step[k] <= 1

\* FR-7: a recovery code completes one login at most, and only one that has
\* been consumed or deleted since does.
RecoveryCodeLogsInOnce ==
    \A c \in RecoveryCodes :
        /\ logins.code[c] <= 1
        /\ recovery[c] \in {"undrawn", "unused"} => logins.code[c] = 0

(* Stated and refuted; the README describes the traces.                    *)

\* users/cache.py:169: two requests with one mfa_token never both complete
\* the login.
MfaTokenLogsInOnce == \A t \in MfaTokens : logins.token[t] <= 1

\* users/service.py:1297: an unfinished enrolment locks nobody out; it leaves
\* the secret of an active one alone.
EnrollmentKeepsActiveSecret == [][user.enabled /\ user'.enabled => user'.secret = user.secret]_vars

\* What activation enables is the secret whose code was shown.
ActivatedSecretWasShown ==
    [][\A r \in Requests :
        request[r].pc = "activating" /\ ~user.enabled /\ user'.enabled
            /\ request'[r].pc # "activating" => user'.secret = request[r].user.secret]_vars

\* activate_mfa ends the enrolment scope of the tokens in use.
ActivationLiftsScope ==
    restricted => Scoped(user) \/ \E r \in Requests : ~Free(r)

=============================================================================
