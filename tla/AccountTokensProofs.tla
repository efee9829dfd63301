------------------------- MODULE AccountTokensProofs -------------------------
(***************************************************************************)
(* For any number of requests, tokens and addresses: a mailed token takes  *)
(* effect at most once and on the account it was issued for, a token that  *)
(* a later one replaces is dead for good, a pending address can be         *)
(* confirmed, and the purge spares accounts younger than its window.       *)
(***************************************************************************)
EXTENDS AccountTokens, WellFoundedInduction, TLAPS

Addresses == Emails \cup {Erased, None}
Applying == Kinds \cup {"swap"}

\* A request: where it is, and what it read before.
PCs == {"idle", "issue", "purge", "patch", "cooled", "consume", "resend", "invalidate"}
         \cup Applying
Record == [pc : PCs, kind : Kinds, gen : Nat, mail : Addresses, token : 0 .. MaxTokens,
           seen : Emails \cup {None}, prior : SUBSET Tokens]

\* Where a request knows the users row it is about.
Bound == {"issue", "patch", "purge", "resend", "invalidate"}

RequestInv ==
    /\ request \in [Requests -> Record]
    /\ \A r \in Requests :
        /\ request[r].gen <= gens
        /\ request[r].pc \in Bound => request[r].gen # 0
        /\ request[r].pc = "resend" => request[r].kind = "invite"
        /\ request[r].pc \in {"patch", "cooled", "swap"} => request[r].mail \in Emails
        /\ request[r].pc = "consume" => request[r].token \in Tokens

\* A locked token is live, and its holder consumed it or is about to
\* replace it.
LockInv ==
    \A t \in Tokens : lock[t] # None =>
        /\ token[t].state = "live"
        /\ \/ request[lock[t]].pc \in Applying /\ request[lock[t]].token = t
           \/ /\ request[lock[t]].pc = "issue"
              /\ request[lock[t]].kind = token[t].kind
              /\ token[t].kind \in {"invite", "reset"}

\* Who applies a token holds its lock, and applies it as what it is.
ApplyInv ==
    \A r \in Requests : request[r].pc \in Applying =>
        /\ request[r].token \in Tokens
        /\ lock[request[r].token] = r
        /\ token[request[r].token].kind = IF request[r].pc = "swap" THEN "change"
                                          ELSE request[r].pc

\* The tokens that exist are those of the account that exists.
LiveInv ==
    \A t \in Tokens : token[t].state \in {"live", "spent", "void"} =>
        token[t].gen = account.gen /\ account.gen # 0

\* What the purge found is as old now as it was then, if it still exists.
PurgeInv ==
    \A r \in Requests :
        request[r].pc = "purge" /\ request[r].gen = account.gen
            => account.created + PurgeAfter < now

\* The tokens a request is to replace: issued before, of its kind while
\* they live, and locked by it from its UPDATE to its commit.
PriorInv ==
    \A r \in Requests, t \in Tokens : t \in request[r].prior =>
        /\ request[r].pc \in {"invalidate", "issue"}
        /\ request[r].kind \in {"invite", "reset"}
        /\ token[t].state # "unissued"
        /\ token[t].state = "live" =>
             /\ token[t].kind = request[r].kind
             /\ request[r].pc = "issue" => lock[t] = r

IInv ==
    /\ TypeOK /\ RequestInv
    /\ LockInv /\ ApplyInv
    /\ LiveInv /\ PurgeInv
    /\ PriorInv /\ ReplacedStayDead
    /\ SpentIffApplied
    /\ PendingHasToken

-----------------------------------------------------------------------------
(* Facts about the constants, the records and the variables.               *)

\* AccountAssumption, taken apart.
LEMMA Constants ==
    /\ \A e \in Emails : Lower[e] \in Emails /\ Lower[Lower[e]] = Lower[e]
    /\ Erased \notin Emails /\ None \notin Emails /\ Erased # None
    /\ None \notin Requests
    /\ MaxTokens \in Nat /\ MaxGen \in Nat /\ MaxGen >= 1 /\ MaxTime \in Nat
    /\ TokenTtl \in Nat /\ Cooldown \in Nat /\ Cooldown >= 1 /\ PurgeAfter \in Nat
BY AccountAssumption

States == {"unissued", "live", "spent", "void", "gone"}
Accounts(g, n) ==
    [gen : 0 .. g, email : Addresses, pending : Emails \cup {None}, verified : BOOLEAN,
     invited : BOOLEAN, created : 0 .. n]
TokenRows(g, n) ==
    [state : States, kind : Kinds, gen : 0 .. g, to : Addresses, issued : 0 .. n]

\* What the type invariant says of each variable.
LEMMA Types ==
    TypeOK <=> /\ now \in Time
               /\ account \in Accounts(gens, now)
               /\ gens \in 0 .. MaxGen
               /\ taken \subseteq Emails
               /\ token \in [Tokens -> TokenRows(gens, now)]
               /\ lock \in [Tokens -> Requests \cup {None}]
               /\ cooldown \in [Emails -> 0 .. now + Cooldown]
               /\ applied \in [Tokens -> 0 .. 2]
               /\ replaced \in [Tokens -> SUBSET Tokens]
BY DEF TypeOK, Accounts, TokenRows, States, Addresses

LEMMA TypesNext ==
    TypeOK' <=> /\ now' \in Time
                /\ account' \in Accounts(gens', now')
                /\ gens' \in 0 .. MaxGen
                /\ taken' \subseteq Emails
                /\ token' \in [Tokens -> TokenRows(gens', now')]
                /\ lock' \in [Tokens -> Requests \cup {None}]
                /\ cooldown' \in [Emails -> 0 .. now' + Cooldown]
                /\ applied' \in [Tokens -> 0 .. 2]
                /\ replaced' \in [Tokens -> SUBSET Tokens]
BY DEF TypeOK, Accounts, TokenRows, States, Addresses, Time, Tokens, Kinds

LEMMA Fields ==
    ASSUME TypeOK
    PROVE  /\ now \in Nat /\ gens \in Nat /\ gens <= MaxGen
           /\ account.gen \in Nat /\ account.gen <= gens
           /\ account.created \in Nat /\ account.created <= now
           /\ account.email \in Addresses /\ account.pending \in Emails \cup {None}
           /\ \A t \in Tokens :
                /\ token[t] \in TokenRows(gens, now)
                /\ token[t].state \in States /\ token[t].kind \in Kinds
                /\ token[t].gen \in Nat /\ token[t].gen <= gens
                /\ token[t].to \in Addresses
                /\ lock[t] \in Requests \cup {None}
                /\ applied[t] \in 0 .. 2
<1> USE Types, Constants
<1>1. now \in Nat /\ gens \in Nat /\ gens <= MaxGen
  BY DEF Time
<1>2. /\ account.gen \in Nat /\ account.gen <= gens
      /\ account.created \in Nat /\ account.created <= now
      /\ account.email \in Addresses /\ account.pending \in Emails \cup {None}
  BY <1>1 DEF Accounts
<1>3. \A t \in Tokens : token[t] \in TokenRows(gens, now)
  OBVIOUS
<1>4. \A t \in Tokens :
        /\ token[t].state \in States /\ token[t].kind \in Kinds
        /\ token[t].gen \in Nat /\ token[t].gen <= gens
        /\ token[t].to \in Addresses
  BY <1>1, <1>3 DEF TokenRows
<1> QED
  BY <1>1, <1>2, <1>3, <1>4

\* Later, and with more accounts registered, a value of a type still has it.
LEMMA Widen ==
    ASSUME NEW g \in Nat, NEW h \in Nat, g <= h, NEW m \in Nat, NEW n \in Nat, m <= n
    PROVE  Accounts(g, m) \subseteq Accounts(h, n) /\ TokenRows(g, m) \subseteq TokenRows(h, n)
<1>1. 0 .. g \subseteq 0 .. h /\ 0 .. m \subseteq 0 .. n
  OBVIOUS
<1> QED
  BY <1>1 DEF Accounts, TokenRows

\* Request r goes on as q.
Moves(r, q) == q \in Record /\ request' = [request EXCEPT ![r] = q]

LEMMA Moved ==
    ASSUME RequestInv, NEW r \in Requests, NEW q, Moves(r, q)
    PROVE  /\ request' \in [Requests -> Record]
           /\ request'[r] = q
           /\ \A s \in Requests : s # r => request'[s] = request[s]
BY DEF Moves, RequestInv

LEMMA IdleRecord ==
    Idle \in Record /\ Idle.pc = "idle" /\ Idle.gen = 0 /\ Idle.prior = {}
BY Constants DEF Idle, Record, Addresses, Kinds, PCs

Req(pc, kind, gen, mail, tok, seen, prior) ==
    [pc |-> pc, kind |-> kind, gen |-> gen, mail |-> mail, token |-> tok, seen |-> seen,
     prior |-> prior]

LEMMA ReqRecord ==
    ASSUME NEW pc \in PCs, NEW kind \in Kinds, NEW gen \in Nat, NEW mail \in Addresses,
           NEW tok \in 0 .. MaxTokens, NEW seen \in Emails \cup {None},
           NEW prior \in SUBSET Tokens
    PROVE  Req(pc, kind, gen, mail, tok, seen, prior) \in Record
BY DEF Req, Record

LEMMA NoAccountType == ASSUME NEW g \in Nat, NEW n \in Nat PROVE NoAccount \in Accounts(g, n)
BY DEF NoAccount, Accounts, Addresses

\* create_token takes the first row that is free.
LEMMA FirstUnissued ==
    ASSUME TypeOK, NEW r \in Requests, NEW kind, NEW gen, NEW to, Issue(r, kind, gen, to)
    PROVE  /\ account.gen = gen
           /\ lock' = Unlocked(r)
           /\ \E t \in Tokens :
                /\ token[t].state = "unissued"
                /\ replaced' = [replaced EXCEPT ![t] = request[r].prior]
                /\ token' = [u \in Tokens |->
                     IF u = t THEN [state |-> "live", kind |-> kind, gen |-> gen,
                                    to |-> to, issued |-> now]
                     ELSE IF lock[u] = r THEN [token[u] EXCEPT !.state = "void"]
                     ELSE token[u]]
<1> DEFINE S == {u \in Tokens : token[u].state = "unissued"}
           First(u) == /\ token[u].state = "unissued"
                       /\ \A v \in 1 .. u - 1 : token[v].state # "unissued"
<1>1. S \subseteq Nat /\ S # {}
  BY Constants DEF Issue, Issuable, Tokens
<1>2. PICK u \in S : \A v \in S : <<v, u>> \notin OpToRel(<, Nat)
  BY <1>1, NatLessThanWellFounded, WFMin
<1>3. u \in Tokens /\ First(u)
  <2>0. u \in 1 .. MaxTokens
    BY DEF Tokens
  <2>1. \A v \in 1 .. u - 1 : v \in Tokens /\ v < u /\ v \in Nat
    BY ONLY <2>0, Constants DEF Tokens
  <2>2. \A v \in 1 .. u - 1 : v \notin S
    <3> SUFFICES ASSUME NEW v \in 1 .. u - 1, v \in S PROVE FALSE
      OBVIOUS
    <3>1. <<v, u>> \in OpToRel(<, Nat)
      BY <2>1, <1>1, <1>2 DEF OpToRel
    <3> QED BY <3>1, <1>2
  <2> QED BY <1>2, <2>1, <2>2
<1> HIDE DEF S
<1> DEFINE t == CHOOSE v \in Tokens : First(v)
<1>4. t \in Tokens /\ First(t)
  BY <1>3
<1> QED
  BY <1>4 DEF Issue

-----------------------------------------------------------------------------
(* One lemma for each part of the invariant: what a step must do, and leave *)
(* alone, to preserve it.                                                   *)

\* The clock and the ids only grow, and request r goes on as a record that
\* its label allows.
LEMMA KeepRequest ==
    ASSUME TypeOK, RequestInv, NEW r \in Requests, NEW q, Moves(r, q),
           gens' \in Nat, gens <= gens', q.gen <= gens',
           q.pc \in Bound => q.gen # 0, q.pc = "resend" => q.kind = "invite",
           q.pc \in {"patch", "cooled", "swap"} => q.mail \in Emails,
           q.pc = "consume" => q.token \in Tokens
    PROVE  RequestInv'
<1>1. /\ request' \in [Requests -> Record]
      /\ request'[r] = q
      /\ \A s \in Requests : s # r => request'[s] = request[s]
  BY Moved
<1>2. Tokens' = Tokens
  BY DEF Tokens
<1> SUFFICES ASSUME NEW s \in Requests
             PROVE  /\ request'[s].gen <= gens'
                    /\ request'[s].pc \in Bound => request'[s].gen # 0
                    /\ request'[s].pc = "resend" => request'[s].kind = "invite"
                    /\ request'[s].pc \in {"patch", "cooled", "swap"} => request'[s].mail \in Emails
                    /\ request'[s].pc = "consume" => request'[s].token \in Tokens
  BY <1>1, <1>2 DEF RequestInv, Bound
<1>3. request[s].gen \in Nat /\ request[s].gen <= gens /\ gens \in Nat
  BY Fields DEF RequestInv, Record
<1> QED
  BY <1>1, <1>3 DEF RequestInv

\* A transaction that ends gives its locks back; the tokens that others have
\* locked stay as they are.
LEMMA KeepLocksAtEnd ==
    ASSUME TypeOK, RequestInv, LockInv, ApplyInv, NEW r \in Requests, Done(r),
           lock' = Unlocked(r),
           \A t \in Tokens : lock[t] \notin {None, r} => token'[t] = token[t]
    PROVE  LockInv' /\ ApplyInv'
<1>1. /\ request'[r] = Idle
      /\ \A s \in Requests : s # r => request'[s] = request[s]
  BY Moved, IdleRecord DEF Done, Goto, Moves
<1>2. \A t \in Tokens : /\ lock'[t] = IF lock[t] = r THEN None ELSE lock[t]
                        /\ lock[t] \in Requests \cup {None}
  BY Fields DEF Unlocked
<1>3. Idle.pc \notin Applying
  BY IdleRecord DEF Applying, Kinds
<1>4. LockInv'
  <2> SUFFICES ASSUME NEW t \in Tokens, lock'[t] # None
               PROVE  /\ token'[t].state = "live"
                      /\ \/ request'[lock'[t]].pc \in Applying /\ request'[lock'[t]].token = t
                         \/ /\ request'[lock'[t]].pc = "issue"
                            /\ request'[lock'[t]].kind = token'[t].kind
                            /\ token'[t].kind \in {"invite", "reset"}
    BY DEF LockInv, Tokens, Applying, Kinds
  <2>1. lock[t] \in Requests /\ lock[t] # r /\ lock[t] # None /\ lock'[t] = lock[t]
    BY <1>2
  <2>2. token'[t] = token[t] /\ request'[lock[t]] = request[lock[t]]
    BY <2>1, <1>1
  <2> QED BY <2>1, <2>2 DEF LockInv
<1>5. ApplyInv'
  <2> SUFFICES ASSUME NEW s \in Requests, request'[s].pc \in Applying
               PROVE  /\ request'[s].token \in Tokens
                      /\ lock'[request'[s].token] = s
                      /\ token'[request'[s].token].kind = IF request'[s].pc = "swap" THEN "change"
                                                          ELSE request'[s].pc
    BY DEF ApplyInv, Tokens, Applying, Kinds
  <2>1. s # r /\ request'[s] = request[s]
    BY <1>1, <1>3
  <2>2. PICK t \in Tokens : t = request[s].token /\ lock[t] = s
    BY <2>1 DEF ApplyInv
  <2>3. lock'[t] = s /\ token'[t] = token[t]
    BY <2>1, <2>2, <1>2, Constants
  <2> QED BY <2>1, <2>2, <2>3 DEF ApplyInv
<1> QED
  BY <1>4, <1>5

\* Only a request that issues or applies holds locks.
LEMMA HoldsNone ==
    ASSUME TypeOK, LockInv, NEW r \in Requests, request[r].pc \notin Applying \cup {"issue"}
    PROVE  lock = Unlocked(r) /\ \A t \in Tokens : lock[t] # r
<1>1. \A t \in Tokens : lock[t] # r
  BY Constants DEF LockInv
<1>2. lock \in [Tokens -> Requests \cup {None}]
  BY Types
<1> QED
  BY <1>1, <1>2 DEF Unlocked

\* A request without locks goes on to a label that needs none.
LEMMA KeepLocks ==
    ASSUME TypeOK, RequestInv, LockInv, ApplyInv, NEW r \in Requests, NEW q, Moves(r, q),
           request[r].pc \notin Applying \cup {"issue"}, q.pc \notin Applying,
           lock' = lock, token' = token
    PROVE  LockInv' /\ ApplyInv'
<1>1. /\ request'[r] = q
      /\ \A s \in Requests : s # r => request'[s] = request[s]
  BY Moved
<1>2. \A t \in Tokens : lock[t] # r /\ lock[t] \in Requests \cup {None}
  BY HoldsNone, Fields
<1>3. \A t \in Tokens : lock[t] # None => request'[lock[t]] = request[lock[t]]
  BY <1>1, <1>2
<1>4. LockInv'
  BY <1>3 DEF LockInv, Tokens, Applying, Kinds
<1>5. ApplyInv'
  BY <1>1 DEF ApplyInv, Tokens, Applying, Kinds
<1> QED
  BY <1>4, <1>5

\* The account and the token keep to each other.
LEMMA KeepLive ==
    ASSUME LiveInv, account'.gen = account.gen,
           \A t \in Tokens : token'[t].state \in {"live", "spent", "void"} =>
                \/ token'[t].gen = account.gen /\ account.gen # 0
                \/ /\ token[t].state \in {"live", "spent", "void"}
                   /\ token'[t].gen = token[t].gen
    PROVE  LiveInv'
BY DEF LiveInv, Tokens

\* Time passes; the account stays, or goes, or is a new one.
LEMMA KeepPurge ==
    ASSUME TypeOK, RequestInv, PurgeInv, now' \in Nat, now <= now',
           \A s \in Requests : request'[s].pc = "purge" => request'[s] = request[s],
           \/ account'.gen = account.gen /\ account'.created = account.created
           \/ account'.gen = 0
           \/ account'.gen = gens + 1
    PROVE  PurgeInv'
<1> SUFFICES ASSUME NEW s \in Requests,
                    request'[s].pc = "purge", request'[s].gen = account'.gen
             PROVE  account'.created + PurgeAfter < now'
  BY DEF PurgeInv
<1>1. /\ request'[s] = request[s] /\ request[s].gen \in Nat
      /\ request[s].gen <= gens /\ request[s].gen # 0
  BY DEF RequestInv, Record, Bound
<1>2. account'.gen = account.gen /\ account'.created = account.created
  BY <1>1, Fields
<1>3. account.created + PurgeAfter < now
  BY <1>1, <1>2 DEF PurgeInv
<1> QED
  BY <1>2, <1>3, Fields, Constants

\* Only a request between its UPDATE and its INSERT has tokens to replace.
LEMMA NoPrior ==
    ASSUME RequestInv, PriorInv, NEW r \in Requests,
           request[r].pc \notin {"invalidate", "issue"}
    PROVE  request[r].prior = {}
BY DEF RequestInv, Record, PriorInv

\* No request finds tokens to replace; those found before do not come to
\* life, and stay locked as long as they live.
LEMMA KeepPrior ==
    ASSUME PriorInv,
           \A s \in Requests : request'[s] = request[s] \/ request'[s].prior = {},
           \A s \in Requests, t \in Tokens :
                request'[s] = request[s] /\ t \in request[s].prior
                /\ token[t].state # "unissued"
                => /\ token'[t].state # "unissued"
                   /\ token'[t].state = "live" =>
                        /\ token[t].state = "live" /\ token'[t].kind = token[t].kind
                        /\ lock[t] = s => lock'[t] = s
    PROVE  PriorInv'
<1> SUFFICES ASSUME NEW s \in Requests, NEW t \in Tokens, t \in request'[s].prior
             PROVE  /\ request'[s].pc \in {"invalidate", "issue"}
                    /\ request'[s].kind \in {"invite", "reset"}
                    /\ token'[t].state # "unissued"
                    /\ token'[t].state = "live" =>
                         /\ token'[t].kind = request'[s].kind
                         /\ request'[s].pc = "issue" => lock'[t] = s
  BY DEF PriorInv, Tokens
<1>1. request'[s] = request[s] /\ t \in request[s].prior
  OBVIOUS
<1> QED
  BY <1>1 DEF PriorInv

\* A dead token stays dead.
LEMMA KeepDead ==
    ASSUME TypeOK, ReplacedStayDead, replaced' = replaced,
           \A t \in Tokens : token[t].state \in {"spent", "void", "gone"}
                => token'[t].state \in {"spent", "void", "gone"}
    PROVE  ReplacedStayDead'
<1>1. \A t \in Tokens : replaced[t] \subseteq Tokens
  BY Types
<1> QED
  BY <1>1 DEF ReplacedStayDead, Tokens

\* The token of the pending address stays.
LEMMA KeepPending ==
    ASSUME PendingHasToken, account'.pending = account.pending, account'.gen = account.gen,
           \A t \in Tokens : token[t].state = "live" /\ token[t].kind = "change"
                => token'[t] = token[t]
    PROVE  PendingHasToken'
BY DEF PendingHasToken, Tokens

\* A step that changes no token, no account and no id: what is left to see
\* is the request, its locks and what it is to replace.
LEMMA Quiet ==
    ASSUME IInv, NEW r \in Requests, NEW q, Moves(r, q),
           UNCHANGED <<now, account, gens, taken, token, applied, replaced>>,
           TypeOK', RequestInv', LockInv', ApplyInv', PriorInv',
           q.pc = "purge" => account.created + PurgeAfter < now
    PROVE  IInv'
<1>1. /\ request'[r] = q
      /\ \A s \in Requests : s # r => request'[s] = request[s]
  BY Moved DEF IInv
<1>2. LiveInv'
  BY KeepLive DEF IInv
<1>3. PurgeInv'
  BY <1>1 DEF IInv, PurgeInv
<1>4. ReplacedStayDead' /\ PendingHasToken' /\ SpentIffApplied'
  BY DEF IInv, ReplacedStayDead, PendingHasToken, SpentIffApplied, Tokens
<1> QED
  BY <1>2, <1>3, <1>4 DEF IInv

-----------------------------------------------------------------------------
(* The initial states.                                                     *)

LEMMA InitInv == Init => IInv
<1> SUFFICES ASSUME Init PROVE IInv
  OBVIOUS
<1>1. /\ now = 0 /\ taken = {}
      /\ token = [t \in Tokens |-> NoToken]
      /\ lock = [t \in Tokens |-> None]
      /\ cooldown = [e \in Emails |-> 0]
      /\ request = [r \in Requests |-> Idle]
      /\ applied = [t \in Tokens |-> 0]
      /\ replaced = [t \in Tokens |-> {}]
  BY Zenon DEF Init
<1>2. /\ account \in Accounts(gens, now) /\ gens \in 0 .. MaxGen
      /\ account.pending = None
  <2>1. CASE account = NoAccount /\ gens = 0
    <3>1. NoAccount.pending = None
      BY DEF NoAccount
    <3> QED BY <3>1, <2>1, <1>1, NoAccountType, Constants
  <2>2. ASSUME NEW e \in Emails, gens = 1,
               account = [NoAccount EXCEPT !.gen = 1, !.email = Lower[e], !.verified = TRUE]
        PROVE  /\ account \in Accounts(gens, now) /\ gens \in 0 .. MaxGen
               /\ account.pending = None
    <3>1. Lower[e] \in Emails
      BY Constants
    <3>2. account = [gen |-> 1, email |-> Lower[e], pending |-> None, verified |-> TRUE,
                     invited |-> FALSE, created |-> 0]
      BY <2>2 DEF NoAccount
    <3>3. 1 \in 0 .. gens /\ 0 \in 0 .. now /\ gens \in 0 .. MaxGen
      BY ONLY <2>2, <1>1, Constants
    <3>4. account.pending = None
      BY ONLY <3>2
    <3>5. Lower[e] \in Addresses /\ None \in Emails \cup {None}
      BY <3>1 DEF Addresses
    <3>6. account \in Accounts(gens, now)
      BY ONLY <3>2, <3>3, <3>5, Zenon DEF Accounts
    <3> QED BY ONLY <3>3, <3>4, <3>6
  <2> QED BY <2>1, <2>2, Zenon DEF Init
<1>3. gens \in Nat
  BY <1>2, Constants
<1>4. TypeOK
  <2>1. NoToken \in TokenRows(gens, now)
    BY ONLY <1>1, <1>3 DEF NoToken, TokenRows, States, Kinds, Addresses
  <2> QED BY ONLY <2>1, <1>1, <1>2, Types, Constants DEF Time
<1>5. RequestInv
  BY ONLY <1>1, <1>3, IdleRecord DEF RequestInv, Bound
<1>6. NoToken.state = "unissued"
  BY DEF NoToken
<1>7. LockInv /\ ApplyInv /\ LiveInv /\ PurgeInv
  BY ONLY <1>1, <1>6, IdleRecord DEF LockInv, ApplyInv, LiveInv, PurgeInv, Applying, Kinds
<1>8. ReplacedStayDead /\ SpentIffApplied /\ PendingHasToken
  BY ONLY <1>1, <1>2, <1>6 DEF ReplacedStayDead, SpentIffApplied, PendingHasToken
<1>9. PriorInv
  BY ONLY <1>1, IdleRecord DEF PriorInv
<1> QED
  BY <1>4, <1>5, <1>7, <1>8, <1>9 DEF IInv

-----------------------------------------------------------------------------
(* The steps, one lemma for each.                                          *)

\* A transaction that ends without having written anything: ROLLBACK.
LEMMA EndsQuietly ==
    ASSUME IInv, NEW r \in Requests, Done(r), lock' = Unlocked(r),
           UNCHANGED <<now, account, gens, taken, token, cooldown, applied, replaced>>
    PROVE  IInv'
<1> USE DEF IInv
<1>1. Moves(r, Idle) /\ Idle.pc = "idle" /\ Idle.gen = 0 /\ Idle.prior = {}
  BY IdleRecord DEF Moves, Done, Goto
<1>2. TypeOK'
  <2>1. lock' \in [Tokens -> Requests \cup {None}]
    BY Fields DEF Unlocked
  <2> QED BY <2>1, Types, TypesNext
<1>3. RequestInv'
  BY <1>1, KeepRequest, Fields DEF Bound
<1>4. LockInv' /\ ApplyInv'
  BY KeepLocksAtEnd
<1>5. PriorInv'
  <2>1. \A s \in Requests : request'[s] = IF s = r THEN Idle ELSE request[s]
    BY <1>1, Moved
  <2>2. \A s \in Requests, t \in Tokens : s # r /\ lock[t] = s => lock'[t] = s
    BY DEF Unlocked
  <2> QED BY <1>1, <2>1, <2>2, KeepPrior
<1> QED
  BY <1>1, <1>2, <1>3, <1>4, <1>5, Quiet

LEMMA FailStep == ASSUME IInv, NEW r \in Requests, Fail(r) PROVE IInv'
BY EndsQuietly DEF Fail, history

\* A request begins and reads; it takes no lock.
LEMMA Begins ==
    ASSUME IInv, NEW r \in Requests, Free(r), NEW q, Moves(r, q),
           UNCHANGED <<now, account, gens, taken, token, lock, cooldown, applied, replaced>>,
           q.gen = account.gen \/ q.gen = 0, q.pc \in Bound => q.gen # 0,
           q.pc \notin Applying \cup {"cooled"}, q.prior = {},
           q.pc = "resend" => q.kind = "invite",
           q.pc = "patch" => q.mail \in Emails,
           q.pc = "consume" => q.token \in Tokens,
           q.pc = "purge" => account.created + PurgeAfter < now
    PROVE  IInv'
<1> USE DEF IInv
<1>1. TypeOK'
  BY Types, TypesNext
<1>2. RequestInv'
  BY KeepRequest, Fields DEF Applying
<1>3. LockInv' /\ ApplyInv'
  BY KeepLocks DEF Free, Applying, Kinds
<1>4. PriorInv'
  <2>1. \A s \in Requests : request'[s] = IF s = r THEN q ELSE request[s]
    BY Moved
  <2> QED BY <2>1, KeepPrior
<1> QED
  BY <1>1, <1>2, <1>3, <1>4, Quiet

LEMMA ResendVerificationStep ==
    ASSUME IInv, NEW r \in Requests, NEW e \in Emails, ResendVerification(r, e)
    PROVE  IInv'
<1>0. PICK q : q = [Idle EXCEPT !.pc = "issue", !.gen = account.gen, !.mail = account.email]
  OBVIOUS
<1>1. q = Req("issue", "verify", account.gen, account.email, 0, None, {})
  BY <1>0 DEF Req, Idle
<1>2. q \in Record
  <2>1. /\ "issue" \in PCs /\ "verify" \in Kinds /\ 0 \in 0 .. MaxTokens
        /\ None \in Emails \cup {None} /\ {} \in SUBSET Tokens
    BY Constants DEF PCs, Kinds, Addresses
  <2>2. account.gen \in Nat /\ account.email \in Addresses
        /\ account.pending \in Emails \cup {None}
    BY Fields DEF IInv
  <2> QED BY ONLY <1>1, <2>1, <2>2, ReqRecord
<1>3. q.pc = "issue" /\ q.kind = "verify" /\ q.gen = account.gen /\ q.prior = {}
  BY <1>1 DEF Req
<1> QED
  BY <1>0, <1>2, <1>3, Begins
  DEF ResendVerification, Moves, Goto, Exists, Applying, Kinds, Bound, history

LEMMA PatchReadStep ==
    ASSUME IInv, NEW r \in Requests, NEW e \in Emails, PatchRead(r, e)
    PROVE  IInv'
<1>0. PICK q : q = [Idle EXCEPT !.pc = "patch", !.gen = account.gen, !.mail = e,
                              !.seen = account.pending]
  OBVIOUS
<1>1. q = Req("patch", "verify", account.gen, e, 0, account.pending, {})
  BY <1>0 DEF Req, Idle
<1>2. q \in Record
  <2>1. /\ "patch" \in PCs /\ "verify" \in Kinds /\ 0 \in 0 .. MaxTokens
        /\ None \in Emails \cup {None} /\ {} \in SUBSET Tokens /\ e \in Addresses
    BY Constants DEF PCs, Kinds, Addresses
  <2>2. account.gen \in Nat /\ account.email \in Addresses
        /\ account.pending \in Emails \cup {None}
    BY Fields DEF IInv
  <2> QED BY ONLY <1>1, <2>1, <2>2, ReqRecord
<1>3. q.pc = "patch" /\ q.mail = e /\ q.gen = account.gen /\ q.prior = {}
  BY <1>1 DEF Req
<1> QED
  BY <1>0, <1>2, <1>3, Begins
  DEF PatchRead, Moves, Goto, Exists, Applying, Kinds, Bound, history

LEMMA PurgeFindStep == ASSUME IInv, NEW r \in Requests, PurgeFind(r) PROVE IInv'
<1>0. PICK q : q = [Idle EXCEPT !.pc = "purge", !.gen = account.gen, !.mail = account.email]
  OBVIOUS
<1>1. q = Req("purge", "verify", account.gen, account.email, 0, None, {})
  BY <1>0 DEF Req, Idle
<1>2. q \in Record
  <2>1. /\ "purge" \in PCs /\ "verify" \in Kinds /\ 0 \in 0 .. MaxTokens
        /\ None \in Emails \cup {None} /\ {} \in SUBSET Tokens
    BY Constants DEF PCs, Kinds, Addresses
  <2>2. account.gen \in Nat /\ account.email \in Addresses
        /\ account.pending \in Emails \cup {None}
    BY Fields DEF IInv
  <2> QED BY ONLY <1>1, <2>1, <2>2, ReqRecord
<1>3. q.pc = "purge" /\ q.gen = account.gen /\ q.prior = {}
  BY <1>1 DEF Req
<1> QED
  BY <1>0, <1>2, <1>3, Begins
  DEF PurgeFind, Moves, Goto, Exists, Applying, Kinds, Bound, history

LEMMA ReadTokenStep ==
    ASSUME IInv, NEW r \in Requests, NEW t \in Tokens, ReadToken(r, t)
    PROVE  IInv'
<1>0. PICK q : q = [Idle EXCEPT !.pc = "consume", !.token = t]
  OBVIOUS
<1>1. q = Req("consume", "verify", 0, None, t, None, {})
  BY <1>0 DEF Req, Idle
<1>2. q \in Record
  <2>1. /\ "consume" \in PCs /\ "verify" \in Kinds /\ None \in Addresses
        /\ t \in 0 .. MaxTokens /\ {} \in SUBSET Tokens
    BY Constants DEF PCs, Kinds, Addresses, Tokens
  <2> QED BY <1>1, <2>1, ReqRecord
<1>3. q.pc = "consume" /\ q.token = t /\ q.gen = 0 /\ q.prior = {}
  BY <1>1 DEF Req
<1> QED
  BY <1>0, <1>2, <1>3, Begins
  DEF ReadToken, Moves, Goto, Applying, Kinds, Bound, history

\* A users row is inserted where there was none: no token of a former row is
\* left, and no request remembers its id.
LEMMA NewAccountStep ==
    ASSUME IInv, NEW r \in Requests, Free(r), ~Exists, gens < MaxGen,
           NEW e \in Emails, NEW b \in BOOLEAN, account' = NewAccount(e, b), gens' = gens + 1,
           NEW q, Moves(r, q), q.pc = "issue", q.prior = {}, q.gen = gens + 1,
           UNCHANGED <<now, taken, token, lock, cooldown, applied, replaced>>
    PROVE  IInv'
<1> USE DEF IInv
<1>1. /\ now \in Nat /\ gens \in Nat /\ gens + 1 \in Nat
  BY Fields
<1>2. account' = [gen |-> gens + 1, email |-> Lower[e], pending |-> None, verified |-> FALSE,
                  invited |-> b, created |-> now]
  BY DEF NewAccount, NoAccount
<1>3. account'.gen = gens + 1 /\ account'.pending = None
  BY ONLY <1>2
<1>4. TypeOK'
  <2>1. gens + 1 \in 0 .. gens + 1 /\ now \in 0 .. now /\ gens + 1 \in 0 .. MaxGen
    BY <1>1, Constants
  <2>2. Lower[e] \in Addresses /\ None \in Emails \cup {None}
    BY Constants DEF Addresses
  <2>3. account' \in Accounts(gens + 1, now)
    BY ONLY <1>2, <2>1, <2>2, b \in BOOLEAN, Zenon DEF Accounts
  <2>4. token' \in [Tokens -> TokenRows(gens + 1, now)]
    <3>1. TokenRows(gens, now) \subseteq TokenRows(gens + 1, now)
      BY <1>1, Widen
    <3> QED BY <3>1, Types
  <2> QED BY <2>1, <2>3, <2>4, Types, TypesNext
<1>5. \A s \in Requests : request'[s] = IF s = r THEN q ELSE request[s]
  BY Moved
<1>6. RequestInv'
  BY <1>1, KeepRequest
<1>7. LockInv' /\ ApplyInv'
  BY KeepLocks DEF Free, Applying, Kinds
<1>8. LiveInv' /\ SpentIffApplied' /\ ReplacedStayDead'
  BY DEF LiveInv, Exists, SpentIffApplied, ReplacedStayDead, Tokens
<1>9. PurgeInv'
  BY <1>1, <1>3, <1>5, KeepPurge
<1>10. PriorInv'
  BY <1>5, KeepPrior
<1>11. PendingHasToken'
  BY <1>3 DEF PendingHasToken
<1> QED
  BY <1>4, <1>6, <1>7, <1>8, <1>9, <1>10, <1>11

LEMMA RegisterStep ==
    ASSUME IInv, NEW r \in Requests, NEW e \in Emails, Register(r, e) \/ CreateUser(r, e)
    PROVE  IInv'
<1>1. gens \in Nat /\ gens + 1 \in Nat /\ Lower[e] \in Addresses
      /\ 0 \in 0 .. MaxTokens /\ None \in Emails \cup {None}
  BY Fields, Constants DEF IInv, Addresses
<1>2. CASE Register(r, e)
  <2>0. PICK q : q = [Idle EXCEPT !.pc = "issue", !.gen = gens + 1, !.mail = Lower[e]]
    OBVIOUS
  <2>1. q = Req("issue", "verify", gens + 1, Lower[e], 0, None, {})
    BY <2>0 DEF Req, Idle
  <2>2. q \in Record
    <3>1. "issue" \in PCs /\ "verify" \in Kinds
      BY DEF PCs, Kinds
    <3> QED BY ONLY <2>1, <3>1, <1>1, ReqRecord
  <2>3. q.pc = "issue" /\ q.prior = {} /\ q.gen = gens + 1
    BY <2>1 DEF Req
  <2> QED BY <1>2, <2>0, <2>2, <2>3, NewAccountStep DEF Register, Moves, Goto, history
<1>3. CASE CreateUser(r, e)
  <2>0. PICK q : q = [Idle EXCEPT !.pc = "issue", !.kind = "invite", !.gen = gens + 1,
                                  !.mail = Lower[e]]
    OBVIOUS
  <2>1. q = Req("issue", "invite", gens + 1, Lower[e], 0, None, {})
    BY <2>0 DEF Req, Idle
  <2>2. q \in Record
    <3>1. "issue" \in PCs /\ "invite" \in Kinds
      BY DEF PCs, Kinds
    <3> QED BY ONLY <2>1, <3>1, <1>1, ReqRecord
  <2>3. q.pc = "issue" /\ q.prior = {} /\ q.gen = gens + 1
    BY <2>1 DEF Req
  <2> QED BY <1>3, <2>0, <2>2, <2>3, NewAccountStep DEF CreateUser, Moves, Goto, history
<1> QED
  BY <1>2, <1>3

\* The conditional UPDATE locks a live token that nobody has locked.
LEMMA ConsumeStep == ASSUME IInv, NEW r \in Requests, Consume(r) PROVE IInv'
<1> USE DEF IInv
<1>1. PICK t \in Tokens : t = request[r].token /\ request[r].pc = "consume" /\ lock[t] = None
  BY DEF Consume, RequestInv
<1>2. lock = Unlocked(r) /\ \A u \in Tokens : lock[u] # r
  BY <1>1, HoldsNone DEF Applying, Kinds
<1>3. CASE token[t].state # "live"
  BY <1>1, <1>2, <1>3, EndsQuietly DEF Consume, history
<1>4. CASE token[t].state = "live"
  <2>1. PICK q : q = [request[r] EXCEPT !.pc = token[t].kind]
    OBVIOUS
  <2>2. /\ q \in Record /\ q.pc = token[t].kind /\ q.pc \in Kinds
        /\ q.token = t /\ q.gen = request[r].gen /\ q.prior = {}
    BY <2>1, <1>1, NoPrior, Fields DEF RequestInv, Record, PCs, Applying
  <2>3. /\ Moves(r, q) /\ lock' = [lock EXCEPT ![t] = r]
        /\ UNCHANGED <<now, account, gens, taken, token, cooldown, applied, replaced>>
    BY <2>1, <2>2, <1>1, <1>4 DEF Consume, Moves, Goto, history
  <2>4. \A s \in Requests : request'[s] = IF s = r THEN q ELSE request[s]
    BY <2>3, Moved
  <2>5. \A u \in Tokens : lock'[u] = IF u = t THEN r ELSE lock[u]
    BY <2>3, Types
  <2>6. TypeOK'
    <3>1. lock' \in [Tokens -> Requests \cup {None}]
      BY <2>3, Types
    <3> QED BY <3>1, <2>3, Types, TypesNext
  <2>7. RequestInv'
    <3>1. q.gen <= gens /\ gens \in Nat
      BY <2>2, Fields DEF RequestInv
    <3> QED BY <3>1, <2>2, <2>3, KeepRequest DEF Kinds, Bound
  <2>8. LockInv'
    <3> SUFFICES ASSUME NEW u \in Tokens, lock'[u] # None
                 PROVE  /\ token'[u].state = "live"
                        /\ \/ request'[lock'[u]].pc \in Applying /\ request'[lock'[u]].token = u
                           \/ /\ request'[lock'[u]].pc = "issue"
                              /\ request'[lock'[u]].kind = token'[u].kind
                              /\ token'[u].kind \in {"invite", "reset"}
      BY DEF LockInv, Tokens, Applying, Kinds
    <3>1. CASE u = t
      BY <3>1, <1>4, <2>2, <2>3, <2>4, <2>5 DEF Applying
    <3>2. CASE u # t
      <4>1. lock[u] # None /\ lock[u] # r /\ lock'[u] = lock[u] /\ lock[u] \in Requests
        BY <3>2, <2>5, <1>2, Fields
      <4> QED BY <4>1, <2>3, <2>4 DEF LockInv
    <3> QED BY <3>1, <3>2
  <2>9. ApplyInv'
    <3> SUFFICES ASSUME NEW s \in Requests, request'[s].pc \in Applying
                 PROVE  /\ request'[s].token \in Tokens
                        /\ lock'[request'[s].token] = s
                        /\ token'[request'[s].token].kind
                             = IF request'[s].pc = "swap" THEN "change" ELSE request'[s].pc
      BY DEF ApplyInv, Tokens, Applying, Kinds
    <3>1. CASE s = r
      BY <3>1, <2>2, <2>3, <2>4, <2>5 DEF Kinds
    <3>2. CASE s # r
      <4>1. request'[s] = request[s] /\ request[s].token \in Tokens /\ lock[request[s].token] = s
        BY <3>2, <2>4 DEF ApplyInv
      <4>2. request[s].token # t
        BY <4>1, <1>1, Constants
      <4> QED BY <4>1, <4>2, <2>3, <2>5 DEF ApplyInv
    <3> QED BY <3>1, <3>2
  <2>10. PriorInv'
    <3>1. \A s \in Requests, u \in Tokens : lock[u] = s => lock'[u] = s
      BY <2>5, <1>1, Constants
    <3> QED BY <3>1, <2>2, <2>3, <2>4, KeepPrior
  <2> QED BY <2>2, <2>3, <2>6, <2>7, <2>8, <2>9, <2>10, Quiet DEF Kinds
<1> QED
  BY <1>3, <1>4

LEMMA ReadPendingStep == ASSUME IInv, NEW r \in Requests, ReadPending(r) PROVE IInv'
<1> USE DEF IInv
<1>1. request[r].pc = "change"
  BY DEF ReadPending
<1>2. CASE account.pending = None
  BY <1>2, EndsQuietly DEF ReadPending, history
<1>3. CASE account.pending # None
  <2>1. PICK q : q = [request[r] EXCEPT !.pc = "swap", !.mail = account.pending]
    OBVIOUS
  <2>2. /\ q \in Record /\ q.pc = "swap" /\ q.mail \in Emails
        /\ q.token = request[r].token /\ q.gen = request[r].gen /\ q.prior = {}
    BY <2>1, <1>1, <1>3, NoPrior, Fields DEF RequestInv, Record, PCs, Applying, Addresses
  <2>3. /\ Moves(r, q) /\ lock' = lock
        /\ UNCHANGED <<now, account, gens, taken, token, cooldown, applied, replaced>>
    BY <2>1, <2>2, <1>3 DEF ReadPending, Moves, Goto, history
  <2>4. \A s \in Requests : request'[s] = IF s = r THEN q ELSE request[s]
    BY <2>3, Moved
  <2>5. TypeOK'
    BY <2>3, Types, TypesNext
  <2>6. RequestInv'
    <3>1. q.gen <= gens /\ gens \in Nat
      BY <2>2, Fields DEF RequestInv
    <3> QED BY <3>1, <2>2, <2>3, KeepRequest DEF Bound
  <2>7. LockInv'
    <3>1. \A t \in Tokens : lock[t] # None =>
            \/ request'[lock[t]] = request[lock[t]]
            \/ /\ request[lock[t]].pc = "change" /\ request'[lock[t]].pc \in Applying
               /\ request'[lock[t]].token = request[lock[t]].token
      BY <2>2, <2>4, <1>1, Fields DEF Applying
    <3> QED BY <3>1, <2>3 DEF LockInv, Tokens, Applying, Kinds
  <2>8. ApplyInv'
    BY <2>2, <2>3, <2>4, <1>1 DEF ApplyInv, Tokens, Applying, Kinds
  <2>9. PriorInv'
    BY <2>2, <2>3, <2>4, KeepPrior
  <2> QED BY <2>2, <2>3, <2>5, <2>6, <2>7, <2>8, <2>9, Quiet
<1> QED
  BY <1>2, <1>3

\* A request locks the live tokens it is about to replace; nobody else had
\* locked them.
LEMMA LockAll ==
    ASSUME IInv, NEW r \in Requests, request[r].pc \notin Applying \cup {"issue"},
           NEW q, Moves(r, q), q.pc = "issue",
           NEW L, \A t \in Tokens : t \in L =>
                     /\ lock[t] = None /\ token[t].state = "live"
                     /\ token[t].kind = q.kind /\ q.kind \in {"invite", "reset"},
           lock' = [t \in Tokens |-> IF t \in L THEN r ELSE lock[t]], token' = token
    PROVE  /\ LockInv' /\ ApplyInv'
           /\ lock' \in [Tokens -> Requests \cup {None}]
<1> USE DEF IInv
<1>1. \A s \in Requests : request'[s] = IF s = r THEN q ELSE request[s]
  BY Moved
<1>2. \A u \in Tokens : /\ lock'[u] = IF u \in L THEN r ELSE lock[u]
                        /\ lock[u] \in Requests \cup {None} /\ lock[u] # r
  BY HoldsNone, Fields
<1>3. LockInv'
  <2> SUFFICES ASSUME NEW u \in Tokens, lock'[u] # None
               PROVE  /\ token'[u].state = "live"
                      /\ \/ request'[lock'[u]].pc \in Applying /\ request'[lock'[u]].token = u
                         \/ /\ request'[lock'[u]].pc = "issue"
                            /\ request'[lock'[u]].kind = token'[u].kind
                            /\ token'[u].kind \in {"invite", "reset"}
    BY DEF LockInv, Tokens, Applying, Kinds
  <2>1. CASE u \in L
    BY <2>1, <1>1, <1>2
  <2>2. CASE u \notin L
    <3>1. lock'[u] = lock[u] /\ lock[u] \in Requests /\ request'[lock[u]] = request[lock[u]]
      BY <2>2, <1>1, <1>2
    <3> QED BY <3>1 DEF LockInv
  <2> QED BY <2>1, <2>2
<1>4. ApplyInv'
  <2> SUFFICES ASSUME NEW s \in Requests, request'[s].pc \in Applying
               PROVE  /\ request'[s].token \in Tokens
                      /\ lock'[request'[s].token] = s
                      /\ token'[request'[s].token].kind
                           = IF request'[s].pc = "swap" THEN "change" ELSE request'[s].pc
    BY DEF ApplyInv, Tokens, Applying, Kinds
  <2>1. s # r /\ request'[s] = request[s]
    BY <1>1 DEF Applying, Kinds
  <2>2. request[s].token \in Tokens /\ lock[request[s].token] = s
    BY <2>1 DEF ApplyInv
  <2>3. request[s].token \notin L
    BY <2>2, Constants
  <2> QED BY <2>1, <2>2, <2>3, <1>2 DEF ApplyInv
<1> QED
  BY <1>2, <1>3, <1>4

LEMMA ResendInviteStep == ASSUME IInv, NEW r \in Requests, ResendInvite(r) PROVE IInv'
<1>0. PICK q : q = [Idle EXCEPT !.pc = "resend", !.kind = "invite", !.gen = account.gen,
                                !.mail = account.email]
  OBVIOUS
<1>1. q = Req("resend", "invite", account.gen, account.email, 0, None, {})
  BY <1>0 DEF Req, Idle
<1>2. q \in Record
  <2>1. /\ "resend" \in PCs /\ "invite" \in Kinds /\ 0 \in 0 .. MaxTokens
        /\ None \in Emails \cup {None} /\ {} \in SUBSET Tokens
    BY Constants DEF PCs, Kinds, Addresses
  <2>2. account.gen \in Nat /\ account.email \in Addresses
        /\ account.pending \in Emails \cup {None}
    BY Fields DEF IInv
  <2> QED BY ONLY <1>1, <2>1, <2>2, ReqRecord
<1>3. q.pc = "resend" /\ q.kind = "invite" /\ q.gen = account.gen /\ q.prior = {}
  BY <1>1 DEF Req
<1> QED
  BY <1>0, <1>2, <1>3, Begins
  DEF ResendInvite, Moves, Goto, Exists, Applying, Kinds, Bound, history

\* A request finds the live tokens that it is to replace.
LEMMA FindsPrior ==
    ASSUME IInv, NEW r \in Requests, request[r].pc \notin Applying \cup {"issue"},
           NEW q, Moves(r, q), q.pc = "invalidate", q.gen # 0, q.gen <= gens,
           q.kind \in {"invite", "reset"},
           \A t \in q.prior : token[t].state = "live" /\ token[t].kind = q.kind,
           UNCHANGED <<now, account, gens, taken, token, lock, cooldown, applied, replaced>>
    PROVE  IInv'
<1> USE DEF IInv
<1>1. TypeOK'
  BY Types, TypesNext
<1>2. RequestInv'
  BY KeepRequest, Fields
<1>3. LockInv' /\ ApplyInv'
  BY KeepLocks DEF Applying, Kinds
<1>4. PriorInv'
  <2>1. \A s \in Requests : request'[s] = IF s = r THEN q ELSE request[s]
    BY Moved
  <2> QED BY <2>1 DEF PriorInv, Tokens
<1> QED
  BY <1>1, <1>2, <1>3, <1>4, Quiet

LEMMA ReadPriorStep == ASSUME IInv, NEW r \in Requests, ReadPrior(r) PROVE IInv'
<1> USE DEF IInv
<1>1. /\ request[r] \in Record /\ request[r].pc = "resend" /\ request[r].kind = "invite"
      /\ request[r].gen # 0 /\ request[r].gen <= gens
  BY DEF ReadPrior, RequestInv, Bound
<1>2. PICK P : P = LatestOf(LiveOf("invite", request[r].gen))
  OBVIOUS
<1>3. P \in SUBSET Tokens /\ \A t \in P : token[t].state = "live" /\ token[t].kind = "invite"
  BY <1>2 DEF LatestOf, LiveOf
<1>4. PICK q : q = [request[r] EXCEPT !.pc = "invalidate", !.prior = P]
  OBVIOUS
<1>5. /\ q \in Record /\ q.pc = "invalidate" /\ q.prior = P
      /\ q.kind = request[r].kind /\ q.gen = request[r].gen
  BY <1>1, <1>3, <1>4 DEF Record, PCs
<1>6. /\ Moves(r, q)
      /\ UNCHANGED <<now, account, gens, taken, token, lock, cooldown, applied, replaced>>
  BY <1>2, <1>4, <1>5 DEF ReadPrior, Moves, Goto, history
<1> QED
  BY <1>1, <1>3, <1>5, <1>6, FindsPrior DEF Applying, Kinds

LEMMA ResetFindStep == ASSUME IInv, NEW r \in Requests, ResetFind(r) PROVE IInv'
<1> USE DEF IInv
<1> DEFINE A == /\ Exists /\ account.email \in Emails /\ account.verified
                /\ Lower[account.email] = request[r].mail
<1>1. request[r].pc = "cooled"
  BY DEF ResetFind
<1>2. CASE ~A
  <2>1. lock = Unlocked(r)
    BY <1>1, HoldsNone DEF Applying, Kinds
  <2> QED BY <1>2, <2>1, EndsQuietly DEF ResetFind, history
<1>3. CASE A
  <2>1. PICK P : P = LiveOf("reset", account.gen)
    OBVIOUS
  <2>2. P \in SUBSET Tokens /\ \A t \in P : token[t].state = "live" /\ token[t].kind = "reset"
    BY <2>1 DEF LiveOf
  <2>3. PICK q : q = [Idle EXCEPT !.pc = "invalidate", !.kind = "reset", !.gen = account.gen,
                                  !.mail = account.email, !.prior = P]
    OBVIOUS
  <2>4. q = Req("invalidate", "reset", account.gen, account.email, 0, None, P)
    BY <2>3 DEF Req, Idle
  <2>5. q \in Record
    <3>1. "invalidate" \in PCs /\ "reset" \in Kinds /\ 0 \in 0 .. MaxTokens
      BY Constants DEF PCs, Kinds
    <3> QED BY <2>2, <2>4, <3>1, ReqRecord, Fields
  <2>6. q.pc = "invalidate" /\ q.kind = "reset" /\ q.gen = account.gen /\ q.prior = P
    BY <2>4 DEF Req
  <2>7. /\ Moves(r, q) /\ account.gen # 0 /\ account.gen <= gens
        /\ UNCHANGED <<now, account, gens, taken, token, lock, cooldown, applied, replaced>>
    BY <2>1, <2>3, <2>5, <1>3, Fields DEF ResetFind, Moves, Goto, Exists, history
  <2> HIDE DEF A
  <2> QED BY <1>1, <2>2, <2>6, <2>7, FindsPrior DEF Applying, Kinds
<1> QED
  BY <1>2, <1>3

\* The UPDATE locks what is still live of the tokens found; nobody else has.
LEMMA InvalidateStep == ASSUME IInv, NEW r \in Requests, Invalidate(r) PROVE IInv'
<1> USE DEF IInv
<1>1. PICK L : L = {t \in request[r].prior : token[t].state = "live"}
  OBVIOUS
<1>2. /\ request[r].pc = "invalidate"
      /\ \A t \in L : lock[t] = None
      /\ lock' = [t \in Tokens |-> IF t \in L THEN r ELSE lock[t]]
      /\ request' = [request EXCEPT ![r] = [request[r] EXCEPT !.pc = "issue"]]
      /\ UNCHANGED <<now, account, gens, taken, token, cooldown, applied, replaced>>
  BY <1>1 DEF Invalidate, Goto, history
<1>3. request[r] \in Record /\ request[r].gen # 0 /\ request[r].gen <= gens
  BY <1>2 DEF RequestInv, Bound
<1>4. PICK q : q = [request[r] EXCEPT !.pc = "issue"]
  OBVIOUS
<1>5. /\ q \in Record /\ q.pc = "issue" /\ q.kind = request[r].kind
      /\ q.gen = request[r].gen /\ q.prior = request[r].prior
  BY <1>3, <1>4 DEF Record, PCs
<1>6. Moves(r, q)
  BY <1>2, <1>4, <1>5 DEF Moves
<1>7. \A t \in Tokens : t \in L =>
         /\ lock[t] = None /\ token[t].state = "live"
         /\ token[t].kind = q.kind /\ q.kind \in {"invite", "reset"}
  BY <1>1, <1>2, <1>5 DEF PriorInv
<1>8. LockInv' /\ ApplyInv' /\ lock' \in [Tokens -> Requests \cup {None}]
  BY <1>2, <1>5, <1>6, <1>7, LockAll DEF Applying, Kinds
<1>9. TypeOK'
  BY <1>2, <1>8, Types, TypesNext
<1>10. RequestInv'
  BY <1>2, <1>3, <1>5, <1>6, Fields, KeepRequest
<1>11. PriorInv'
  <2>1. \A s \in Requests : request'[s] = IF s = r THEN q ELSE request[s]
    BY <1>6, Moved
  <2>2. \A t \in Tokens : lock'[t] = IF t \in L THEN r ELSE lock[t]
    BY <1>2
  <2> SUFFICES ASSUME NEW s \in Requests, NEW t \in Tokens, t \in request'[s].prior
               PROVE  /\ request'[s].pc \in {"invalidate", "issue"}
                      /\ request'[s].kind \in {"invite", "reset"}
                      /\ token'[t].state # "unissued"
                      /\ token'[t].state = "live" =>
                           /\ token'[t].kind = request'[s].kind
                           /\ request'[s].pc = "issue" => lock'[t] = s
    BY DEF PriorInv, Tokens
  <2>3. CASE s = r
    BY <2>1, <2>2, <2>3, <1>1, <1>2, <1>5 DEF PriorInv
  <2>4. CASE s # r
    <3>1. request'[s] = request[s]
      BY <2>1, <2>4
    <3>2. lock[t] = s => lock'[t] = s
      BY <2>2, <1>2, Constants
    <3> QED BY <3>1, <3>2, <1>2 DEF PriorInv
  <2> QED BY <2>3, <2>4
<1> QED
  BY <1>2, <1>5, <1>6, <1>8, <1>9, <1>10, <1>11, Quiet

\* The cooldown of an address starts anew, whether or not the request
\* passes.
LEMMA ResetRequestStep ==
    ASSUME IInv, NEW r \in Requests, NEW e \in Emails, NEW b \in BOOLEAN, ResetRequest(r, e, b)
    PROVE  IInv'
<1> USE DEF IInv
<1>1. PICK k \in Emails : k = Lower[e]
  BY Constants
<1>2. /\ cooldown' = [cooldown EXCEPT ![k] = now + Cooldown]
      /\ UNCHANGED <<now, account, gens, taken, token, lock, applied, replaced>>
      /\ request[r].pc = "idle"
  BY <1>1 DEF ResetRequest, RecordCooldownAttempt, Free, history
<1>3. now + Cooldown \in 0 .. now + Cooldown
  BY Fields, Constants
<1>4. TypeOK'
  <2>1. cooldown' \in [Emails -> 0 .. now + Cooldown]
    BY <1>2, <1>3, Types
  <2> QED BY <2>1, <1>2, Types, TypesNext
<1>5. CASE UNCHANGED request
  <2>1. /\ RequestInv' /\ LockInv' /\ ApplyInv' /\ LiveInv' /\ PurgeInv'
        /\ PriorInv' /\ ReplacedStayDead' /\ SpentIffApplied' /\ PendingHasToken'
    BY <1>2, <1>5
    DEF RequestInv, LockInv, ApplyInv, LiveInv, PurgeInv, PriorInv, ReplacedStayDead,
        SpentIffApplied, PendingHasToken, Tokens, Applying, Kinds
  <2> QED BY <1>4, <2>1
<1>6. CASE ~ UNCHANGED request
  <2>0. PICK q : q = [Idle EXCEPT !.pc = "cooled", !.mail = k]
    OBVIOUS
  <2>1. q = Req("cooled", "verify", 0, k, 0, None, {})
    BY <2>0 DEF Req, Idle
  <2>2. q \in Record
    <3>1. "cooled" \in PCs /\ "verify" \in Kinds /\ 0 \in 0 .. MaxTokens /\ k \in Addresses
      BY Constants DEF PCs, Kinds, Addresses
    <3> QED BY <2>1, <3>1, ReqRecord
  <2>3. q.pc = "cooled" /\ q.mail = k /\ q.gen = 0 /\ q.prior = {}
    BY <2>1 DEF Req
  <2>4. Moves(r, q)
    BY <2>0, <2>2, <1>1, <1>6 DEF ResetRequest, Moves, Goto
  <2>5. \A s \in Requests : request'[s] = IF s = r THEN q ELSE request[s]
    BY <2>4, Moved
  <2>6. RequestInv'
    BY <2>3, <2>4, <1>2, Fields, KeepRequest DEF Bound
  <2>7. LockInv' /\ ApplyInv'
    BY <2>3, <2>4, <1>2, KeepLocks DEF Applying, Kinds
  <2>8. PriorInv'
    BY <2>3, <2>5, <1>2, KeepPrior
  <2> QED BY <2>3, <2>4, <2>6, <2>7, <2>8, <1>2, <1>4, Quiet
<1> QED
  BY <1>5, <1>6

-----------------------------------------------------------------------------
(* The steps that write tokens.                                            *)

\* What an INSERT of a live token, and the end of the transaction that made
\* it, do to the parts of the invariant that do not concern the account.
LEMMA IssueStep ==
    ASSUME IInv, NEW r \in Requests, NEW kind \in Kinds, Done(r),
           request[r].gen # 0, request[r].mail \in Addresses,
           \/ request[r].pc = "issue" /\ kind = request[r].kind
           \/ request[r].pc = "patch" /\ kind = "change",
           Issue(r, kind, request[r].gen, request[r].mail),
           UNCHANGED <<now, gens, taken, cooldown, applied>>,
           account' \in Accounts(gens, now),
           account'.gen = account.gen, account'.created = account.created
    PROVE  /\ TypeOK' /\ RequestInv' /\ LockInv' /\ ApplyInv' /\ LiveInv' /\ PurgeInv'
           /\ PriorInv' /\ ReplacedStayDead' /\ SpentIffApplied'
           /\ \E t \in Tokens : /\ token'[t].kind = kind /\ token'[t].state = "live"
                                /\ token'[t].gen = account.gen
                                /\ token'[t].to = request[r].mail
           /\ \A u \in Tokens : token[u].state = "live" /\ token[u].kind = "change"
                => token'[u] = token[u]
<1> USE DEF IInv
<1>1. PICK t \in Tokens :
         /\ token[t].state = "unissued"
         /\ replaced' = [replaced EXCEPT ![t] = request[r].prior]
         /\ token' = [u \in Tokens |->
              IF u = t THEN [state |-> "live", kind |-> kind, gen |-> request[r].gen,
                             to |-> request[r].mail, issued |-> now]
              ELSE IF lock[u] = r THEN [token[u] EXCEPT !.state = "void"]
              ELSE token[u]]
  BY FirstUnissued
<1>2. account.gen = request[r].gen /\ lock' = Unlocked(r)
  BY FirstUnissued
<1>3. PICK n : n = [state |-> "live", kind |-> kind, gen |-> request[r].gen,
                    to |-> request[r].mail, issued |-> now]
  OBVIOUS
<1>4. /\ n.state = "live" /\ n.kind = kind /\ n.gen = account.gen /\ n.to = request[r].mail
      /\ n \in TokenRows(gens, now)
  BY <1>2, <1>3, Fields DEF TokenRows, States
<1>5. \A u \in Tokens :
         /\ token[u].state = "live" => u # t
         /\ lock[u] # None => token[u].state = "live"
         /\ [token[u] EXCEPT !.state = "void"] \in TokenRows(gens, now)
         /\ [token[u] EXCEPT !.state = "void"].state = "void"
         /\ [token[u] EXCEPT !.state = "void"].gen = token[u].gen
  BY <1>1, Fields DEF LockInv, TokenRows, States
<1>6. token'[t] = n
  BY <1>1, <1>3
<1>7. \A u \in Tokens : u # t /\ lock[u] # r => token'[u] = token[u]
  BY <1>1
<1>8. \A u \in Tokens : u # t /\ lock[u] = r =>
         /\ token'[u].state = "void" /\ token'[u].gen = token[u].gen
         /\ token[u].state = "live" /\ token'[u] \in TokenRows(gens, now)
  BY <1>1, <1>5, Constants
<1>9. lock[t] = None
  BY <1>1, <1>5, Fields
<1>10. \A s \in Requests : request'[s] = IF s = r THEN Idle ELSE request[s]
  BY IdleRecord, Moved DEF Done, Goto, Moves
<1>11. TypeOK'
  <2>1. \A u \in Tokens : token'[u] \in TokenRows(gens, now)
    BY <1>4, <1>6, <1>7, <1>8, Fields
  <2>2. token' \in [Tokens -> TokenRows(gens, now)]
    BY <1>1, <2>1
  <2>3. lock' \in [Tokens -> Requests \cup {None}]
    BY <1>2, Fields DEF Unlocked
  <2>4. replaced' \in [Tokens -> SUBSET Tokens]
    BY <1>1, Types DEF RequestInv, Record
  <2> QED BY <2>2, <2>3, <2>4, Types, TypesNext
<1>12. RequestInv'
  <2>1. Moves(r, Idle) /\ Idle.pc = "idle" /\ Idle.gen = 0
    BY IdleRecord DEF Moves, Done, Goto
  <2> QED BY <2>1, KeepRequest, Fields DEF Bound
<1>13. LockInv' /\ ApplyInv'
  <2>1. \A u \in Tokens : lock[u] \notin {None, r} => token'[u] = token[u]
    BY <1>7, <1>9
  <2> QED BY <2>1, <1>2, KeepLocksAtEnd
<1>14. LiveInv'
  BY <1>2, <1>4, <1>6, <1>7, <1>8, KeepLive
<1>15. PurgeInv'
  BY <1>10, IdleRecord, Fields, KeepPurge
<1>16. PriorInv'
  <2>1. ASSUME NEW s \in Requests, NEW u \in Tokens,
               request'[s] = request[s], u \in request[s].prior, token[u].state # "unissued"
        PROVE  /\ token'[u].state # "unissued"
               /\ token'[u].state = "live" =>
                    /\ token[u].state = "live" /\ token'[u].kind = token[u].kind
                    /\ lock[u] = s => lock'[u] = s
    <3>1. u # t /\ s # r
      BY <2>1, <1>1, <1>10, IdleRecord
    <3>2. lock[u] = s => lock'[u] = s
      BY <3>1, <1>2 DEF Unlocked
    <3> QED BY <3>1, <3>2, <2>1, <1>7, <1>8
  <2> QED BY <2>1, <1>10, IdleRecord, KeepPrior
<1>17. ReplacedStayDead'
  <2>1. \A u \in Tokens : token[u].state \in {"spent", "void", "gone"}
            => token'[u] = token[u]
    BY <1>1, <1>5, <1>7, Constants
  <2>2. \A u \in request[r].prior : token'[u].state \in {"spent", "void", "gone"}
    <3> SUFFICES ASSUME NEW u \in request[r].prior
                 PROVE  token'[u].state \in {"spent", "void", "gone"}
      OBVIOUS
    <3>1. u \in Tokens
      BY DEF RequestInv, Record
    <3>2. /\ token[u].state # "unissued" /\ request[r].pc = "issue"
          /\ token[u].state = "live" => lock[u] = r
      BY <3>1 DEF PriorInv
    <3>3. CASE token[u].state = "live"
      BY <3>1, <3>2, <3>3, <1>5, <1>8
    <3>4. CASE token[u].state \in {"spent", "void", "gone"}
      BY <3>1, <3>4, <2>1
    <3> QED BY <3>1, <3>2, <3>3, <3>4, Fields DEF States
  <2>3. \A v \in Tokens : replaced'[v] = IF v = t THEN request[r].prior ELSE replaced[v]
    BY <1>1, Types
  <2>4. \A v \in Tokens : replaced[v] \subseteq Tokens
    BY Types
  <2> SUFFICES ASSUME NEW v \in Tokens, NEW u \in replaced'[v]
               PROVE  token'[u].state \in {"spent", "void", "gone"}
    BY DEF ReplacedStayDead, Tokens
  <2>5. CASE v = t
    BY <2>2, <2>3, <2>5
  <2>6. CASE v # t
    BY <2>1, <2>3, <2>4, <2>6 DEF ReplacedStayDead
  <2> QED BY <2>5, <2>6
<1>18. SpentIffApplied'
  <2> SUFFICES ASSUME NEW u \in Tokens
               PROVE  /\ applied[u] <= 1
                      /\ token'[u].state # "gone" => (token'[u].state = "spent" <=> applied[u] = 1)
    BY DEF SpentIffApplied, Tokens
  <2>1. CASE u = t
    BY <2>1, <1>1, <1>4, <1>6 DEF SpentIffApplied
  <2>2. CASE u # t /\ lock[u] = r
    BY <2>2, <1>8 DEF SpentIffApplied
  <2>3. CASE u # t /\ lock[u] # r
    BY <2>3, <1>7 DEF SpentIffApplied
  <2> QED BY <2>1, <2>2, <2>3
<1>19. \A u \in Tokens : token[u].state = "live" /\ token[u].kind = "change"
         => token'[u] = token[u]
  <2>1. \A u \in Tokens : token[u].kind = "change" => lock[u] # r
    BY Constants DEF LockInv, Applying, Kinds
  <2> QED BY <2>1, <1>5, <1>7
<1> QED
  BY <1>4, <1>6, <1>11, <1>12, <1>13, <1>14, <1>15, <1>16, <1>17, <1>18, <1>19

LEMMA IssuePendingStep == ASSUME IInv, NEW r \in Requests, IssuePending(r) PROVE IInv'
<1> USE DEF IInv
<1>1. /\ request[r].pc = "issue" /\ request[r].gen # 0
      /\ request[r].kind \in Kinds /\ request[r].mail \in Addresses
  BY DEF IssuePending, RequestInv, Record, Bound
<1>2. /\ Issue(r, request[r].kind, request[r].gen, request[r].mail) /\ Done(r)
      /\ UNCHANGED <<now, account, gens, taken, cooldown, applied>>
  BY DEF IssuePending
<1>3. account' \in Accounts(gens, now)
  BY <1>2, Types
<1>4. /\ TypeOK' /\ RequestInv' /\ LockInv' /\ ApplyInv' /\ LiveInv' /\ PurgeInv'
      /\ PriorInv' /\ ReplacedStayDead' /\ SpentIffApplied'
      /\ \A u \in Tokens : token[u].state = "live" /\ token[u].kind = "change"
           => token'[u] = token[u]
  BY <1>1, <1>2, <1>3, IssueStep
<1>5. PendingHasToken'
  BY <1>2, <1>4, KeepPending
<1> QED
  BY <1>4, <1>5

\* The new pending address and its token are committed together.
LEMMA PatchCommitStep == ASSUME IInv, NEW r \in Requests, PatchCommit(r) PROVE IInv'
<1> USE DEF IInv
<1>1. /\ request[r].pc = "patch" /\ request[r].gen # 0
      /\ request[r].mail \in Emails /\ request[r].mail \in Addresses
  BY DEF PatchCommit, RequestInv, Addresses, Bound
<1>2. /\ Issue(r, "change", request[r].gen, request[r].mail) /\ Done(r)
      /\ account' = [account EXCEPT !.pending = request[r].mail]
      /\ UNCHANGED <<now, gens, taken, cooldown, applied>>
  BY DEF PatchCommit
<1>3. /\ account' \in Accounts(gens, now) /\ account'.pending = request[r].mail
      /\ account'.gen = account.gen /\ account'.created = account.created
  BY <1>1, <1>2, Types DEF Accounts
<1>4. "change" \in Kinds
  BY DEF Kinds
<1>5. /\ TypeOK' /\ RequestInv' /\ LockInv' /\ ApplyInv' /\ LiveInv' /\ PurgeInv'
      /\ PriorInv' /\ ReplacedStayDead' /\ SpentIffApplied'
      /\ \E t \in Tokens : /\ token'[t].kind = "change" /\ token'[t].state = "live"
                           /\ token'[t].gen = account.gen /\ token'[t].to = request[r].mail
  BY <1>1, <1>2, <1>3, <1>4, IssueStep
<1>6. PendingHasToken'
  BY <1>3, <1>5 DEF PendingHasToken, Tokens
<1> QED
  BY <1>5, <1>6

\* The purge deletes the row it found, and every token with it: nobody can
\* have locked one.
LEMMA DeleteUserStep == ASSUME IInv, NEW r \in Requests, DeleteUser(r) PROVE IInv'
<1> USE DEF IInv
<1>1. /\ request[r].pc = "purge" /\ request[r].gen = account.gen /\ account.gen # 0
      /\ Done(r) /\ account' = NoAccount
      /\ UNCHANGED <<now, gens, taken, lock, cooldown, applied, replaced>>
  BY DEF DeleteUser, RequestInv, Bound, history
<1>2. PICK n : n = [NoToken EXCEPT !.state = "gone"]
  OBVIOUS
<1>3. n = [state |-> "gone", kind |-> "verify", gen |-> 0, to |-> None, issued |-> 0]
  BY <1>2 DEF NoToken
<1>4. n \in TokenRows(gens, now) /\ n.state = "gone"
  BY <1>3, Fields DEF TokenRows, States, Kinds, Addresses
<1>5. \A t \in Tokens : token'[t] = IF token[t].gen = account.gen THEN n ELSE token[t]
  BY <1>2 DEF DeleteUser
<1>6. \A t \in Tokens : lock[t] = None
  BY DEF DeleteUser, LockInv, LiveInv
<1>7. NoAccount.gen = 0 /\ NoAccount.pending = None
  BY DEF NoAccount
<1>8. \A s \in Requests : request'[s] = IF s = r THEN Idle ELSE request[s]
  BY <1>1, IdleRecord, Moved DEF Done, Goto, Moves
<1>9. TypeOK'
  <2>1. token' \in [Tokens -> TokenRows(gens, now)]
    <3>1. \A t \in Tokens : token'[t] \in TokenRows(gens, now)
      BY <1>4, <1>5, Fields
    <3>2. token' = [t \in Tokens |-> token'[t]]
      BY <1>2, <1>5 DEF DeleteUser
    <3> QED BY <3>1, <3>2
  <2>2. account' \in Accounts(gens, now)
    BY <1>1, NoAccountType, Fields
  <2> QED BY <2>1, <2>2, <1>1, Types, TypesNext
<1>10. RequestInv'
  <2>1. Moves(r, Idle) /\ Idle.pc = "idle" /\ Idle.gen = 0
    BY <1>1, IdleRecord DEF Moves, Done, Goto
  <2> QED BY <2>1, <1>1, KeepRequest, Fields DEF Bound
<1>11. LockInv' /\ ApplyInv'
  <2>1. lock' = Unlocked(r)
    BY <1>1, HoldsNone DEF Applying, Kinds
  <2> QED BY <2>1, <1>1, <1>6, KeepLocksAtEnd
<1>12. LiveInv'
  <2>1. \A t \in Tokens : token'[t].state \notin {"live", "spent", "void"}
    BY <1>4, <1>5 DEF LiveInv
  <2> QED BY <2>1 DEF LiveInv, Tokens
<1>13. PurgeInv'
  BY <1>1, <1>7, <1>8, IdleRecord, Fields, KeepPurge
<1>14. PriorInv'
  BY <1>1, <1>4, <1>5, <1>8, IdleRecord, KeepPrior
<1>15. ReplacedStayDead'
  BY <1>1, <1>4, <1>5, KeepDead
<1>16. SpentIffApplied'
  BY <1>1, <1>4, <1>5 DEF SpentIffApplied, Tokens
<1>17. PendingHasToken'
  BY <1>1, <1>7 DEF PendingHasToken
<1> QED
  BY <1>9, <1>10, <1>11, <1>12, <1>13, <1>14, <1>15, <1>16, <1>17

\* COMMIT of a transaction that consumed its token: it holds the lock of a
\* live token, which no other transaction can have applied.
LEMMA SpendStep ==
    ASSUME IInv, NEW r \in Requests, request[r].pc \in Applying, Spend(r),
           UNCHANGED <<now, gens, taken, cooldown, replaced>>,
           account' \in Accounts(gens, now),
           account'.gen = account.gen, account'.created = account.created,
           \/ account'.pending = None
           \/ account'.pending = account.pending /\ request[r].pc \in {"verify", "reset"}
    PROVE  /\ IInv'
           /\ \A t \in Tokens : applied'[t] # applied[t] => token[t].gen = account'.gen
<1> USE DEF IInv
<1>1. PICK t \in Tokens :
         /\ t = request[r].token /\ lock[t] = r /\ token[t].state = "live"
         /\ token[t].kind = IF request[r].pc = "swap" THEN "change" ELSE request[r].pc
  BY Constants DEF ApplyInv, LockInv
<1>2. /\ token' = [token EXCEPT ![t].state = "spent"]
      /\ applied' = [applied EXCEPT ![t] = IF @ < 2 THEN @ + 1 ELSE @]
      /\ lock' = Unlocked(r) /\ Done(r)
  BY <1>1 DEF Spend
<1>3. /\ token'[t].state = "spent" /\ token'[t].gen = token[t].gen
      /\ token'[t] \in TokenRows(gens, now)
      /\ \A u \in Tokens : u # t => token'[u] = token[u]
      /\ DOMAIN token' = Tokens /\ token' = [u \in Tokens |-> token'[u]]
  <2>1. token \in [Tokens -> TokenRows(gens, now)]
    BY Types
  <2>2. token' = [token EXCEPT ![t] = [token[t] EXCEPT !.state = "spent"]]
    BY <1>2
  <2>3. PICK n : n = [token[t] EXCEPT !.state = "spent"]
    OBVIOUS
  <2>4. n \in TokenRows(gens, now) /\ n.state = "spent" /\ n.gen = token[t].gen
    BY <2>1, <2>3 DEF TokenRows, States
  <2> QED BY <2>1, <2>2, <2>3, <2>4
<1>4. applied[t] = 0
  BY <1>1, Fields DEF SpentIffApplied
<1>5. applied \in [Tokens -> 0 .. 2] /\ lock \in [Tokens -> Requests \cup {None}]
  BY Types
<1>6. /\ applied' \in [Tokens -> 0 .. 2] /\ applied'[t] = 1
      /\ \A u \in Tokens : u # t => applied'[u] = applied[u]
  BY <1>2, <1>4, <1>5
<1>7. \A s \in Requests : request'[s] = IF s = r THEN Idle ELSE request[s]
  BY <1>2, IdleRecord, Moved DEF Done, Goto, Moves
<1>8. TypeOK'
  <2>1. lock' \in [Tokens -> Requests \cup {None}]
    BY <1>2, <1>5 DEF Unlocked
  <2>2. token' \in [Tokens -> TokenRows(gens, now)]
    <3>1. \A u \in Tokens : token'[u] \in TokenRows(gens, now)
      BY <1>3, Fields
    <3> QED BY <1>3, <3>1
  <2> QED BY <2>1, <2>2, <1>6, Types, TypesNext
<1>9. RequestInv'
  <2>1. Moves(r, Idle) /\ Idle.pc = "idle" /\ Idle.gen = 0
    BY <1>2, IdleRecord DEF Moves, Done, Goto
  <2> QED BY <2>1, KeepRequest, Fields DEF Bound
<1>10. LockInv' /\ ApplyInv'
  BY <1>1, <1>2, <1>3, KeepLocksAtEnd
<1>11. LiveInv'
  BY <1>1, <1>3, KeepLive
<1>12. PurgeInv'
  BY <1>7, IdleRecord, Fields, KeepPurge
<1>13. PriorInv'
  <2>1. \A s \in Requests, u \in Tokens : s # r /\ lock[u] = s => lock'[u] = s
    BY <1>2 DEF Unlocked
  <2> QED BY <2>1, <1>3, <1>7, IdleRecord, KeepPrior
<1>14. ReplacedStayDead'
  BY <1>1, <1>3, KeepDead
<1>15. SpentIffApplied'
  <2> SUFFICES ASSUME NEW u \in Tokens
               PROVE  /\ applied'[u] <= 1
                      /\ token'[u].state # "gone"
                           => (token'[u].state = "spent" <=> applied'[u] = 1)
    BY DEF SpentIffApplied, Tokens
  <2>1. CASE u = t
    BY <2>1, <1>3, <1>6
  <2>2. CASE u # t
    BY <2>2, <1>3, <1>6 DEF SpentIffApplied
  <2> QED BY <2>1, <2>2
<1>16. PendingHasToken'
  <2>1. CASE account'.pending = None
    BY <2>1 DEF PendingHasToken
  <2>2. CASE account'.pending = account.pending /\ request[r].pc \in {"verify", "reset"}
    BY <2>2, <1>1, <1>3, KeepPending
  <2> QED BY <2>1, <2>2
<1>17. \A u \in Tokens : applied'[u] # applied[u] => token[u].gen = account'.gen
  BY <1>1, <1>6 DEF LiveInv
<1> QED
  BY <1>8, <1>9, <1>10, <1>11, <1>12, <1>13, <1>14, <1>15, <1>16, <1>17

\* What the tokens' effects write into the users row.
LEMMA ApplySteps ==
    ASSUME IInv, NEW r \in Requests, ApplyVerify(r) \/ ApplyReset(r) \/ SwapEmail(r)
    PROVE  /\ IInv'
           /\ account'.gen = account.gen
           /\ \A t \in Tokens : applied'[t] # applied[t] => token[t].gen = account'.gen
<1> USE DEF IInv
<1>0. account \in Accounts(gens, now)
  BY Types
<1>1. CASE ApplyVerify(r)
  <2>1. /\ request[r].pc = "verify" /\ Spend(r)
        /\ UNCHANGED <<now, gens, taken, cooldown, replaced>>
        /\ account' = [account EXCEPT !.verified = TRUE] \/ account' = account
    BY <1>1, Zenon DEF ApplyVerify
  <2>2. PICK a : a = [account EXCEPT !.verified = TRUE]
    OBVIOUS
  <2>3. /\ a \in Accounts(gens, now) /\ a.gen = account.gen /\ a.created = account.created
        /\ a.pending = account.pending
    BY ONLY <1>0, <2>2 DEF Accounts
  <2>4. /\ account' \in Accounts(gens, now) /\ account'.gen = account.gen
        /\ account'.created = account.created /\ account'.pending = account.pending
    BY ONLY <1>0, <2>1, <2>2, <2>3, Zenon
  <2>5. request[r].pc \in Applying
    BY <2>1 DEF Applying, Kinds
  <2> QED BY <2>1, <2>4, <2>5, SpendStep
<1>2. CASE ApplyReset(r)
  <2>1. request[r].pc = "reset" /\ request[r].pc \in Applying
    BY <1>2 DEF ApplyReset, Applying, Kinds
  <2> QED BY <1>0, <1>2, <2>1, SpendStep DEF ApplyReset
<1>3. CASE SwapEmail(r)
  <2>1. /\ request[r].pc = "swap" /\ request[r].pc \in Applying
        /\ request[r].mail \in Emails /\ UNCHANGED <<now, gens, taken, cooldown, replaced>>
    BY <1>3 DEF SwapEmail, Applying, Kinds, RequestInv
  <2>2. CASE DuplicateKey(request[r].mail)
    BY <1>3, <2>1, <2>2, EndsQuietly DEF SwapEmail
  <2>3. CASE ~DuplicateKey(request[r].mail)
    <3>1. /\ account' = [account EXCEPT !.email = request[r].mail, !.pending = None]
          /\ Spend(r)
      BY <1>3, <2>3 DEF SwapEmail
    <3>2. /\ account' \in Accounts(gens, now) /\ account'.gen = account.gen
          /\ account'.created = account.created /\ account'.pending = None
      <4>1. request[r].mail \in Addresses
        BY <2>1 DEF Addresses
      <4> QED BY ONLY <1>0, <3>1, <4>1 DEF Accounts
    <3> QED BY <2>1, <3>1, <3>2, SpendStep
  <2> QED BY <2>2, <2>3
<1> QED
  BY <1>1, <1>2, <1>3

-----------------------------------------------------------------------------
(* The world around.                                                       *)

LEMMA OtherRegistersStep == ASSUME IInv, NEW e \in Emails, OtherRegisters(e) PROVE IInv'
<1> USE DEF IInv
<1>1. UNCHANGED <<now, account, gens, token, lock, cooldown, request, applied, replaced>>
  BY DEF OtherRegisters, history
<1>2. TypeOK'
  BY <1>1, Types, TypesNext, Constants DEF OtherRegisters
<1>3. RequestInv' /\ LockInv' /\ ApplyInv' /\ LiveInv' /\ PurgeInv'
  BY <1>1 DEF RequestInv, LockInv, ApplyInv, LiveInv, PurgeInv, Tokens, Applying, Kinds
<1>4. PriorInv' /\ ReplacedStayDead' /\ SpentIffApplied' /\ PendingHasToken'
  BY <1>1 DEF PriorInv, ReplacedStayDead, SpentIffApplied, PendingHasToken, Tokens
<1> QED
  BY <1>2, <1>3, <1>4

LEMMA AnonymizeStep == ASSUME IInv, Anonymize PROVE IInv' /\ account'.gen = account.gen
<1> USE DEF IInv
<1>1. /\ account' = [account EXCEPT !.email = Erased]
      /\ UNCHANGED <<now, gens, taken, token, lock, cooldown, request, applied, replaced>>
  BY DEF Anonymize, history
<1>2. /\ account' \in Accounts(gens, now) /\ account'.gen = account.gen
      /\ account'.created = account.created /\ account'.pending = account.pending
  <2>1. account \in Accounts(gens, now) /\ Erased \in Addresses
    BY Types DEF Addresses
  <2> QED BY ONLY <1>1, <2>1 DEF Accounts
<1>3. TypeOK'
  BY <1>1, <1>2, Types, TypesNext
<1>4. RequestInv' /\ LockInv' /\ ApplyInv' /\ LiveInv' /\ PurgeInv'
  BY ONLY <1>1, <1>2, IInv
  DEF IInv, RequestInv, LockInv, ApplyInv, LiveInv, PurgeInv, Tokens, Applying, Kinds
<1>5. PriorInv' /\ ReplacedStayDead' /\ SpentIffApplied' /\ PendingHasToken'
  BY ONLY <1>1, <1>2, IInv
  DEF IInv, PriorInv, ReplacedStayDead, SpentIffApplied, PendingHasToken, Tokens
<1> QED
  BY <1>2, <1>3, <1>4, <1>5

LEMMA TickStep == ASSUME IInv, Tick PROVE IInv'
<1> USE DEF IInv
<1>1. /\ now' = now + 1 /\ now < MaxTime
      /\ UNCHANGED <<account, gens, taken, token, lock, cooldown, request, applied, replaced>>
  BY DEF Tick, history
<1>2. /\ now \in Nat /\ now + 1 \in Nat /\ now <= now + 1 /\ now + 1 \in Time
      /\ gens \in Nat /\ now + Cooldown \in Nat
  BY <1>1, Fields, Constants DEF Time
<1>3. TypeOK'
  <2>1. Accounts(gens, now) \subseteq Accounts(gens, now + 1)
        /\ TokenRows(gens, now) \subseteq TokenRows(gens, now + 1)
    BY <1>2, Widen
  <2>2. 0 .. now + Cooldown \subseteq 0 .. (now + 1) + Cooldown
    BY <1>2, Constants
  <2> QED BY <1>1, <1>2, <2>1, <2>2, Types, TypesNext
<1>4. RequestInv' /\ LockInv' /\ ApplyInv' /\ LiveInv'
  BY <1>1 DEF RequestInv, LockInv, ApplyInv, LiveInv, Tokens, Applying, Kinds
<1>5. PurgeInv'
  BY <1>1, <1>2, KeepPurge
<1>6. PriorInv' /\ ReplacedStayDead' /\ SpentIffApplied' /\ PendingHasToken'
  BY <1>1 DEF PriorInv, ReplacedStayDead, SpentIffApplied, PendingHasToken, Tokens
<1> QED
  BY <1>3, <1>4, <1>5, <1>6

LEMMA StutterStep == ASSUME IInv, UNCHANGED vars PROVE IInv'
<1>1. UNCHANGED <<now, account, gens, taken, token, lock, cooldown, request, applied, replaced>>
  BY DEF vars, history
<1>2. TypeOK' /\ RequestInv' /\ LockInv' /\ ApplyInv' /\ LiveInv' /\ PurgeInv'
  BY <1>1, Types, TypesNext
  DEF IInv, RequestInv, LockInv, ApplyInv, LiveInv, PurgeInv, Tokens, Applying, Kinds
<1>3. PriorInv' /\ ReplacedStayDead' /\ SpentIffApplied' /\ PendingHasToken'
  BY <1>1 DEF IInv, PriorInv, ReplacedStayDead, SpentIffApplied, PendingHasToken, Tokens
<1> QED
  BY <1>2, <1>3 DEF IInv

-----------------------------------------------------------------------------
(* The theorems.                                                           *)

LEMMA NextInv == IInv /\ [Next]_vars => IInv'
<1> SUFFICES ASSUME IInv, [Next]_vars PROVE IInv'
  OBVIOUS
<1>1. ASSUME NEW r \in Requests, NEW e \in Emails,
             \/ Register(r, e) \/ CreateUser(r, e)
             \/ ResendVerification(r, e)
             \/ PatchRead(r, e)
             \/ \E b \in BOOLEAN : ResetRequest(r, e, b)
      PROVE  IInv'
  BY <1>1, RegisterStep, ResendVerificationStep, PatchReadStep, ResetRequestStep
<1>2. ASSUME NEW r \in Requests, \E t \in Tokens : ReadToken(r, t)
      PROVE  IInv'
  BY <1>2, ReadTokenStep
<1>3. ASSUME NEW r \in Requests,
             \/ IssuePending(r) \/ ResendInvite(r) \/ ReadPrior(r) \/ Invalidate(r)
             \/ PurgeFind(r) \/ DeleteUser(r)
             \/ PatchCommit(r) \/ ResetFind(r)
      PROVE  IInv'
  BY <1>3, IssuePendingStep, ResendInviteStep, ReadPriorStep, InvalidateStep, PurgeFindStep,
     DeleteUserStep, PatchCommitStep, ResetFindStep
<1>4. ASSUME NEW r \in Requests,
             \/ Consume(r) \/ ApplyVerify(r) \/ ApplyReset(r)
             \/ ReadPending(r) \/ SwapEmail(r) \/ Fail(r)
      PROVE  IInv'
  BY <1>4, ConsumeStep, ApplySteps, ReadPendingStep, FailStep
<1>5. CASE (\E e \in Emails : OtherRegisters(e)) \/ Anonymize \/ Tick
  BY <1>5, OtherRegistersStep, AnonymizeStep, TickStep
<1>6. CASE UNCHANGED vars
  BY <1>6, StutterStep
<1> QED
  BY <1>1, <1>2, <1>3, <1>4, <1>5, <1>6 DEF Next

\* The only steps that remove the account, or count an effect of a token,
\* are the deletion by the purge and the commits that spend a token.
LEMMA NextEffects ==
    ASSUME IInv, [Next]_vars
    PROVE  /\ Exists /\ account'.gen = 0 => \E r \in Requests : DeleteUser(r)
           /\ \A t \in Tokens : applied'[t] # applied[t] => token[t].gen = account'.gen
<1>1. ASSUME UNCHANGED <<account, applied>>
      PROVE  /\ Exists /\ account'.gen = 0 => \E r \in Requests : DeleteUser(r)
             /\ \A t \in Tokens : applied'[t] # applied[t] => token[t].gen = account'.gen
  BY <1>1 DEF Exists
<1>2. ASSUME NEW r \in Requests, NEW e \in Emails, Register(r, e) \/ CreateUser(r, e)
      PROVE  ~Exists /\ UNCHANGED applied
  BY <1>2 DEF Register, CreateUser, history
<1>3. ASSUME NEW r \in Requests, NEW e \in Emails,
             \/ ResendVerification(r, e)
             \/ PatchRead(r, e)
             \/ \E b \in BOOLEAN : ResetRequest(r, e, b)
      PROVE  UNCHANGED <<account, applied>>
  BY <1>3 DEF ResendVerification, PatchRead, ResetRequest, history
<1>4. ASSUME NEW r \in Requests,
             \/ \E t \in Tokens : ReadToken(r, t)
             \/ IssuePending(r) \/ ResendInvite(r) \/ ReadPrior(r) \/ Invalidate(r)
             \/ PurgeFind(r) \/ ResetFind(r)
             \/ Consume(r) \/ ReadPending(r) \/ Fail(r)
      PROVE  UNCHANGED <<account, applied>>
  BY <1>4 DEF ReadToken, IssuePending, ResendInvite, ReadPrior, Invalidate, PurgeFind,
              ResetFind, Consume, ReadPending, Fail, history
<1>5. ASSUME NEW r \in Requests, PatchCommit(r)
      PROVE  account'.gen = account.gen /\ UNCHANGED applied
  <2>1. account \in Accounts(gens, now) /\ UNCHANGED applied
        /\ account' = [account EXCEPT !.pending = request[r].mail]
    BY <1>5, Types DEF IInv, PatchCommit
  <2> QED BY ONLY <2>1 DEF Accounts
<1>6. ASSUME NEW r \in Requests, DeleteUser(r) PROVE UNCHANGED applied
  BY <1>6 DEF DeleteUser, history
<1>7. ASSUME NEW r \in Requests, ApplyVerify(r) \/ ApplyReset(r) \/ SwapEmail(r)
      PROVE  /\ account'.gen = account.gen
             /\ \A t \in Tokens : applied'[t] # applied[t] => token[t].gen = account'.gen
  BY <1>7, ApplySteps
<1>8. ASSUME \/ \E e \in Emails : OtherRegisters(e)
             \/ Anonymize \/ Tick \/ UNCHANGED vars
      PROVE  account'.gen = account.gen /\ UNCHANGED applied
  <2>1. CASE \E e \in Emails : OtherRegisters(e)
    BY <2>1 DEF OtherRegisters, history
  <2>2. CASE Anonymize
    BY <2>2, AnonymizeStep DEF Anonymize, history
  <2>3. CASE Tick \/ UNCHANGED vars
    BY <2>3 DEF Tick, vars, history
  <2> QED BY <1>8, <2>1, <2>2, <2>3
<1> QED
  BY <1>1, <1>2, <1>3, <1>4, <1>5, <1>6, <1>7, <1>8 DEF Next, Exists

\* The inductive invariant holds throughout: the locks, the tokens, the
\* account and the requests that read them keep to each other.
THEOREM Invariance == Spec => []IInv
BY InitInv, NextInv, PTL DEF Spec

\* Every variable keeps its type, for any number of requests and tokens.
THEOREM TypeCorrect == Spec => []TypeOK
<1>1. IInv => TypeOK
  BY DEF IInv
<1> QED
  BY <1>1, Invariance, PTL

\* verify_email, confirm_email_change and confirm_password_reset: a token
\* that is spent took effect exactly once, and one that is not never did,
\* however many uses of it race and roll back.
THEOREM TokensApplyOnce == Spec => []SpentIffApplied
<1>1. IInv => SpentIffApplied
  BY DEF IInv
<1> QED
  BY <1>1, Invariance, PTL

\* request_password_reset and resend_invite: the tokens that were live when
\* a request started to invalidate are dead once its own is issued, and for
\* good, however requests overlap and however long they take.
THEOREM ReplacedTokensStayDead == Spec => []ReplacedStayDead
<1>1. IInv => ReplacedStayDead
  BY DEF IInv
<1> QED
  BY <1>1, Invariance, PTL

\* apply_partial_update and confirm_email_change: whenever pending_email is
\* set, a live token that was mailed to it exists.
THEOREM PendingCanBeConfirmed == Spec => []PendingHasToken
<1>1. IInv => PendingHasToken
  BY DEF IInv
<1> QED
  BY <1>1, Invariance, PTL

\* purge_unverified_accounts: the account that a deletion removes is older
\* than the window, also when the row it found was replaced meanwhile.
THEOREM PurgeIsSafe == Spec => PurgeSparesNewAccounts
<1>1. IInv /\ [Next]_vars => [Exists /\ account'.gen = 0 => account.created + PurgeAfter < now]_vars
  <2> SUFFICES ASSUME IInv, [Next]_vars, Exists, account'.gen = 0
               PROVE  account.created + PurgeAfter < now
    OBVIOUS
  <2>1. PICK r \in Requests : DeleteUser(r)
    BY NextEffects
  <2>2. request[r].pc = "purge" /\ request[r].gen = account.gen
    BY <2>1 DEF DeleteUser
  <2> QED BY <2>2 DEF IInv, PurgeInv
<1> QED
  BY <1>1, Invariance, PTL DEF Spec, PurgeSparesNewAccounts

\* The effect of a token is on the users row it was issued for, never on a
\* later one with the same address.
THEOREM TokensActOnTheirAccount == Spec => TokensFollowTheirAccount
<1>1. IInv /\ [Next]_vars =>
        [\A t \in Tokens : applied'[t] # applied[t] => token[t].gen = account'.gen]_vars
  BY NextEffects
<1> QED
  BY <1>1, Invariance, PTL DEF Spec, TokensFollowTheirAccount

=============================================================================
