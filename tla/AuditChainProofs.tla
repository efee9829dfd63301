-------------------------- MODULE AuditChainProofs --------------------------
(***************************************************************************)
(* For any number of writers and rows: a chain whose rows were inserted in *)
(* the order they sort in is intact until somebody tampers with it; then   *)
(* verify_chain stops at the row that shows it, and a change of a column   *)
(* the hash covers shows in whatever order the rows were inserted.         *)
(***************************************************************************)
EXTENDS AuditChain, TLAPS, WellFoundedInduction

\* The rows there are, committed or not; and with them a deleted one.
Inserted == rows \cup UNION {pending[w] : w \in Writers}
Links == Inserted \cup removed

\* p is the row before i, and l the last row, of the rows in S.
Precedes(p, i, S) == Before(p, i) /\ \A j \in S : Before(j, i) => j = p \/ Before(j, p)
IsLast(l, S) == \A j \in S \ {l} : Before(j, l)

\* Row i carries the hash of the row before it in S, if there is one.
LinkedIn(i, S) ==
    \/ previousHash[i] = GenesisSentinel /\ \A j \in S : ~Before(j, i)
    \/ \E p \in S : Precedes(p, i, S) /\ previousHash[i] = rowHash[p]

\* The rows changed in a column that verify_chain sees.
Forged == IF column \in HashedColumns THEN altered ELSE {}

\* Rows not yet committed belong to the transaction with the advisory lock.
PendingInv ==
    /\ \A w \in Writers : pending[w] # {} => chainLock = w /\ ~Idle(w)
    /\ \A w \in Writers : pending[w] \cap (rows \cup removed) = {}
    /\ rows \cap removed = {}

\* One row at most was tampered with.
TamperInv ==
    /\ altered = {} \/ removed = {}
    /\ \A a \in altered : a \in rows /\ altered = {a}
    /\ \A d \in removed : removed = {d}
    /\ gap => removed # {}
    /\ column # "none" <=> altered # {}

\* A row has the hash of its own content until somebody changes one of them.
OwnHash ==
    \A i \in Links :
        i \in Forged <=> rowHash[i] # AuditLogRowHash(previousHash[i], occurredAt[i], event[i])

\* The rows before a changed one stay linked, and new rows come after it.
PrefixInv ==
    inOrder /\ column # "occurred_at" =>
        \A a \in Forged :
            /\ \A w \in Writers : \A p \in pending[w] : Before(a, p)
            /\ \A j \in rows : Before(j, a) => LinkedIn(j, rows)

\* Each row of an untouched chain carries the hash of the row before it.
Linked == \A i \in Links : LinkedIn(i, Links)

Distinct == \A i, j \in Links : rowHash[i] = rowHash[j] => i = j

\* There is a last row, rows not committed come after the others, and so
\* does some row after one that was deleted from the middle.
Ordered ==
    /\ rows = {} \/ \E l \in rows : IsLast(l, rows)
    /\ Inserted = {} \/ \E l \in Inserted : IsLast(l, Inserted)
    /\ \A w \in Writers : \A p \in pending[w], i \in rows \cup removed : Before(i, p)
    /\ \A d \in removed : \E l \in rows : Before(d, l)

\* A chain whose last row was deleted goes on from the row before it.
Unbroken == inOrder /\ (removed = {} \/ gap) /\ Forged = {}

ChainInv == Unbroken => Linked /\ Distinct /\ Ordered

IInv == TypeOK /\ PendingInv /\ TamperInv /\ OwnHash /\ PrefixInv /\ ChainInv

\* TypeOK leaves the columns of hashes open: every row has them.
ColumnsInv == DOMAIN previousHash = Ids /\ DOMAIN rowHash = Ids

-----------------------------------------------------------------------------
(* The order of the rows, and the hash of the last one.                    *)

LEMMA Types ==
    ASSUME TypeOK
    PROVE  /\ now \in Nat /\ rows \subseteq Ids /\ removed \subseteq Ids
           /\ \A i \in Ids : i \in Nat /\ occurredAt[i] \in Nat
           /\ \A w \in Writers : pending[w] \subseteq Ids
           /\ Inserted \subseteq Ids /\ Links \subseteq Ids
<1>1. now \in Nat /\ rows \subseteq Ids /\ removed \subseteq Ids
  BY ChainAssumption DEF TypeOK, Time
<1>2. \A i \in Ids : i \in Nat /\ occurredAt[i] \in Nat
  BY <1>1, ChainAssumption DEF TypeOK
<1>3. \A w \in Writers : pending[w] \subseteq Ids
  BY DEF TypeOK
<1> QED
  BY <1>1, <1>2, <1>3 DEF Inserted, Links

\* (occurred_at, id) orders the rows.
LEMMA Order ==
    ASSUME TypeOK
    PROVE  \A i, j, k \in Ids :
             /\ ~Before(i, i)
             /\ i = j \/ Before(i, j) \/ Before(j, i)
             /\ Before(i, j) => ~Before(j, i)
             /\ Before(i, j) /\ Before(j, k) => Before(i, k)
BY Types DEF Before

LEMMA OrderNext ==
    ASSUME TypeOK'
    PROVE  \A i, j, k \in Ids :
             /\ ~Before(i, i)'
             /\ Before(i, j)' => ~Before(j, i)'
             /\ Before(i, j)' /\ Before(j, k)' => Before(i, k)'
<1>1. occurredAt' \in [Ids -> 0 .. MaxTime]
  BY DEF TypeOK
<1>2. \A i \in Ids : i \in Nat /\ occurredAt'[i] \in Nat
  BY <1>1, ChainAssumption
<1> QED
  BY <1>2 DEF Before

LEMMA LatestHash ==
    ASSUME TypeOK, NEW S, S \subseteq Ids
    PROVE  /\ S = {} => HashOfLatest(S) = GenesisSentinel
           /\ \A l \in S : IsLast(l, S) => HashOfLatest(S) = rowHash[l]
<1>1. S = {} => HashOfLatest(S) = GenesisSentinel
  BY DEF HashOfLatest
<1>2. ASSUME NEW l \in S, IsLast(l, S)
      PROVE  HashOfLatest(S) = rowHash[l]
  <2> DEFINE c == CHOOSE i \in S : \A j \in S \ {i} : Before(j, i)
  <2>1. c \in S /\ \A j \in S \ {c} : Before(j, c)
    BY <1>2 DEF IsLast
  <2>2. c = l
    <3> HIDE DEF c
    <3>1. c # l => Before(c, l) /\ Before(l, c)
      BY <1>2, <2>1 DEF IsLast
    <3> QED BY <2>1, <3>1, Order
  <2> QED BY <1>2, <2>2 DEF HashOfLatest
<1> QED
  BY <1>1, <1>2

\* Rows that are not committed are of one transaction.
LEMMA OnePending ==
    ASSUME PendingInv, NEW w \in Writers, chainLock \in {None, w} \/ pending[w] # {}
    PROVE  Inserted = rows \cup pending[w] /\ \A v \in Writers : v # w => pending[v] = {}
<1>1. \A v \in Writers : v # w => pending[v] = {}
  BY ChainAssumption DEF PendingInv
<1> QED
  BY <1>1 DEF Inserted

\* The tables stay, and so do their links.
LEMMA KeepLinks ==
    ASSUME Linked, Distinct, Links' = Links,
           UNCHANGED <<occurredAt, previousHash, rowHash>>
    PROVE  Linked' /\ Distinct'
<1>1. \A i, j : Before(i, j)' <=> Before(i, j)
  BY DEF Before
<1>2. \A p, i : Precedes(p, i, Links)' <=> Precedes(p, i, Links)
  BY <1>1 DEF Precedes
<1>3. Linked'
  BY <1>1, <1>2 DEF Linked, LinkedIn, GenesisSentinel
<1>4. Distinct'
  BY DEF Distinct
<1> QED
  BY <1>3, <1>4

LEMMA KeepChain ==
    ASSUME ChainInv, Forged' = {} => Forged = {},
           UNCHANGED <<rows, occurredAt, previousHash, rowHash, pending, inOrder, removed, gap>>
    PROVE  ChainInv'
<1>1. Inserted' = Inserted /\ Links' = Links
  BY DEF Inserted, Links
<1>2. \A i, j : Before(i, j)' <=> Before(i, j)
  BY DEF Before
<1>3. Ordered => Ordered'
  <2>1. /\ \A l : IsLast(l, rows)' <=> IsLast(l, rows)
        /\ \A l : IsLast(l, Inserted)' <=> IsLast(l, Inserted)
    BY <1>1, <1>2 DEF IsLast
  <2> QED BY <1>1, <1>2, <2>1 DEF Ordered
<1> QED
  BY <1>1, <1>3, KeepLinks DEF ChainInv, Unbroken

\* The rows that are there keep their content and their hash.
LEMMA KeepOwn ==
    ASSUME OwnHash, Links' = Links,
           UNCHANGED <<occurredAt, event, previousHash, rowHash, altered, column>>
    PROVE  OwnHash'
BY DEF OwnHash, Forged, HashedColumns, AuditLogRowHash

\* The rows up to a changed one stay as they are, and others come after it.
LEMMA KeepPrefix ==
    ASSUME TypeOK, TypeOK', TamperInv, PrefixInv, inOrder' => inOrder,
           UNCHANGED <<altered, column>>, rows \subseteq rows',
           \A i \in rows : /\ occurredAt'[i] = occurredAt[i]
                           /\ previousHash'[i] = previousHash[i] /\ rowHash'[i] = rowHash[i],
           inOrder /\ inOrder' /\ column # "occurred_at" =>
               \A a \in Forged : \A p \in Inserted' \ rows : Before(a, p)',
           \A w \in Writers : pending'[w] \cap rows = {}
    PROVE  PrefixInv'
<1> SUFFICES ASSUME inOrder', column # "occurred_at", NEW a \in Forged
             PROVE  /\ \A w \in Writers : \A p \in pending'[w] : Before(a, p)'
                    /\ \A j \in rows' : Before(j, a)' => LinkedIn(j, rows)'
  BY DEF PrefixInv, Forged, HashedColumns
<1>1. a \in rows /\ a \in altered /\ rows \subseteq Ids /\ rows' \subseteq Ids
  BY Types DEF Forged, TamperInv, TypeOK
<1>2. \A p \in Inserted' \ rows : Before(a, p)'
  OBVIOUS
<1>3. \A w \in Writers : \A p \in pending'[w] : Before(a, p)'
  BY <1>2 DEF Inserted
<1>4. \A j, k \in rows : Before(j, k)' <=> Before(j, k)
  BY DEF Before
<1>5. ASSUME NEW k \in rows', Before(k, a)' \/ \E j \in rows' : Before(j, a)' /\ Before(k, j)'
      PROVE  k \in rows
  <2>1. Before(k, a)'
    BY <1>1, <1>5, OrderNext
  <2>2. k \notin rows => Before(a, k)'
    BY <1>2, <1>5 DEF Inserted
  <2> QED BY <1>1, <2>1, <2>2, OrderNext
<1>6. ASSUME NEW j \in rows', Before(j, a)' PROVE LinkedIn(j, rows)'
  <2>1. j \in rows /\ Before(j, a)
    BY <1>1, <1>4, <1>5, <1>6
  <2>2. \A k \in rows' : Before(k, j)' => k \in rows /\ Before(k, j)
    BY <1>4, <1>5, <1>6, <2>1
  <2>3. LinkedIn(j, rows)
    BY <1>1, <2>1 DEF PrefixInv
  <2>4. CASE previousHash[j] = GenesisSentinel /\ \A k \in rows : ~Before(k, j)
    BY <2>1, <2>2, <2>4 DEF LinkedIn, GenesisSentinel
  <2>5. ASSUME NEW p \in rows, Precedes(p, j, rows), previousHash[j] = rowHash[p]
        PROVE  LinkedIn(j, rows)'
    <3>1. Precedes(p, j, rows)'
      BY <1>4, <2>1, <2>2, <2>5 DEF Precedes
    <3> QED BY <3>1, <2>1, <2>5 DEF LinkedIn
  <2> QED BY <2>3, <2>4, <2>5 DEF LinkedIn
<1> QED
  BY <1>3, <1>6

\* ... as they do when the table and the transactions' rows stay.
LEMMA KeepTable ==
    ASSUME TypeOK, TypeOK', PendingInv, TamperInv, OwnHash, PrefixInv, ChainInv,
           UNCHANGED <<rowVars, pending, history>>
    PROVE  OwnHash' /\ PrefixInv' /\ ChainInv'
<1>1. /\ UNCHANGED <<rows, occurredAt, event, previousHash, rowHash, removed, altered, column, inOrder, gap>>
      /\ Inserted' = Inserted /\ Links' = Links /\ Forged' = Forged
  BY DEF rowVars, history, tampering, Inserted, Links, Forged, HashedColumns
<1>2. OwnHash'
  BY <1>1, KeepOwn
<1>3. \A w \in Writers : pending'[w] \cap rows = {}
  BY DEF PendingInv
<1>4. ASSUME inOrder, column # "occurred_at", NEW a \in Forged, NEW p \in Inserted' \ rows
      PROVE  Before(a, p)'
  <2>1. Before(a, p)
    BY <1>1, <1>4 DEF PrefixInv, Inserted
  <2> QED BY <1>1, <2>1 DEF Before
<1>5. PrefixInv'
  BY <1>1, <1>3, <1>4, KeepPrefix
<1>6. ChainInv'
  BY <1>1, KeepChain
<1> QED
  BY <1>2, <1>5, <1>6

-----------------------------------------------------------------------------
(* The steps.                                                              *)

LEMMA InitInv == Init => IInv
<1> SUFFICES ASSUME Init PROVE IInv
  OBVIOUS
<1>1. TypeOK
  <2>1. now \in Time /\ 0 \in 0 .. now
    BY ChainAssumption DEF Init, Time
  <2>2. /\ occurredAt \in [Ids -> 0 .. MaxTime] /\ began \in [Writers -> 0 .. now]
        /\ outcome \in [Ids -> {"none", "recorded", "forged"}]
        /\ event \in [Ids -> Kinds \cup {"none", "forged"}] /\ kind \in [Writers -> Kinds]
    BY <2>1, ChainAssumption DEF Init, Kinds
  <2>3. inOrder \in BOOLEAN /\ gap \in BOOLEAN
    BY DEF Init
  <2> QED BY <2>1, <2>2, <2>3 DEF Init, TypeOK
<1>2. PendingInv /\ TamperInv
  BY DEF Init, PendingInv, TamperInv
<1>3. Inserted = {} /\ Links = {} /\ rows = {} /\ removed = {}
  BY DEF Init, Inserted, Links
<1>4. ChainInv /\ OwnHash
  BY <1>3 DEF Init, ChainInv, Linked, OwnHash, Distinct, Ordered
<1>5. PrefixInv
  BY DEF Init, PrefixInv, Forged
<1> QED
  BY <1>1, <1>2, <1>4, <1>5 DEF IInv

\* Steps that write no row.
LEMMA BeginStep ==
    ASSUME IInv, NEW w \in Writers, NEW k \in Kinds, NEW T \in SUBSET Tickets, Begin(w, k, T)
    PROVE  IInv'
<1> USE DEF IInv
<1>1. TypeOK'
  BY Types, ChainAssumption DEF Begin, TypeOK, rowVars, history, tampering
<1>2. PendingInv' /\ TamperInv'
  BY DEF Begin, CanBegin, Idle, PendingInv, TamperInv, rowVars, history, tampering, TypeOK
<1>3. OwnHash' /\ PrefixInv' /\ ChainInv'
  BY <1>1, KeepTable DEF Begin
<1> QED
  BY <1>1, <1>2, <1>3

LEMMA LockTicketStep ==
    ASSUME IInv, NEW w \in Writers, NEW t \in Tickets, LockTicket(w, t)
    PROVE  IInv'
<1> USE DEF IInv
<1>1. TypeOK'
  BY DEF LockTicket, TypeOK, rowVars, history, tampering
<1>2. PendingInv' /\ TamperInv'
  BY DEF LockTicket, Idle, PendingInv, TamperInv, rowVars, history, tampering
<1>3. OwnHash' /\ PrefixInv' /\ ChainInv'
  BY <1>1, KeepTable DEF LockTicket
<1> QED
  BY <1>1, <1>2, <1>3

LEMMA TickStep == ASSUME IInv, Tick \/ UNCHANGED vars PROVE IInv'
<1> USE DEF IInv
<1>1. /\ now' \in Time /\ now \in Nat /\ now' \in Nat /\ now <= now'
      /\ UNCHANGED <<rowVars, txVars, history>>
  BY Types, ChainAssumption DEF Tick, vars, TypeOK, Time
<1>2. TypeOK'
  <2>1. 0 .. now \subseteq 0 .. now'
    BY <1>1
  <2> QED BY <1>1, <2>1 DEF TypeOK, rowVars, txVars, history, tampering
<1>3. PendingInv' /\ TamperInv'
  BY <1>1 DEF Idle, PendingInv, TamperInv, rowVars, txVars, history, tampering
<1>4. OwnHash' /\ PrefixInv' /\ ChainInv'
  BY <1>1, <1>2, KeepTable DEF txVars
<1> QED
  BY <1>2, <1>3, <1>4

\* COMMIT: the rows of the transaction are of the table now.
LEMMA CommitStep == ASSUME IInv, NEW w \in Writers, Commit(w) PROVE IInv'
<1> USE DEF IInv
<1>1. /\ rows' = rows \cup pending[w]
      /\ UNCHANGED <<now, occurredAt, event, outcome, previousHash, rowHash, inOrder,
                     removed, altered, column, gap>>
      /\ chainLock' = IF chainLock = w THEN None ELSE chainLock
  BY DEF Commit, End, tampering
<1>2. /\ pending'[w] = {} /\ \A v \in Writers : v # w => pending'[v] = pending[v]
      /\ \A v \in Writers : v # w => began'[v] = began[v]
  BY DEF Commit, End, TypeOK
<1>3. TypeOK'
  BY <1>1, Types DEF Commit, End, TypeOK, Kinds
<1>4. Inserted' = Inserted /\ Links' = Links
  BY <1>1, <1>2 DEF Inserted, Links
<1>5. \A v \in Writers : v # w /\ pending[w] # {} => pending[v] = {}
  BY OnePending
<1>6. PendingInv'
  BY <1>1, <1>2, <1>5 DEF PendingInv, Idle
<1>7. TamperInv'
  BY <1>1 DEF TamperInv
<1>8. ASSUME Unbroken' PROVE Linked' /\ Distinct' /\ Ordered'
  <2>1. Linked /\ Distinct /\ Ordered
    BY <1>1, <1>8 DEF ChainInv, Unbroken, Forged, HashedColumns
  <2>2. Linked' /\ Distinct'
    BY <1>1, <1>4, <2>1, KeepLinks
  <2>3. \A i, j : Before(i, j)' <=> Before(i, j)
    BY <1>1 DEF Before
  <2>4. Inserted' = {} \/ \E l \in Inserted' : IsLast(l, Inserted)'
    BY <1>4, <2>1, <2>3 DEF Ordered, IsLast
  <2>5. rows' = rows \/ rows' = Inserted'
    BY <1>1, <1>4, OnePending
  <2>6. rows' = {} \/ \E l \in rows' : IsLast(l, rows)'
    BY <2>1, <2>3, <2>4, <2>5 DEF Ordered, IsLast
  <2>7. ASSUME NEW v \in Writers, NEW p \in pending'[v], NEW i \in rows' \cup removed'
        PROVE  Before(i, p)'
    <3>1. v # w /\ p \in pending[v]
      BY <1>2, <2>7
    <3>2. pending[w] = {}
      BY <1>5, <3>1
    <3> QED BY <1>1, <3>1, <3>2, <2>1, <2>3, <2>7 DEF Ordered
  <2>8. \A d \in removed' : \E l \in rows' : Before(d, l)'
    BY <1>1, <2>1, <2>3 DEF Ordered
  <2> QED BY <2>2, <2>4, <2>6, <2>7, <2>8 DEF Ordered
<1>9. OwnHash'
  BY <1>1, <1>4, KeepOwn
<1>10. PrefixInv'
  <2>1. ASSUME inOrder, column # "occurred_at", NEW a \in Forged, NEW p \in Inserted' \ rows
        PROVE  Before(a, p)'
    <3>1. Before(a, p)
      BY <1>4, <2>1 DEF PrefixInv, Inserted
    <3> QED BY <1>1, <3>1 DEF Before
  <2>2. \A v \in Writers : pending'[v] \cap rows = {}
    BY <1>2 DEF PendingInv
  <2> QED BY <1>1, <1>3, <2>1, <2>2, KeepPrefix
<1> QED
  BY <1>3, <1>6, <1>7, <1>8, <1>9, <1>10 DEF ChainInv

\* ROLLBACK: the rows of the transaction are gone, and they were the last.
LEMMA RollbackStep == ASSUME IInv, NEW w \in Writers, Rollback(w) PROVE IInv'
<1> USE DEF IInv
<1>1. /\ UNCHANGED <<now, rows, inOrder, removed, altered, column, gap>>
      /\ chainLock' = IF chainLock = w THEN None ELSE chainLock
  BY DEF Rollback, End, tampering
<1>2. /\ pending'[w] = {} /\ \A v \in Writers : v # w => pending'[v] = pending[v]
      /\ \A v \in Writers : v # w => began'[v] = began[v]
  BY DEF Rollback, End, TypeOK
<1>3. TypeOK'
  <2>1. 0 \in 0 .. now /\ 0 \in 0 .. MaxTime
    BY Types, ChainAssumption
  <2>2. /\ occurredAt' \in [Ids -> 0 .. MaxTime]
        /\ outcome' \in [Ids -> {"none", "recorded", "forged"}]
        /\ event' \in [Ids -> Kinds \cup {"none", "forged"}]
    BY <2>1 DEF Rollback, TypeOK
  <2> QED BY <1>1, <2>1, <2>2 DEF Rollback, End, TypeOK, Kinds
<1>4. PendingInv'
  BY <1>1, <1>2 DEF PendingInv, Idle
<1>5. TamperInv'
  BY <1>1 DEF TamperInv
<1>6. \A v \in Writers : v # w /\ pending[w] # {} => pending[v] = {}
  BY OnePending
<1>7. \A i \in Ids : i \notin pending[w] =>
         /\ occurredAt'[i] = occurredAt[i] /\ event'[i] = event[i]
         /\ previousHash'[i] = previousHash[i] /\ rowHash'[i] = rowHash[i]
  BY DEF Rollback
<1>8. Links' \subseteq Links /\ Links' \subseteq Ids /\ Inserted' \subseteq Inserted
      /\ \A i \in Links' : i \notin pending[w]
  <2>1. \A v \in Writers : v # w => pending[v] \cap pending[w] = {}
    BY <1>6
  <2> QED BY <1>1, <1>2, <2>1, Types DEF Links, Inserted, PendingInv
<1>9. \A i, j \in Links' : Before(i, j)' <=> Before(i, j)
  BY <1>7, <1>8 DEF Before
<1>10. ASSUME Unbroken' PROVE Linked' /\ Distinct' /\ Ordered'
  <2>1. Linked /\ Distinct /\ Ordered
    BY <1>1, <1>10 DEF ChainInv, Unbroken, Forged, HashedColumns
  <2>2. \A i \in Links', p \in Links : Before(p, i) => p \in Links'
    <3> SUFFICES ASSUME NEW i \in Links', NEW p \in Links, Before(p, i), p \notin Links'
                 PROVE  FALSE
      OBVIOUS
    <3>1. p \in pending[w]
      BY <1>1, <1>2 DEF Links, Inserted
    <3>2. i \in rows \cup removed
      BY <1>1, <1>2, <1>6, <3>1 DEF Links, Inserted
    <3> QED BY <2>1, <3>1, <3>2, Order, Types DEF Ordered
  <2>3. Linked'
    <3> SUFFICES ASSUME NEW i \in Links'
                 PROVE  \/ previousHash'[i] = GenesisSentinel /\ \A j \in Links' : ~Before(j, i)'
                        \/ \E p \in Links' : Precedes(p, i, Links)' /\ previousHash'[i] = rowHash'[p]
      BY DEF Linked, LinkedIn, GenesisSentinel
    <3>1. previousHash'[i] = previousHash[i] /\ i \in Links
      BY <1>7, <1>8
    <3>2. CASE previousHash[i] = GenesisSentinel /\ \A j \in Links : ~Before(j, i)
      BY <3>1, <3>2, <1>8, <1>9
    <3>3. ASSUME NEW p \in Links, Precedes(p, i, Links), previousHash[i] = rowHash[p]
          PROVE  \E q \in Links' : Precedes(q, i, Links)' /\ previousHash'[i] = rowHash'[q]
      <4>1. p \in Links'
        BY <2>2, <3>3 DEF Precedes
      <4>2. Precedes(p, i, Links)'
        BY <1>8, <1>9, <3>3, <4>1 DEF Precedes
      <4>3. rowHash'[p] = rowHash[p]
        BY <1>7, <1>8, <4>1
      <4> QED BY <4>1, <4>2, <4>3, <3>1, <3>3
    <3> QED BY <2>1, <3>1, <3>2, <3>3 DEF Linked, LinkedIn
  <2>5. Distinct'
    BY <1>7, <1>8, <2>1 DEF Distinct
  <2>6. rows \cup removed \subseteq Links' /\ \A v \in Writers : pending'[v] \subseteq Links'
    BY <1>1 DEF Links, Inserted
  <2>7. rows' = {} \/ \E l \in rows' : IsLast(l, rows)'
    BY <1>1, <1>9, <2>1, <2>6 DEF Ordered, IsLast
  <2>8. Inserted' = {} \/ \E l \in Inserted' : IsLast(l, Inserted)'
    <3>1. CASE pending[w] = {}
      <4>1. Inserted' = Inserted
        BY <1>1, <1>2, <3>1 DEF Inserted
      <4>2. Inserted' \subseteq Links'
        BY DEF Links
      <4> QED BY <4>1, <4>2, <1>9, <2>1 DEF Ordered, IsLast
    <3>2. CASE pending[w] # {}
      <4>1. Inserted' = rows'
        BY <1>1, <1>2, <1>6, <3>2 DEF Inserted
      <4> QED BY <4>1, <2>7 DEF IsLast
    <3> QED BY <3>1, <3>2
  <2>9. \A v \in Writers : \A p \in pending'[v], i \in rows' \cup removed' : Before(i, p)'
    BY <1>1, <1>2, <1>9, <2>1, <2>6 DEF Ordered
  <2>10. \A d \in removed' : \E l \in rows' : Before(d, l)'
    BY <1>1, <1>9, <2>1, <2>6 DEF Ordered
  <2> QED BY <2>3, <2>5, <2>7, <2>8, <2>9, <2>10 DEF Ordered
<1>11. OwnHash'
  BY <1>1, <1>7, <1>8 DEF OwnHash, Forged, HashedColumns, AuditLogRowHash
<1>12. PrefixInv'
  <2>1. ASSUME inOrder, column # "occurred_at", NEW a \in Forged, NEW p \in Inserted' \ rows
        PROVE  Before(a, p)'
    <3>1. Before(a, p)
      BY <1>8, <2>1 DEF PrefixInv, Inserted
    <3>2. a \in Links' /\ p \in Links'
      BY <1>1, <2>1 DEF Links, Inserted, Forged, TamperInv
    <3> QED BY <1>9, <3>1, <3>2
  <2>2. \A v \in Writers : pending'[v] \cap rows = {}
    BY <1>2 DEF PendingInv
  <2>3. \A i \in rows : i \in Ids /\ i \notin pending[w]
    BY Types DEF PendingInv
  <2> QED BY <1>1, <1>3, <1>7, <2>1, <2>2, <2>3, KeepPrefix
<1> QED
  BY <1>3, <1>4, <1>5, <1>10, <1>11, <1>12 DEF ChainInv

\* UPDATE of a column behind the application, of those verify_chain sees: the
\* row does not match its hash any more, and the rows before it stay linked.
LEMMA AlterHashedStep ==
    ASSUME IInv, ColumnsInv, NEW i \in Ids, NEW c \in HashedColumns, Alter(i, c)
    PROVE  OwnHash' /\ PrefixInv' /\ ChainInv'
<1> USE DEF IInv
<1>1. /\ i \in rows /\ altered = {} /\ removed = {} /\ altered' = {i} /\ column' = c
      /\ (\A w \in Writers : Idle(w)) /\ UNCHANGED <<rows, pending, inOrder, removed, gap>>
  BY DEF Alter, Tamper, txVars
<1>2. Forged = {} /\ Forged' = {i}
  BY <1>1 DEF Forged, HashedColumns
<1>3. \A w \in Writers : pending[w] = {}
  BY <1>1 DEF PendingInv
<1>4. Inserted = rows /\ Links = rows /\ Links' = rows /\ rows \subseteq Ids
  BY <1>1, <1>3, Types DEF Inserted, Links
<1>5. \A k \in Ids \ {i} : /\ occurredAt'[k] = occurredAt[k] /\ event'[k] = event[k]
                           /\ previousHash'[k] = previousHash[k] /\ rowHash'[k] = rowHash[k]
  <2>1. CASE c = "event"
    BY <2>1 DEF Alter, TypeOK
  <2>2. CASE c = "occurred_at"
    BY <2>2 DEF Alter, TypeOK
  <2>3. CASE c = "previous_hash"
    BY <2>3 DEF Alter, ColumnsInv
  <2>4. CASE c = "row_hash"
    BY <2>4 DEF Alter, ColumnsInv
  <2> QED BY <2>1, <2>2, <2>3, <2>4 DEF HashedColumns
<1>6. rowHash[i] = AuditLogRowHash(previousHash[i], occurredAt[i], event[i])
  BY <1>1, <1>2, <1>4 DEF OwnHash
<1>7. rowHash'[i] # AuditLogRowHash(previousHash'[i], occurredAt'[i], event'[i])
  <2>1. CASE c = "event"
    BY <1>6, <2>1 DEF Alter, AuditLogRowHash, TypeOK
  <2>2. CASE c = "occurred_at"
    BY <1>6, <2>2 DEF Alter, AuditLogRowHash, TypeOK
  <2>3. CASE c = "previous_hash"
    BY <1>6, <2>3 DEF Alter, AuditLogRowHash, ColumnsInv
  <2>4. CASE c = "row_hash"
    BY <1>6, <2>4 DEF Alter, AuditLogRowHash, ColumnsInv
  <2> QED BY <2>1, <2>2, <2>3, <2>4 DEF HashedColumns
<1>8. OwnHash'
  <2> SUFFICES ASSUME NEW k \in Links'
               PROVE  k \in Forged' <=>
                        rowHash'[k] # AuditLogRowHash(previousHash'[k], occurredAt'[k], event'[k])
    BY DEF OwnHash, AuditLogRowHash
  <2>1. CASE k = i
    BY <1>2, <1>7, <2>1
  <2>2. CASE k # i
    <3>1. rowHash[k] = AuditLogRowHash(previousHash[k], occurredAt[k], event[k])
      BY <1>2, <1>4 DEF OwnHash
    <3> QED BY <1>2, <1>4, <1>5, <2>2, <3>1
  <2> QED BY <2>1, <2>2
<1>9. PrefixInv'
  <2> SUFFICES ASSUME inOrder', column' # "occurred_at", NEW j \in rows, Before(j, i)'
               PROVE  LinkedIn(j, rows)'
    BY <1>1, <1>2, <1>3 DEF PrefixInv
  <2>1. occurredAt' = occurredAt
    BY <1>1 DEF Alter, HashedColumns
  <2>2. \A k, l : Before(k, l)' <=> Before(k, l)
    BY <2>1 DEF Before
  <2>3. Before(j, i) /\ j # i
    BY <1>4, <2>2, Order
  <2>4. LinkedIn(j, rows)
    BY <1>1, <1>2, <1>4 DEF ChainInv, Unbroken, Linked
  <2>5. CASE previousHash[j] = GenesisSentinel /\ \A k \in rows : ~Before(k, j)
    BY <1>1, <1>4, <1>5, <2>2, <2>3, <2>5 DEF LinkedIn, GenesisSentinel
  <2>6. ASSUME NEW p \in rows, Precedes(p, j, rows), previousHash[j] = rowHash[p]
        PROVE  LinkedIn(j, rows)'
    <3>1. Precedes(p, j, rows)'
      BY <1>1, <2>2, <2>6 DEF Precedes
    <3>2. p # i
      BY <1>4, <2>3, <2>6, Order DEF Precedes
    <3> QED BY <1>1, <1>4, <1>5, <2>3, <2>6, <3>1, <3>2 DEF LinkedIn
  <2> QED BY <2>4, <2>5, <2>6 DEF LinkedIn
<1>10. ChainInv'
  BY <1>2 DEF ChainInv, Unbroken
<1> QED
  BY <1>8, <1>9, <1>10

LEMMA AlterStep ==
    ASSUME IInv, ColumnsInv, NEW i \in Ids, NEW c \in Columns, Alter(i, c)
    PROVE  IInv'
<1> USE DEF IInv
<1>1. /\ i \in rows /\ altered = {} /\ removed = {} /\ altered' = {i} /\ column' = c
      /\ UNCHANGED <<now, rows, pending, began, kind, tickets, locked, chainLock, inOrder,
                     removed, gap>>
  BY DEF Alter, Tamper, txVars
<1>2. TypeOK'
  <2>1. event' \in [Ids -> Kinds \cup {"none", "forged"}]
    BY DEF TypeOK, Alter, Columns, HashedColumns
  <2>2. outcome' \in [Ids -> {"none", "recorded", "forged"}]
    BY DEF TypeOK, Alter, Columns, HashedColumns
  <2>3. occurredAt' \in [Ids -> 0 .. MaxTime]
    <3>1. Time \subseteq 0 .. MaxTime
      BY ChainAssumption DEF Time
    <3> QED BY <3>1 DEF TypeOK, Alter, Columns, HashedColumns
  <2> QED BY <1>1, <2>1, <2>2, <2>3 DEF TypeOK
<1>3. PendingInv' /\ TamperInv'
  BY <1>1 DEF PendingInv, TamperInv, Idle, Columns, HashedColumns
<1>4. CASE c \in HashedColumns
  BY <1>1, <1>2, <1>3, <1>4, AlterHashedStep
<1>5. CASE c = "outcome"
  <2>1. UNCHANGED <<occurredAt, event, previousHash, rowHash>>
    BY <1>5 DEF Alter
  <2>2. Forged = {} /\ Forged' = {} /\ Links' = Links
    BY <1>1, <1>5 DEF Forged, HashedColumns, Links, Inserted
  <2>3. OwnHash'
    BY <2>1, <2>2 DEF OwnHash, AuditLogRowHash
  <2>4. PrefixInv'
    BY <2>2 DEF PrefixInv
  <2>5. ChainInv'
    BY <1>1, <2>1, <2>2, KeepChain
  <2> QED BY <1>2, <1>3, <2>3, <2>4, <2>5
<1> QED
  BY <1>4, <1>5 DEF Columns

\* DELETE of a row behind the application: the links remember it.
LEMMA DeleteStep == ASSUME IInv, NEW i \in Ids, Delete(i) PROVE IInv'
<1> USE DEF IInv
<1>1. /\ i \in rows /\ altered = {} /\ removed = {} /\ removed' = {i} /\ rows' = rows \ {i}
      /\ (\A w \in Writers : Idle(w)) /\ gap' = \E j \in rows : Before(i, j)
      /\ UNCHANGED <<now, occurredAt, event, outcome, previousHash, rowHash, pending, began,
                     kind, tickets, locked, chainLock, inOrder, altered, column>>
  BY DEF Delete, Tamper, txVars
<1>2. TypeOK'
  <2>1. gap' \in BOOLEAN /\ inOrder' \in BOOLEAN
    BY <1>1 DEF TypeOK
  <2>2. rows' \subseteq Ids /\ removed' \subseteq Ids
    BY <1>1 DEF TypeOK
  <2> QED BY <1>1, <2>1, <2>2 DEF TypeOK
<1>3. \A w \in Writers : pending[w] = {}
  BY <1>1 DEF PendingInv
<1>4. PendingInv' /\ TamperInv'
  BY <1>1, <1>3 DEF PendingInv, TamperInv
<1>5. Inserted = rows /\ Inserted' = rows' /\ Links = rows /\ Links' = rows
  BY <1>1, <1>3 DEF Inserted, Links
<1>6. \A k, j : Before(k, j)' <=> Before(k, j)
  BY <1>1 DEF Before
<1>7. ASSUME Unbroken' PROVE Linked' /\ Distinct' /\ Ordered'
  <2>1. Linked /\ Distinct /\ Ordered
    BY <1>1, <1>7 DEF ChainInv, Unbroken, Forged
  <2>2. Linked' /\ Distinct'
    BY <1>1, <1>5, <2>1, KeepLinks
  <2>3. PICK j \in rows : Before(i, j)
    BY <1>1, <1>7 DEF Unbroken
  <2>4. PICK l \in rows : IsLast(l, rows)
    BY <1>1, <2>1 DEF Ordered
  <2>5. Before(i, l)
    BY <2>3, <2>4, <1>1, Order, Types DEF IsLast
  <2>6. l \in rows' /\ IsLast(l, rows)'
    BY <1>1, <1>6, <2>4, <2>5, Order, Types DEF IsLast
  <2> QED BY <1>1, <1>3, <1>5, <1>6, <2>2, <2>5, <2>6 DEF Ordered, IsLast
<1>8. OwnHash'
  BY <1>1, <1>5, KeepOwn
<1>9. PrefixInv'
  BY <1>1 DEF PrefixInv, Forged
<1> QED
  BY <1>2, <1>4, <1>7, <1>8, <1>9 DEF ChainInv

\* A hash of a row is no sentinel, and two of them agree on the link.
LEMMA HashFacts ==
    \A p, a, e, q, b, f :
        /\ AuditLogRowHash(p, a, e) # GenesisSentinel
        /\ AuditLogRowHash(p, a, e) = AuditLogRowHash(q, b, f) => p = q
BY DEF AuditLogRowHash, GenesisSentinel

\* INSERT and its trigger, under the advisory lock: the new row is linked to
\* the last one, and nobody else is linked to it.
LEMMA InsertStep ==
    ASSUME IInv, ColumnsInv, NEW w \in Writers, NEW i \in Ids, Insert(w, i)
    PROVE  IInv'
<1> USE DEF IInv
<1>0. /\ chainLock \in {None, w} /\ chainLock' = w /\ ~Idle(w) /\ i \notin Drawn
      /\ Link(w, i, rows \cup pending[w])
      /\ UNCHANGED <<now, rows, began, kind, tickets, locked, removed, altered, column, gap>>
  BY DEF Insert, CanInsert, tampering
<1>1. Inserted = rows \cup pending[w] /\ \A v \in Writers : v # w => pending[v] = {}
  BY <1>0, OnePending
<1>2. i \notin Links /\ i \notin rows /\ i \notin removed /\ Links \subseteq Ids
  BY <1>0, <1>1, Types DEF Drawn, Links, Inserted
<1>3. PICK h : h = HashOfLatest(Inserted)
  OBVIOUS
<1>4. /\ occurredAt' = [occurredAt EXCEPT ![i] = began[w]]
      /\ event' = [event EXCEPT ![i] = kind[w]]
      /\ outcome' = [outcome EXCEPT ![i] = "recorded"]
      /\ previousHash' = [previousHash EXCEPT ![i] = h]
      /\ rowHash' = [rowHash EXCEPT ![i] = AuditLogRowHash(h, began[w], kind[w])]
      /\ pending' = [pending EXCEPT ![w] = @ \cup {i}]
  BY <1>0, <1>1, <1>3 DEF Link
<1>5. inOrder' = (inOrder /\ \A j \in Inserted :
                     occurredAt[j] < began[w] \/ (occurredAt[j] = began[w] /\ j < i))
  BY <1>0, <1>1 DEF Link
<1>6. TypeOK'
  <2>0. began[w] \in 0 .. MaxTime
    BY ChainAssumption DEF TypeOK, Time
  <2>1. /\ occurredAt' \in [Ids -> 0 .. MaxTime]
        /\ event' \in [Ids -> Kinds \cup {"none", "forged"}]
        /\ outcome' \in [Ids -> {"none", "recorded", "forged"}]
        /\ pending' \in [Writers -> SUBSET Ids]
    BY <1>4, <2>0 DEF TypeOK
  <2>2. inOrder' \in BOOLEAN
    BY <1>5 DEF TypeOK
  <2> QED BY <1>0, <2>1, <2>2 DEF TypeOK
<1>7. /\ pending'[w] = pending[w] \cup {i}
      /\ \A v \in Writers : v # w => pending'[v] = {}
  BY <1>1, <1>4 DEF TypeOK
<1>8. PendingInv' /\ TamperInv'
  BY <1>0, <1>2, <1>7 DEF PendingInv, TamperInv, Idle
<1>9. Inserted' = Inserted \cup {i} /\ Links' = Links \cup {i}
  BY <1>0, <1>1, <1>7 DEF Inserted, Links
<1>10. ASSUME Unbroken' PROVE Linked' /\ Distinct' /\ Ordered'
  <2>1. Linked /\ Distinct /\ Ordered /\ inOrder /\ inOrder' /\ Forged = {}
    BY <1>0, <1>5, <1>10 DEF ChainInv, Unbroken, Forged, HashedColumns
  <2>2. /\ occurredAt'[i] = began[w] /\ \A j \in Links : occurredAt'[j] = occurredAt[j]
        /\ event'[i] = kind[w] /\ kind[w] \in Kinds /\ \A j \in Links : event'[j] = event[j]
    BY <1>2, <1>4 DEF TypeOK
  <2>3. \A j, k \in Links : Before(j, k)' <=> Before(j, k)
    BY <2>2 DEF Before
  <2>4. \A j \in Inserted : Before(j, i)'
    BY <1>5, <2>1, <2>2 DEF Before, Links
  <2>5. \A j \in Links : Before(j, i)' /\ ~Before(i, j)'
    <3>1. \A d \in removed : Before(d, i)'
      <4> SUFFICES ASSUME NEW d \in removed PROVE Before(d, i)'
        OBVIOUS
      <4>1. PICK l \in rows : Before(d, l)
        BY <2>1 DEF Ordered
      <4>2. l \in Inserted /\ l \in Links /\ d \in Links
        BY DEF Inserted, Links
      <4>3. Before(d, l)' /\ Before(l, i)'
        BY <2>3, <2>4, <4>1, <4>2
      <4> QED BY <1>2, <1>6, <4>2, <4>3, OrderNext
    <3>2. \A j \in Links : Before(j, i)'
      BY <2>4, <3>1 DEF Links
    <3> QED BY <1>2, <1>6, <3>2, OrderNext
  <2>6. ~Before(i, i)'
    BY <1>6, OrderNext
  <2>7. \/ Links = {} /\ h = GenesisSentinel
        \/ \E l \in Links : /\ h = rowHash[l]
                            /\ \A j \in Links : j = l \/ Before(j, l)
    <3>1. CASE Inserted = {}
      <4>1. Links = {}
        BY <2>1, <3>1 DEF Ordered, Links, Inserted
      <4> QED BY <3>1, <4>1, <1>3, LatestHash
    <3>2. CASE Inserted # {}
      <4>1. PICK l \in Inserted : IsLast(l, Inserted)
        BY <2>1, <3>2 DEF Ordered
      <4>2. h = rowHash[l] /\ l \in Links
        BY <4>1, <1>3, LatestHash, Types DEF Links
      <4>3. \A j \in Inserted : j = l \/ Before(j, l)
        BY <4>1 DEF IsLast
      <4>4. \A d \in removed : Before(d, l)
        <5> SUFFICES ASSUME NEW d \in removed PROVE Before(d, l)
          OBVIOUS
        <5>1. PICK k \in rows : Before(d, k)
          BY <2>1 DEF Ordered
        <5>2. k \in Inserted /\ k \in Ids /\ l \in Ids /\ d \in Ids
          BY <4>1, Types DEF Inserted
        <5> QED BY <4>3, <5>1, <5>2, Order
      <4> QED BY <4>2, <4>3, <4>4 DEF Links
    <3> QED BY <3>1, <3>2
  <2>8. /\ previousHash'[i] = h /\ rowHash'[i] = AuditLogRowHash(h, began[w], kind[w])
        /\ \A j \in Links : previousHash'[j] = previousHash[j] /\ rowHash'[j] = rowHash[j]
    BY <1>2, <1>4 DEF ColumnsInv
  <2>9. Linked'
    <3>1. ASSUME NEW k \in Links
          PROVE  \/ previousHash'[k] = GenesisSentinel /\ \A j \in Links' : ~Before(j, k)'
                 \/ \E p \in Links' : Precedes(p, k, Links)' /\ previousHash'[k] = rowHash'[p]
      <4>1. CASE previousHash[k] = GenesisSentinel /\ \A j \in Links : ~Before(j, k)
        BY <4>1, <1>9, <2>3, <2>5, <2>8
      <4>2. ASSUME NEW p \in Links, Precedes(p, k, Links), previousHash[k] = rowHash[p]
            PROVE  \E q \in Links' : Precedes(q, k, Links)' /\ previousHash'[k] = rowHash'[q]
        <5>1. Precedes(p, k, Links)'
          BY <4>2, <1>9, <2>3, <2>5 DEF Precedes
        <5> QED BY <4>2, <5>1, <1>9, <2>8
      <4> QED BY <2>1, <4>1, <4>2 DEF Linked, LinkedIn
    <3>2. \/ previousHash'[i] = GenesisSentinel /\ \A j \in Links' : ~Before(j, i)'
          \/ \E p \in Links' : Precedes(p, i, Links)' /\ previousHash'[i] = rowHash'[p]
      <4>1. CASE Links = {} /\ h = GenesisSentinel
        BY <4>1, <1>9, <2>6, <2>8
      <4>2. ASSUME NEW l \in Links, h = rowHash[l], \A j \in Links : j = l \/ Before(j, l)
            PROVE  \E p \in Links' : Precedes(p, i, Links)' /\ previousHash'[i] = rowHash'[p]
        <5>1. Precedes(l, i, Links)'
          BY <4>2, <1>9, <2>3, <2>5, <2>6 DEF Precedes
        <5> QED BY <4>2, <5>1, <1>9, <2>8
      <4> QED BY <2>7, <4>1, <4>2
    <3> QED BY <1>9, <3>1, <3>2 DEF Linked, LinkedIn, GenesisSentinel
  <2>10. \A k \in Links : rowHash[k] = AuditLogRowHash(previousHash[k], occurredAt[k], event[k])
    BY <2>1 DEF OwnHash
  <2>11. \A j \in Links : rowHash[j] # AuditLogRowHash(h, began[w], kind[w])
    <3> SUFFICES ASSUME NEW j \in Links, rowHash[j] = AuditLogRowHash(h, began[w], kind[w])
                 PROVE  FALSE
      OBVIOUS
    <3>1. rowHash[j] = AuditLogRowHash(previousHash[j], occurredAt[j], event[j])
      BY <2>10
    <3>2. previousHash[j] = h
      BY <3>1 DEF AuditLogRowHash
    <3>3. PICK l \in Links : h = rowHash[l] /\ \A k \in Links : k = l \/ Before(k, l)
      BY <2>7
    <3>4. rowHash[l] = AuditLogRowHash(previousHash[l], occurredAt[l], event[l])
      BY <2>10
    <3>5. h # GenesisSentinel
      BY <3>3, <3>4, HashFacts
    <3>6. PICK p \in Links : Before(p, j) /\ previousHash[j] = rowHash[p]
      BY <2>1, <3>2, <3>5 DEF Linked, LinkedIn, Precedes
    <3>7. p = l
      BY <2>1, <3>2, <3>3, <3>6 DEF Distinct
    <3>8. j = l \/ Before(j, l)
      BY <3>3
    <3>9. j \in Ids /\ l \in Ids
      BY <1>2
    <3> QED BY <3>6, <3>7, <3>8, <3>9, Order
  <2>12. Distinct'
    BY <1>9, <2>1, <2>8, <2>11 DEF Distinct
  <2>13. Ordered'
    <3>1. rows \subseteq Links /\ removed \subseteq Links /\ Inserted \subseteq Links
          /\ pending[w] \subseteq Links
      BY <1>1 DEF Links, Inserted
    <3>2. rows' = {} \/ \E l \in rows' : IsLast(l, rows)'
      BY <1>0, <2>1, <2>3, <3>1 DEF Ordered, IsLast
    <3>3. i \in Inserted' /\ IsLast(i, Inserted)'
      BY <1>9, <2>4 DEF IsLast
    <3>4. \A v \in Writers : \A p \in pending'[v], k \in rows' \cup removed' : Before(k, p)'
      <4> SUFFICES ASSUME NEW p \in pending[w] \cup {i}, NEW k \in rows \cup removed
                   PROVE  Before(k, p)'
        BY <1>0, <1>7
      <4>1. CASE p = i
        BY <4>1, <2>5, <3>1
      <4>2. CASE p \in pending[w]
        <5>1. Before(k, p)
          BY <4>2, <2>1 DEF Ordered
        <5> QED BY <4>2, <5>1, <2>3, <3>1
      <4> QED BY <4>1, <4>2
    <3>5. \A d \in removed' : \E l \in rows' : Before(d, l)'
      BY <1>0, <2>1, <2>3, <3>1 DEF Ordered
    <3> QED BY <3>2, <3>3, <3>4, <3>5 DEF Ordered
  <2> QED
    BY <2>9, <2>12, <2>13
<1>11. \A j \in Links : /\ occurredAt'[j] = occurredAt[j] /\ event'[j] = event[j]
                        /\ previousHash'[j] = previousHash[j] /\ rowHash'[j] = rowHash[j]
  BY <1>2, <1>4 DEF TypeOK, ColumnsInv
<1>12. Forged' = Forged /\ i \notin Forged
  BY <1>0, <1>2 DEF Forged, HashedColumns, TamperInv
<1>13. OwnHash'
  <2> SUFFICES ASSUME NEW k \in Links'
               PROVE  k \in Forged <=>
                        rowHash'[k] # AuditLogRowHash(previousHash'[k], occurredAt'[k], event'[k])
    BY <1>12 DEF OwnHash, AuditLogRowHash
  <2>1. CASE k = i
    <3>1. occurredAt'[i] = began[w] /\ event'[i] = kind[w]
      BY <1>4 DEF TypeOK
    <3>2. previousHash'[i] = h /\ rowHash'[i] = AuditLogRowHash(h, began[w], kind[w])
      BY <1>4 DEF ColumnsInv
    <3> QED BY <1>12, <2>1, <3>1, <3>2
  <2>2. CASE k \in Links
    BY <1>11, <2>2 DEF OwnHash
  <2> QED BY <1>9, <2>1, <2>2
<1>14. PrefixInv'
  <2>1. ASSUME inOrder, inOrder', column # "occurred_at", NEW a \in Forged,
               NEW p \in Inserted' \ rows
        PROVE  Before(a, p)'
    <3>1. a \in Inserted /\ a \in Links
      BY <2>1 DEF Forged, TamperInv, Inserted, Links
    <3>2. CASE p = i
      <4>1. occurredAt'[i] = began[w] /\ occurredAt'[a] = occurredAt[a]
        BY <1>4, <1>11, <3>1 DEF TypeOK
      <4> QED BY <1>5, <2>1, <3>1, <3>2, <4>1 DEF Before
    <3>3. CASE p # i
      <4>1. p \in pending[w] /\ p \in Links
        BY <1>1, <1>9, <2>1, <3>3 DEF Links
      <4>2. Before(a, p)
        BY <2>1, <4>1 DEF PrefixInv
      <4> QED BY <1>11, <3>1, <4>1, <4>2 DEF Before
    <3> QED BY <3>2, <3>3
  <2>2. \A v \in Writers : pending'[v] \cap rows = {}
    BY <1>2, <1>7 DEF PendingInv
  <2>3. \A j \in rows : j \in Links
    BY DEF Links, Inserted
  <2>4. inOrder' => inOrder
    BY <1>5
  <2>5. UNCHANGED <<altered, column>> /\ rows \subseteq rows'
    BY <1>0
  <2> QED BY <1>6, <1>11, <2>1, <2>2, <2>3, <2>4, <2>5, KeepPrefix
<1> QED
  BY <1>6, <1>8, <1>10, <1>13, <1>14 DEF ChainInv

LEMMA NextInv == ASSUME IInv, ColumnsInv, [Next]_vars PROVE IInv' /\ ColumnsInv'
<1>1. IInv'
  BY BeginStep, LockTicketStep, InsertStep, CommitStep, RollbackStep, AlterStep, DeleteStep,
     TickStep DEF Next, Step
<1>2. ColumnsInv'
  <2>1. ASSUME NEW w \in Writers, NEW i \in Ids, Insert(w, i) PROVE ColumnsInv'
    BY <2>1 DEF Insert, Link, ColumnsInv
  <2>2. ASSUME NEW w \in Writers, Rollback(w) PROVE ColumnsInv'
    BY <2>2 DEF Rollback, ColumnsInv
  <2>3. ASSUME NEW i \in Ids, NEW c \in Columns, Alter(i, c) PROVE ColumnsInv'
    BY <2>3 DEF Alter, Columns, HashedColumns, ColumnsInv
  <2>4. CASE UNCHANGED <<previousHash, rowHash>>
    BY <2>4 DEF ColumnsInv
  <2> QED
    BY <2>1, <2>2, <2>3, <2>4 DEF Next, Step, Begin, LockTicket, Commit, Delete, Tick, vars, rowVars
<1> QED
  BY <1>1, <1>2

-----------------------------------------------------------------------------
(* What verify_chain finds in such a table.                                *)

\* Row i does not carry the hash verify_chain expects exactly when the row
\* before it was deleted.
LEMMA LinkBreaks ==
    ASSUME IInv, Unbroken, NEW i \in rows
    PROVE  previousHash[i] # ExpectedPrevious(i) <=> \E d \in removed : Precedes(d, i, Links)
<1> USE DEF IInv
<1>1. Linked /\ Distinct /\ Ordered
  BY DEF ChainInv
<1>2. Links \subseteq Ids /\ rows \subseteq Links /\ removed \subseteq Links /\ i \in Links
  BY Types DEF Links, Inserted
<1>3. \A j \in Links : Before(j, i) => j \in rows \cup removed
  <2> SUFFICES ASSUME NEW w \in Writers, NEW j \in pending[w], j \in Links, Before(j, i)
               PROVE  FALSE
    BY DEF Links, Inserted
  <2>1. Before(i, j)
    BY <1>1 DEF Ordered
  <2> QED BY <2>1, <1>2, Order
<1>4. PICK B : B = {j \in rows : Before(j, i)}
  OBVIOUS
<1>5. ExpectedPrevious(i) = HashOfLatest(B) /\ B \subseteq Ids
  BY <1>2, <1>4 DEF ExpectedPrevious
<1>6. CASE previousHash[i] = GenesisSentinel /\ \A j \in Links : ~Before(j, i)
  <2>1. B = {}
    BY <1>2, <1>4, <1>6
  <2>2. ~ \E d \in removed : Precedes(d, i, Links)
    BY <1>2, <1>6 DEF Precedes
  <2> QED BY <1>5, <1>6, <2>1, <2>2, LatestHash
<1>7. ASSUME NEW p \in Links, Precedes(p, i, Links), previousHash[i] = rowHash[p]
      PROVE  previousHash[i] # ExpectedPrevious(i) <=> \E d \in removed : Precedes(d, i, Links)
  <2>1. Before(p, i) /\ \A j \in Links : Before(j, i) => j = p \/ Before(j, p)
    BY <1>7 DEF Precedes
  <2>2. CASE p \in rows
    <3>1. p \in B /\ IsLast(p, B)
      BY <1>2, <1>4, <2>1, <2>2 DEF IsLast
    <3>2. ExpectedPrevious(i) = previousHash[i]
      BY <1>5, <1>7, <3>1, LatestHash
    <3>3. ASSUME NEW d \in removed, Precedes(d, i, Links) PROVE FALSE
      <4>1. Before(d, i) /\ (p = d \/ Before(p, d))
        BY <3>3, <2>1 DEF Precedes
      <4>2. d = p \/ Before(d, p)
        BY <4>1, <2>1, <1>2
      <4>3. d # p
        BY <2>2 DEF PendingInv
      <4> QED BY <4>1, <4>2, <4>3, <1>2, Order
    <3> QED BY <3>2, <3>3
  <2>3. CASE p \in removed
    <3>1. p \notin rows /\ removed = {p}
      BY <2>3 DEF PendingInv, TamperInv
    <3>2. \A j \in B : j \in Links /\ Before(j, p)
      BY <1>2, <1>4, <2>1, <3>1
    <3>3. CASE B = {}
      <4>1. rowHash[p] = AuditLogRowHash(previousHash[p], occurredAt[p], event[p])
        BY <1>2, <2>3 DEF OwnHash, Unbroken
      <4>2. rowHash[p] # GenesisSentinel
        BY <4>1, HashFacts
      <4> QED BY <1>5, <1>7, <2>3, <3>3, <4>2, LatestHash
    <3>4. CASE B # {}
      <4>1. PICK q \in Links : Precedes(q, p, Links)
        BY <1>1, <3>2, <3>4 DEF Linked, LinkedIn
      <4>2. Before(q, p) /\ \A j \in Links : Before(j, p) => j = q \/ Before(j, q)
        BY <4>1 DEF Precedes
      <4>3. Before(q, i) /\ q # p
        BY <1>2, <2>1, <4>2, Order
      <4>4. q \in B
        BY <1>3, <1>4, <3>1, <4>3
      <4>5. IsLast(q, B)
        BY <3>2, <4>2 DEF IsLast
      <4>6. ExpectedPrevious(i) = rowHash[q]
        BY <1>5, <4>4, <4>5, LatestHash
      <4>7. rowHash[q] # rowHash[p]
        BY <1>1, <4>3 DEF Distinct
      <4> QED BY <4>6, <4>7, <1>7, <2>3
    <3> QED BY <3>3, <3>4
  <2> QED BY <1>3, <2>1, <2>2, <2>3
<1> QED
  BY <1>1, <1>2, <1>6, <1>7 DEF Linked, LinkedIn

\* Nobody touched the chain, or not where verify_chain looks: it is intact.
LEMMA NoBreak == ASSUME IInv, inOrder, Forged = {}, removed = {} PROVE VerifyChain = {}
<1>1. Unbroken /\ rows \subseteq Links
  BY DEF Unbroken, Links, Inserted
<1>2. \A i \in rows : ~Breaks(i)
  BY <1>1, LinkBreaks DEF IInv, OwnHash, Breaks
<1> QED
  BY <1>2 DEF VerifyChain

\* verify_chain stops somewhere when some row breaks the chain.
LEMMA FirstBreak == ASSUME TypeOK, NEW b \in rows, Breaks(b) PROVE VerifyChain # {}
<1>1. rows \subseteq Ids /\ \A i \in rows : i \in Nat /\ occurredAt[i] \in Nat
  BY Types
<1>2. PICK T : T = {occurredAt[i] : i \in {j \in rows : Breaks(j)}}
  OBVIOUS
<1>3. T \subseteq Nat /\ T # {}
  BY <1>1, <1>2
<1>4. PICK t \in T : \A u \in T : ~(<<u, t>> \in OpToRel(<, Nat))
  BY <1>3, NatLessThanWellFounded, WFMin
<1>5. PICK S : S = {i \in rows : Breaks(i) /\ occurredAt[i] = t}
  OBVIOUS
<1>6. S \subseteq Nat /\ S # {}
  BY <1>1, <1>2, <1>5
<1>7. PICK i \in S : \A j \in S : ~(<<j, i>> \in OpToRel(<, Nat))
  BY <1>6, NatLessThanWellFounded, WFMin
<1>8. i \in rows /\ Breaks(i) /\ occurredAt[i] = t /\ i \in Nat /\ t \in Nat
  BY <1>1, <1>5
<1>9. ASSUME NEW j \in rows, Before(j, i), Breaks(j) PROVE FALSE
  <2>1. j \in Nat /\ occurredAt[j] \in Nat /\ occurredAt[j] \in T
    BY <1>1, <1>2, <1>9
  <2>2. ~(occurredAt[j] < t)
    BY <1>4, <1>8, <2>1 DEF OpToRel
  <2>3. occurredAt[j] = t /\ j < i
    BY <1>8, <1>9, <2>1, <2>2 DEF Before
  <2>4. j \in S
    BY <1>5, <1>9, <2>3
  <2> QED BY <1>7, <1>8, <2>1, <2>3, <2>4 DEF OpToRel
<1> QED
  BY <1>8, <1>9 DEF VerifyChain

LEMMA Located == IInv => TamperingLocated
<1> SUFFICES ASSUME IInv PROVE TamperingLocated
  OBVIOUS
<1>0. rows \subseteq Ids /\ rows \subseteq Links
  BY Types DEF IInv, Links, Inserted
<1>1. ASSUME column \in HashedColumns
      PROVE  \E a \in rows : altered = {a} /\ Forged = {a} /\ Breaks(a)
  <2>1. PICK a \in rows : altered = {a}
    BY <1>1 DEF IInv, TamperInv, HashedColumns
  <2>2. Forged = {a}
    BY <1>1, <2>1 DEF Forged
  <2>3. Breaks(a)
    BY <1>0, <2>1, <2>2 DEF IInv, OwnHash, Breaks
  <2> QED BY <2>1, <2>2, <2>3
<1>2. ASSUME column \in HashedColumns PROVE VerifyChain # {}
  BY <1>1, <1>2, FirstBreak DEF IInv
<1>3. ASSUME inOrder, column \in HashedColumns \ {"occurred_at"} PROVE VerifyChain = altered
  <2>1. PICK a \in rows : altered = {a} /\ Forged = {a} /\ Breaks(a)
    BY <1>1, <1>3
  <2>2. ASSUME NEW j \in rows, Before(j, a) PROVE ~Breaks(j)
    <3>1. j # a
      BY <1>0, <2>2, Order DEF IInv
    <3>2. rowHash[j] = AuditLogRowHash(previousHash[j], occurredAt[j], event[j])
      BY <1>0, <2>1, <3>1 DEF IInv, OwnHash
    <3>3. LinkedIn(j, rows)
      BY <1>3, <2>1, <2>2 DEF IInv, PrefixInv
    <3>4. PICK B : B = {k \in rows : Before(k, j)}
      OBVIOUS
    <3>5. ExpectedPrevious(j) = HashOfLatest(B) /\ B \subseteq Ids
      BY <1>0, <3>4 DEF ExpectedPrevious
    <3>6. CASE previousHash[j] = GenesisSentinel /\ \A k \in rows : ~Before(k, j)
      BY <3>2, <3>4, <3>5, <3>6, LatestHash DEF Breaks, IInv
    <3>7. ASSUME NEW p \in rows, Precedes(p, j, rows), previousHash[j] = rowHash[p]
          PROVE  ~Breaks(j)
      <4>1. p \in B /\ IsLast(p, B)
        BY <3>4, <3>7 DEF Precedes, IsLast
      <4> QED BY <3>2, <3>5, <3>7, <4>1, LatestHash DEF Breaks, IInv
    <3> QED BY <3>3, <3>6, <3>7 DEF LinkedIn
  <2>3. \A j \in rows : j = a \/ Before(j, a) \/ Before(a, j)
    BY <1>0, Order DEF IInv
  <2> QED BY <2>1, <2>2, <2>3 DEF VerifyChain
<1>4. ASSUME inOrder, column = "outcome" PROVE VerifyChain = {}
  <2>1. Forged = {} /\ removed = {}
    BY <1>4 DEF Forged, HashedColumns, IInv, TamperInv
  <2> QED BY <1>4, <2>1, NoBreak
<1>5. ASSUME inOrder, gap
      PROVE  VerifyChain = {i \in rows : \E d \in removed :
               Before(d, i) /\ \A j \in rows : Before(d, j) => ~Before(j, i)}
  <2>1. altered = {} /\ removed # {} /\ Unbroken /\ Ordered
    BY <1>5 DEF IInv, TamperInv, ChainInv, Unbroken, Forged
  <2>2. PICK d \in removed : removed = {d} /\ d \notin rows
    BY <2>1 DEF IInv, TamperInv, PendingInv
  <2>3. rows \subseteq Ids /\ d \in Ids /\ Links \subseteq Ids /\ rows \subseteq Links
    BY Types DEF IInv, Links, Inserted
  <2>4. \A i \in rows : Breaks(i) <=> Precedes(d, i, Links)
    BY <1>0, <2>1, <2>2, LinkBreaks DEF Breaks, IInv, OwnHash, Unbroken
  <2>5. \A i \in rows : \A j \in Links : Before(j, i) => j \in rows \/ j = d
    <3> SUFFICES ASSUME NEW i \in rows, NEW w \in Writers, NEW j \in pending[w], j \in Links,
                        Before(j, i)
                 PROVE  FALSE
      BY <2>2 DEF Links, Inserted
    <3>1. Before(i, j)
      BY <2>1 DEF Ordered
    <3> QED BY <3>1, <2>3, Order DEF IInv
  <2>6. \A i \in rows : Precedes(d, i, Links) <=>
           Before(d, i) /\ \A j \in rows : Before(d, j) => ~Before(j, i)
    <3>1. ASSUME NEW i \in rows, Precedes(d, i, Links), NEW j \in rows, Before(d, j), Before(j, i)
          PROVE  FALSE
      <4>1. Before(j, d)
        BY <3>1, <2>2, <2>3 DEF Precedes
      <4> QED BY <3>1, <4>1, <2>3, Order DEF IInv
    <3>2. ASSUME NEW i \in rows, Before(d, i), \A j \in rows : Before(d, j) => ~Before(j, i)
          PROVE  Precedes(d, i, Links)
      <4>1. ASSUME NEW j \in Links, Before(j, i) PROVE j = d \/ Before(j, d)
        BY <4>1, <3>2, <2>3, <2>5, Order DEF IInv
      <4> QED BY <3>2, <4>1 DEF Precedes
    <3> QED BY <3>1, <3>2 DEF Precedes
  <2>7. \A i, j \in rows : Precedes(d, i, Links) /\ Precedes(d, j, Links) => ~Before(j, i)
    <3> SUFFICES ASSUME NEW i \in rows, NEW j \in rows,
                        Precedes(d, i, Links), Precedes(d, j, Links), Before(j, i)
                 PROVE  FALSE
      OBVIOUS
    <3> QED BY <2>6
  <2>8. VerifyChain = {i \in rows : Precedes(d, i, Links)}
    BY <2>4, <2>7 DEF VerifyChain
  <2> QED BY <2>2, <2>6, <2>8
<1> QED
  BY <1>2, <1>3, <1>4, <1>5 DEF TamperingLocated

-----------------------------------------------------------------------------
\* The chain is linked row by row, and rows that are not committed hang on
\* its end, whatever the transactions do.
THEOREM Invariance == Spec => [](IInv /\ ColumnsInv)
<1>1. Init => IInv /\ ColumnsInv
  BY InitInv DEF Init, ColumnsInv
<1>2. IInv /\ ColumnsInv /\ [Next]_vars => (IInv /\ ColumnsInv)'
  BY NextInv
<1> QED
  BY <1>1, <1>2, PTL DEF Spec

\* Every variable keeps its type.
THEOREM TypeCorrect == Spec => []TypeOK
<1>1. IInv => TypeOK
  BY DEF IInv
<1> QED
  BY <1>1, Invariance, PTL

\* A change of a column the hash covers, or that holds a hash, is reported.
\* In a chain written in order verify_chain stops exactly at the changed row,
\* if its occurred_at was left alone, and at the row that followed one deleted
\* from the middle; a change of a column the hash leaves out it reports nowhere.
THEOREM TamperingIsLocated == Spec => []TamperingLocated
BY Invariance, Located, PTL

\* Concurrent appends, rollbacks and several rows of one transaction never
\* break a chain written in order: without tampering it is intact.
THEOREM ChainIsIntact == Spec => []OrderedChainIntact
<1>1. IInv => OrderedChainIntact
  BY NoBreak DEF OrderedChainIntact, Forged
<1> QED
  BY <1>1, Invariance, PTL

=============================================================================
