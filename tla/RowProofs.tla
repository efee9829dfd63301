------------------------------ MODULE RowProofs -----------------------------
(***************************************************************************)
(* What concurrent requests may rely on about the rows of a table.         *)
(*                                                                         *)
(* For any attachments and any number of concurrent requests: a binding    *)
(* never moves, and a request binds all its attachments or none.           *)
(*                                                                         *)
(* For any number of rows and writers and any limits: a client that reads  *)
(* a list page by page is served each row that keeps its place once, and   *)
(* has seen them all when it reaches the end.                              *)
(***************************************************************************)
EXTENDS Attachments, KeysetLists, FiniteSetTheorems, WellFoundedInduction, TLAPS

(***************************************************************************)
(* Attachments.                                                            *)
(***************************************************************************)

\* A binding names a committed request of its column that asked for it.
BindingsAreCommitted ==
    \A k \in Columns, a \in Attachments, r \in Requests :
        boundTo[k][a] = r => pc[r] = "done" /\ kind[r] = k /\ a \in wanted[r]

\* A committed request still has every binding it asked for.
CommittedAreBound ==
    \A r \in Requests : pc[r] = "done" =>
        \A a \in wanted[r] : boundTo[kind[r]][a] = r

\* Rows updated and not committed belong to one open request, and nobody
\* has committed a binding of them in the same column.
OpenUpdates ==
    /\ \A r \in Requests : mine[r] # {} => pc[r] = "binding"
    /\ \A r \in Requests : mine[r] \subseteq wanted[r]
    /\ \A r \in Requests : \A a \in mine[r] : boundTo[kind[r]][a] = None
    /\ \A r, q \in Requests : r # q => mine[r] \cap mine[q] = {}

IInv == TypeOK /\ BindingsAreCommitted /\ CommittedAreBound /\ OpenUpdates

\* Init establishes the invariant.
LEMMA InitInv == Init => IInv
BY NoneAssumption
DEF Init, IInv, TypeOK, BindingsAreCommitted, CommittedAreBound, OpenUpdates,
    Columns

\* The invariant says which bindings a request has: all it asked for, or none.
LEMMA BoundMeansAll == IInv => AllOrNothing
<1> SUFFICES ASSUME IInv, NEW r \in Requests
             PROVE  {a \in Attachments : boundTo[kind[r]][a] = r} =
                       IF pc[r] = "done" THEN wanted[r] ELSE {}
  BY DEF AllOrNothing
<1> USE DEF IInv, TypeOK, BindingsAreCommitted, CommittedAreBound
<1>1. CASE pc[r] = "done"
  BY <1>1
<1>2. CASE pc[r] # "done"
  BY <1>2
<1> QED
  BY <1>1, <1>2

-----------------------------------------------------------------------------
\* A request that fails gives up its uncommitted updates.
LEMMA FailInv ==
    ASSUME IInv, NEW r \in Requests, pc[r] = "binding", Fail(r)
    PROVE  IInv'
<1> USE NoneAssumption DEF IInv, TypeOK, Fail
<1>1. TypeOK'
  OBVIOUS
<1>2. BindingsAreCommitted' /\ CommittedAreBound'
  BY DEF BindingsAreCommitted, CommittedAreBound
<1>3. OpenUpdates'
  BY DEF OpenUpdates
<1> QED
  BY <1>1, <1>2, <1>3

\* A request that starts has updated nothing.
LEMMA StartInv ==
    ASSUME IInv, NEW r \in Requests, NEW k \in Columns, NEW t \in Tickets,
           NEW ids \in SUBSET Attachments, Start(r, k, t, ids)
    PROVE  IInv'
<1> USE NoneAssumption DEF IInv, TypeOK, Start
<1>1. TypeOK'
  OBVIOUS
<1>2. BindingsAreCommitted' /\ CommittedAreBound'
  BY DEF BindingsAreCommitted, CommittedAreBound
<1>3. OpenUpdates'
  BY DEF OpenUpdates
<1> QED
  BY <1>1, <1>2, <1>3

\* A conditional UPDATE takes a row that nobody else has.
LEMMA BindInv ==
    ASSUME IInv, NEW r \in Requests, NEW a \in Attachments, Bind(r, a)
    PROVE  IInv'
<1> USE NoneAssumption DEF IInv, TypeOK, Bind
<1>1. TypeOK'
  OBVIOUS
<1>2. BindingsAreCommitted' /\ CommittedAreBound'
  BY DEF BindingsAreCommitted, CommittedAreBound
<1>3. OpenUpdates'
  BY DEF OpenUpdates, FreeFor, Bindable
<1> QED
  BY <1>1, <1>2, <1>3

\* What a COMMIT writes, column by column.
LEMMA CommitWrites ==
    ASSUME IInv, NEW r \in Requests, Commit(r),
           NEW k \in Columns, NEW a \in Attachments
    PROVE  boundTo'[k][a] =
              IF k = kind[r] /\ a \in mine[r] THEN r ELSE boundTo[k][a]
BY DEF IInv, TypeOK, Commit

\* A commit turns the rows a request updated into its bindings.
LEMMA CommitInv ==
    ASSUME IInv, NEW r \in Requests, Commit(r)
    PROVE  IInv'
<1> USE NoneAssumption DEF IInv, TypeOK
<1>1. TypeOK'
  BY DEF Commit
<1>2. BindingsAreCommitted'
  <2> SUFFICES ASSUME NEW k \in Columns, NEW a \in Attachments,
                      NEW q \in Requests, boundTo'[k][a] = q
               PROVE  pc'[q] = "done" /\ kind[q] = k /\ a \in wanted[q]
    BY DEF BindingsAreCommitted, Commit
  <2>1. CASE k = kind[r] /\ a \in mine[r]
    <3>1. q = r
      BY <2>1, CommitWrites
    <3> QED
      BY <2>1, <3>1 DEF Commit
  <2>2. CASE ~(k = kind[r] /\ a \in mine[r])
    <3>1. boundTo[k][a] = q
      BY <2>2, CommitWrites
    <3> QED
      BY <3>1 DEF BindingsAreCommitted, Commit
  <2> QED
    BY <2>1, <2>2
<1>3. CommittedAreBound'
  <2> SUFFICES ASSUME NEW q \in Requests, pc'[q] = "done", NEW a \in wanted[q]
               PROVE  boundTo'[kind[q]][a] = q
    BY DEF CommittedAreBound, Commit
  <2>1. CASE q = r
    BY <2>1, CommitWrites DEF Commit
  <2>2. CASE q # r
    <3>1. boundTo[kind[q]][a] = q
      BY <2>2 DEF CommittedAreBound, Commit
    <3>2. ~(kind[q] = kind[r] /\ a \in mine[r])
      BY <3>1 DEF OpenUpdates
    <3> QED
      BY <3>1, <3>2, CommitWrites
  <2> QED
    BY <2>1, <2>2
<1>4. OpenUpdates'
  <2>1. \A q \in Requests \ {r} : \A a \in mine[q] : a \notin mine[r]
    BY DEF OpenUpdates
  <2>2. \A q \in Requests \ {r} : \A a \in mine[q] : boundTo'[kind[q]][a] = None
    BY <2>1, CommitWrites DEF OpenUpdates
  <2> QED
    BY <2>2 DEF OpenUpdates, Commit
<1> QED
  BY <1>1, <1>2, <1>3, <1>4

\* Time and the purge touch no request and no binding.
LEMMA PurgeInv ==
    ASSUME IInv, PurgeFind \/ PurgeDelete \/ \E a \in Attachments : Age(a)
    PROVE  IInv'
<1> USE DEF IInv, PurgeFind, PurgeDelete, Age, reqVars
<1>1. TypeOK'
  BY DEF TypeOK
<1>2. BindingsAreCommitted' /\ CommittedAreBound' /\ OpenUpdates'
  BY DEF BindingsAreCommitted, CommittedAreBound, OpenUpdates
<1> QED
  BY <1>1, <1>2

\* Every step preserves the invariant.
LEMMA NextInv == IInv /\ [Next]_vars => IInv'
<1> SUFFICES ASSUME IInv, [Next]_vars
             PROVE  IInv'
  OBVIOUS
<1>1. CASE UNCHANGED vars
  BY <1>1 DEF IInv, TypeOK, BindingsAreCommitted, CommittedAreBound,
              OpenUpdates, vars, reqVars
<1>2. ASSUME NEW r \in Requests, Step(r)
      PROVE  IInv'
  <2>1. ASSUME NEW t \in Tickets, NEW ids \in SUBSET Attachments,
               CreateTicket(r, t, ids) \/ CreateReply(r, t, ids)
        PROVE  IInv'
    BY <2>1, StartInv DEF CreateTicket, CreateReply, Columns
  <2>2. ASSUME NEW a \in Attachments, BindLost(r, a)
        PROVE  IInv'
    BY <2>2, FailInv DEF BindLost
  <2>3. CASE Abort(r)
    BY <2>3, FailInv DEF Abort
  <2> QED
    BY <1>2, <2>1, <2>2, <2>3, BindInv, CommitInv DEF Step
<1> QED
  BY <1>1, <1>2, PurgeInv DEF Next

-----------------------------------------------------------------------------
\* The inductive invariant of the whole specification.
THEOREM Invariance == Spec => []IInv
BY InitInv, NextInv, PTL DEF Spec

\* Every state is well typed.
THEOREM TypeCorrect == Spec => []TypeOK
<1>1. IInv => TypeOK
  BY DEF IInv
<1> QED
  BY <1>1, Invariance, PTL

\* A request owns every attachment it named, or none.
THEOREM RequestsAreAtomic == Spec => []AllOrNothing
BY BoundMeansAll, Invariance, PTL

\* A committed binding is never moved or cleared.
THEOREM BindingsAreFinal == Spec => BoundOnce
<1> DEFINE Kept == \A k \in Columns, a \in Attachments :
                     boundTo[k][a] # None => boundTo'[k][a] = boundTo[k][a]
<1>1. ASSUME IInv, [Next]_vars
      PROVE  [Kept]_vars
  <2>1. CASE \E r \in Requests : Commit(r)
    <3>1. PICK r \in Requests : Commit(r)
      BY <2>1
    <3> QED
      BY <1>1, <3>1, CommitWrites DEF IInv, OpenUpdates
  <2>2. CASE ~\E r \in Requests : Commit(r)
    <3>1. UNCHANGED boundTo
      BY <1>1, <2>2
      DEF Next, Step, CreateTicket, CreateReply, Start, Bind, BindLost, Abort,
          Fail, Age, PurgeFind, PurgeDelete, vars
    <3> QED
      BY <3>1
  <2> QED
    BY <2>1, <2>2
<1> QED
  BY <1>1, Invariance, PTL DEF Spec, BoundOnce

(***************************************************************************)
(* Paged lists.                                                            *)
(***************************************************************************)

\* The table is finite, and its rows were written after time 0.
TableInv == IsFiniteSet(table) /\ \A i \in table : stamp[i] >= 1

\* A scan holds a cursor from its first page on, and nothing before it.
ScanInv ==
    /\ scan = "new" => cursor = NoCursor /\ touched = {} /\ times = [i \in Ids |-> 0]
    /\ scan = "open" => cursor # NoCursor
    /\ requestBegan > 0 => scan \in {"new", "open"}

\* Of the rows whose place stayed, those before the cursor are served, and
\* those behind it are yet to come.
PlaceInv ==
    scan = "open" => \A i \in Ids \ touched :
        /\ times[i] >= 1 => i \in table /\ ~AfterCursor(i)
        /\ i \in initial => InList(i) /\ (times[i] >= 1 \/ AfterCursor(i))

ListInv == ListTypeOK /\ TableInv /\ ScanInv /\ PlaceInv /\ NoRepeat /\ NoSkip

-----------------------------------------------------------------------------
(* The order of a list.                                                    *)

\* Row j comes before row i in the list.
Ahead(j, i) == Follows(EncodeCursor(j), EncodeCursor(i))

LEMMA Types ==
    ASSUME ListTypeOK
    PROVE  /\ now \in Nat /\ table \subseteq Ids
           /\ \A i \in Ids : i \in Nat /\ stamp[i] \in Nat /\ EncodeCursor(i) \in Nat \X Nat
           /\ cursor # NoCursor => cursor \in Nat \X Nat
<1>1. now \in Nat
  BY ListAssumption DEF ListTypeOK
<1>2. \A i \in Ids : i \in Nat /\ stamp[i] \in Nat
  BY <1>1, ListAssumption DEF ListTypeOK
<1>3. cursor # NoCursor => cursor \in Nat \X Nat
  <2> SUFFICES ASSUME cursor # NoCursor PROVE cursor \in Nat \X Nat
    OBVIOUS
  <2>1. PICK t \in 1 .. now, i \in Ids : cursor = <<t, i>>
    BY DEF ListTypeOK
  <2>2. t \in Nat /\ i \in Nat
    BY <1>1, ListAssumption
  <2> QED BY <2>1, <2>2
<1> QED
  BY <1>1, <1>2, <1>3 DEF ListTypeOK, EncodeCursor

LEMMA FollowsOrder ==
    \A c, d, e \in Nat \X Nat :
        /\ ~Follows(c, c)
        /\ c = d \/ Follows(c, d) \/ Follows(d, c)
        /\ Follows(c, d) => ~Follows(d, c)
        /\ Follows(c, d) /\ Follows(d, e) => Follows(c, e)
<1> SUFFICES ASSUME NEW c \in Nat \X Nat, NEW d \in Nat \X Nat, NEW e \in Nat \X Nat
             PROVE  /\ ~Follows(c, c)
                    /\ c = d \/ Follows(c, d) \/ Follows(d, c)
                    /\ Follows(c, d) => ~Follows(d, c)
                    /\ Follows(c, d) /\ Follows(d, e) => Follows(c, e)
  OBVIOUS
<1>1. /\ c[1] \in Nat /\ c[2] \in Nat /\ d[1] \in Nat /\ d[2] \in Nat /\ e[1] \in Nat /\ e[2] \in Nat
      /\ c[1] = d[1] /\ c[2] = d[2] => c = d
  OBVIOUS
<1> QED
  BY <1>1 DEF Follows

LEMMA RowOrder ==
    ASSUME ListTypeOK
    PROVE  \A i, j, k \in Ids :
             /\ ~Ahead(i, i)
             /\ i = j \/ Ahead(i, j) \/ Ahead(j, i)
             /\ Ahead(i, j) => ~Ahead(j, i)
             /\ Ahead(i, j) /\ Ahead(j, k) => Ahead(i, k)
<1>1. \A i, j \in Ids : EncodeCursor(i) = EncodeCursor(j) => i = j
  BY DEF EncodeCursor
<1> QED
  BY <1>1, Types, FollowsOrder DEF Ahead

\* More rows come before a row than before any row that comes before it.
LEMMA AheadGrows ==
    ASSUME ListTypeOK, NEW S, S \subseteq Ids, IsFiniteSet(S)
    PROVE  /\ \A i \in S : Cardinality({j \in S : Ahead(j, i)}) \in Nat
           /\ \A i \in S : Cardinality({j \in S : Ahead(j, i)}) < Cardinality(S)
           /\ \A i, k \in S : Ahead(k, i) =>
                Cardinality({j \in S : Ahead(j, k)}) < Cardinality({j \in S : Ahead(j, i)})
<1> DEFINE A(i) == {j \in S : Ahead(j, i)}
<1>1. \A i \in S : IsFiniteSet(A(i)) /\ Cardinality(A(i)) \in Nat
  BY FS_Subset, FS_CardinalityType
<1>2. ASSUME NEW i \in S PROVE Cardinality(A(i)) < Cardinality(S)
  <2>1. A(i) # S /\ A(i) \in SUBSET S
    BY RowOrder
  <2>2. Cardinality(A(i)) <= Cardinality(S) /\ Cardinality(S) # Cardinality(A(i))
    <3> HIDE DEF A
    <3> QED BY <2>1, FS_Subset
  <2> QED BY <1>1, <2>2, FS_CardinalityType
<1>3. ASSUME NEW i \in S, NEW k \in S, Ahead(k, i)
      PROVE  Cardinality(A(k)) < Cardinality(A(i))
  <2>1. A(k) # A(i) /\ A(k) \in SUBSET A(i)
    BY <1>3, RowOrder
  <2>2. Cardinality(A(k)) <= Cardinality(A(i)) /\ Cardinality(A(i)) # Cardinality(A(k))
    <3> HIDE DEF A
    <3> QED BY <1>1, <2>1, FS_Subset
  <2> QED BY <1>1, <2>2
<1> QED
  BY <1>1, <1>2, <1>3

\* A finite set of rows has a first and a last one.
LEMMA FirstAndLast ==
    ASSUME ListTypeOK, NEW S, S \subseteq Ids, IsFiniteSet(S), S # {}
    PROVE  /\ \E f \in S : \A j \in S : ~Ahead(j, f)
           /\ \E l \in S : LastOf(S, l)
<1> DEFINE C(i) == Cardinality({j \in S : Ahead(j, i)})
           B == Cardinality(S)
<1>1. /\ B \in Nat /\ \A i \in S : C(i) \in Nat /\ C(i) < B
      /\ \A i, k \in S : Ahead(k, i) => C(k) < C(i)
  BY AheadGrows, FS_CardinalityType
<1> HIDE DEF C, B
<1>2. \E f \in S : \A j \in S : ~Ahead(j, f)
  <2> DEFINE T == {C(i) : i \in S}
  <2>1. T \subseteq Nat /\ T # {}
    BY <1>1
  <2>2. PICK t \in T : \A u \in T : <<u, t>> \notin OpToRel(<, Nat)
    BY <2>1, NatLessThanWellFounded, WFMin
  <2>3. PICK f \in S : t = C(f)
    OBVIOUS
  <2>4. \A j \in S : ~(C(j) < C(f))
    BY <1>1, <2>2, <2>3 DEF OpToRel
  <2> QED BY <1>1, <2>4
<1>3. \E l \in S : LastOf(S, l)
  <2> DEFINE T == {B - C(i) : i \in S}
  <2>1. T \subseteq Nat /\ T # {}
    BY <1>1
  <2>2. PICK t \in T : \A u \in T : <<u, t>> \notin OpToRel(<, Nat)
    BY <2>1, NatLessThanWellFounded, WFMin
  <2>3. PICK l \in S : t = B - C(l)
    OBVIOUS
  <2>4. \A j \in S : ~(B - C(j) < B - C(l))
    BY <2>1, <2>2, <2>3 DEF OpToRel
  <2>5. \A j \in S : ~Ahead(l, j)
    BY <1>1, <2>4
  <2> QED BY <2>5 DEF LastOf, Ahead
<1> QED
  BY <1>2, <1>3

\* A page is a beginning of the rows it is taken from: all of them when they
\* are no more than the limit; otherwise it has a last row, and whatever is
\* not on the page comes after that one.
LEMMA PageFacts ==
    ASSUME ListTypeOK, NEW S, S \subseteq Ids, IsFiniteSet(S), NEW n \in Nat
    PROVE  /\ PageOf(S, n) \subseteq S
           /\ ~(Cardinality(S) > n) => PageOf(S, n) = S
           /\ Cardinality(S) > n /\ n # 0 => \E l \in PageOf(S, n) : LastOf(PageOf(S, n), l)
           /\ \A l \in PageOf(S, n), i \in S \ PageOf(S, n) : Ahead(l, i)
<1> DEFINE C(i) == Cardinality({j \in S : Ahead(j, i)})
<1>1. /\ \A i \in S : C(i) \in Nat /\ C(i) < Cardinality(S)
      /\ \A i, k \in S : Ahead(k, i) => C(k) < C(i)
      /\ Cardinality(S) \in Nat
  BY AheadGrows, FS_CardinalityType
<1>2. PageOf(S, n) = {i \in S : C(i) < n}
  BY DEF PageOf, Ahead
<1>3. ASSUME Cardinality(S) > n, n # 0
      PROVE  \E l \in PageOf(S, n) : LastOf(PageOf(S, n), l)
  <2>1. S # {}
    BY <1>3, FS_EmptySet
  <2>2. PICK f \in S : \A j \in S : ~Ahead(j, f)
    BY <2>1, FirstAndLast
  <2>3. C(f) = 0
    <3>1. {j \in S : Ahead(j, f)} = {}
      BY <2>2
    <3> QED BY <3>1, FS_EmptySet
  <2>4. f \in PageOf(S, n)
    <3> HIDE DEF C
    <3> QED BY <1>2, <1>3, <2>3
  <2>5. IsFiniteSet(PageOf(S, n)) /\ PageOf(S, n) \subseteq Ids
    <3>1. PageOf(S, n) \in SUBSET S
      BY <1>2
    <3> QED BY <3>1, FS_Subset
  <2> QED BY <2>4, <2>5, FirstAndLast
<1> HIDE DEF C
<1>4. ~(Cardinality(S) > n) => PageOf(S, n) = S
  BY <1>1, <1>2
<1>5. ASSUME NEW l \in PageOf(S, n), NEW i \in S \ PageOf(S, n) PROVE Ahead(l, i)
  <2>1. C(l) < n /\ ~(C(i) < n) /\ l \in S /\ i \in S
    BY <1>2
  <2>2. l # i /\ ~Ahead(i, l)
    BY <1>1, <2>1
  <2> QED BY <2>1, <2>2, RowOrder
<1> QED
  BY <1>2, <1>3, <1>4, <1>5

-----------------------------------------------------------------------------
(* A page is served.                                                       *)

LEMMA InListMeans ==
    /\ list \in Lists => \A i : InList(i) <=>
         /\ i \in table /\ matches[i]
         /\ list = "queue" => ~closed[i] /\ (filter = "none" => ~assigned[i])
    /\ list' \in Lists => \A i : InList(i)' <=>
         /\ i \in table' /\ matches'[i]
         /\ list' = "queue" => ~closed'[i] /\ (filter' = "none" => ~assigned'[i])
BY DEF Lists, InList, ListForRequester, ListForAgentQueue, ListForTicket, ListUsers, ListAuditLogs

\* The rows a page is taken from.
LEMMA CandidateFacts ==
    ASSUME ListInv, scan \in {"new", "open"}
    PROVE  /\ Candidates \subseteq table /\ Candidates \subseteq Ids /\ IsFiniteSet(Candidates)
           /\ \A i \in Candidates \ touched : times[i] = 0
           /\ scan = "open" => \A i \in Candidates : Follows(cursor, EncodeCursor(i))
           /\ scan = "new" => Candidates = {i \in Ids : InList(i)}
           /\ scan = "open" => \A i \in initial \ touched : times[i] >= 1 \/ i \in Candidates
<1> USE DEF ListInv
<1>1. Candidates \in SUBSET table /\ Candidates \subseteq Ids
  BY DEF Candidates, InList
<1>2. IsFiniteSet(Candidates)
  BY <1>1, FS_Subset DEF TableInv
<1>3. CASE scan = "new"
  <2>1. cursor = NoCursor /\ times = [i \in Ids |-> 0]
    BY <1>3 DEF ScanInv
  <2> QED BY <1>1, <1>2, <1>3, <2>1 DEF Candidates
<1>4. CASE scan = "open"
  <2>1. cursor # NoCursor /\ initial \subseteq Ids /\ \A i \in Ids : times[i] \in 0 .. 2
    BY <1>4 DEF ScanInv, ListTypeOK
  <2>2. \A i \in Candidates : AfterCursor(i)
    BY <2>1 DEF Candidates
  <2>3. \A i \in Candidates \ touched : ~(times[i] >= 1) /\ times[i] \in 0 .. 2
    BY <1>1, <1>4, <2>1, <2>2 DEF PlaceInv
  <2>4. \A i \in Candidates \ touched : times[i] = 0
    BY <2>3
  <2>5. \A i \in initial \ touched : times[i] >= 1 \/ i \in Candidates
    BY <1>4, <2>1 DEF PlaceInv, Candidates
  <2> QED BY <1>1, <1>2, <1>4, <2>2, <2>4, <2>5 DEF AfterCursor
<1> QED
  BY <1>3, <1>4

\* What a page leaves, in the three ways it can end.
LEMMA PageEnds ==
    ASSUME ListInv, scan \in {"new", "open"}, NEW n \in Nat, Page(n)
    PROVE  /\ initial' = IF scan = "new" THEN {i \in Ids : InList(i)} ELSE initial
           /\ \/ scan' = "failed" /\ cursor' = cursor /\ times' = times
              \/ /\ scan' = "done" /\ cursor' = cursor
                 /\ times' = [i \in Ids |-> IF i \in Candidates /\ times[i] < 2
                                            THEN times[i] + 1 ELSE times[i]]
              \/ /\ scan' = "open"
                 /\ \E P \in SUBSET Candidates : \E l \in P :
                      /\ cursor' = EncodeCursor(l)
                      /\ times' = [i \in Ids |-> IF i \in P /\ times[i] < 2
                                                 THEN times[i] + 1 ELSE times[i]]
                      /\ \A i \in P : ~Ahead(l, i)
                      /\ \A i \in Candidates \ P : Ahead(l, i)
<1>1. Candidates \subseteq Ids /\ IsFiniteSet(Candidates) /\ ListTypeOK
  BY CandidateFacts DEF ListInv
<1>2. PICK P : P = PageOf(Candidates, n)
  OBVIOUS
<1> DEFINE more == Cardinality(Candidates) > n
<1>3. /\ initial' = IF scan = "new" THEN {i \in Ids : InList(i)} ELSE initial
      /\ IF more /\ n = 0
         THEN scan' = "failed" /\ cursor' = cursor /\ times' = times
         ELSE /\ scan' = IF more THEN "open" ELSE "done"
              /\ cursor' = IF more THEN EncodeCursor(CHOOSE i \in P : LastOf(P, i)) ELSE cursor
              /\ times' = [i \in Ids |-> IF i \in P /\ times[i] < 2
                                         THEN times[i] + 1 ELSE times[i]]
  BY <1>2 DEF Page
<1>4. /\ P \subseteq Candidates /\ (~more => P = Candidates)
      /\ more /\ n # 0 => \E l \in P : LastOf(P, l)
      /\ \A l \in P, i \in Candidates \ P : Ahead(l, i)
  BY <1>1, <1>2, PageFacts
<1> HIDE DEF more
<1>5. CASE more /\ n # 0
  <2>1. PICK l \in P : l = CHOOSE i \in P : LastOf(P, i)
    BY <1>4, <1>5
  <2>2. LastOf(P, l)
    BY <1>4, <1>5, <2>1
  <2>3. \A i \in P : ~Ahead(l, i)
    BY <2>2 DEF LastOf, Ahead
  <2>4. \A i \in Candidates \ P : Ahead(l, i)
    BY <1>4
  <2>5. scan' = "open" /\ cursor' = EncodeCursor(l)
    BY <1>3, <1>5, <2>1
  <2>6. times' = [i \in Ids |-> IF i \in P /\ times[i] < 2 THEN times[i] + 1 ELSE times[i]]
    BY <1>3, <1>5
  <2>7. P \in SUBSET Candidates
    BY <1>4
  <2> QED BY <1>3, <2>3, <2>4, <2>5, <2>6, <2>7
<1>6. CASE more /\ n = 0
  BY <1>3, <1>6
<1>7. CASE ~more
  BY <1>3, <1>4, <1>7
<1> QED
  BY <1>5, <1>6, <1>7

LEMMA PageTypes ==
    ASSUME ListInv, scan \in {"new", "open"}, NEW n \in Nat, Page(n)
    PROVE  /\ initial' \subseteq Ids /\ scan' \in {"open", "done", "failed"}
           /\ cursor' \in (1 .. now) \X Ids \cup {NoCursor} /\ times' \in [Ids -> 0 .. 2]
<1>1. ListTypeOK /\ times \in [Ids -> 0 .. 2]
  BY DEF ListInv, ListTypeOK
<1>2. \A i \in Ids : times[i] \in 0 .. 2 /\ (times[i] < 2 => times[i] + 1 \in 0 .. 2)
  BY <1>1
<1>3. \A P : [i \in Ids |-> IF i \in P /\ times[i] < 2 THEN times[i] + 1 ELSE times[i]]
                \in [Ids -> 0 .. 2]
  BY <1>2
<1>4. \A l \in Candidates : EncodeCursor(l) \in (1 .. now) \X Ids
  <2> SUFFICES ASSUME NEW l \in Candidates PROVE EncodeCursor(l) \in (1 .. now) \X Ids
    OBVIOUS
  <2>1. l \in Ids /\ l \in table /\ stamp[l] \in 0 .. now /\ stamp[l] >= 1
    BY CandidateFacts, <1>1 DEF ListTypeOK, ListInv, TableInv
  <2>2. stamp[l] \in 1 .. now
    BY <2>1, <1>1, Types
  <2> QED BY <2>1, <2>2 DEF EncodeCursor
<1>5. initial' \subseteq Ids
  BY PageEnds, <1>1 DEF ListTypeOK
<1>6. scan' \in {"open", "done", "failed"}
  BY PageEnds
<1>7. cursor' \in (1 .. now) \X Ids \cup {NoCursor}
  BY PageEnds, <1>1, <1>4 DEF ListTypeOK
<1>8. times' \in [Ids -> 0 .. 2]
  BY PageEnds, <1>1, <1>3
<1> QED
  BY <1>5, <1>6, <1>7, <1>8

\* A page serves rows for the first time, and no row falls between two.
LEMMA PageStep ==
    ASSUME ListInv, scan \in {"new", "open"}, NEW n \in Nat, Page(n), requestBegan' = 0,
           UNCHANGED <<list, filter, matches, closed, assigned, touched>>,
           table \subseteq table', \A i \in table : stamp'[i] = stamp[i]
    PROVE  ScanInv' /\ PlaceInv' /\ NoRepeat' /\ NoSkip'
<1> USE DEF ListInv
<1>1. /\ Candidates \subseteq table /\ Candidates \subseteq Ids
      /\ \A i \in Candidates \ touched : times[i] = 0
      /\ scan = "open" => \A i \in Candidates : Follows(cursor, EncodeCursor(i))
  BY CandidateFacts
<1>2. \A i \in initial' : i \notin touched =>
         i \in Ids /\ InList(i) /\ (times[i] >= 1 \/ i \in Candidates)
  <2>1. initial' = IF scan = "new" THEN {i \in Ids : InList(i)} ELSE initial
    BY PageEnds
  <2>2. CASE scan = "new"
    BY <2>1, <2>2, CandidateFacts
  <2>3. CASE scan = "open"
    BY <2>1, <2>3, CandidateFacts DEF PlaceInv, ListTypeOK
  <2> QED BY <2>2, <2>3
<1>3. \A i \in Ids : times[i] \in 0 .. 2
  BY DEF ListTypeOK
<1>4. CASE scan' = "failed" /\ cursor' = cursor /\ times' = times
  BY <1>4 DEF ScanInv, PlaceInv, NoRepeat, NoSkip
<1>5. ASSUME NEW P \in SUBSET Candidates,
             times' = [i \in Ids |-> IF i \in P /\ times[i] < 2 THEN times[i] + 1 ELSE times[i]]
      PROVE  /\ \A i \in P : times'[i] >= 1
             /\ \A i \in Ids \ P : times'[i] = times[i]
             /\ NoRepeat'
  <2>1. \A i \in P : times'[i] >= 1
    BY <1>1, <1>3, <1>5
  <2>2. \A i \in Ids \ P : times'[i] = times[i]
    BY <1>5
  <2>3. \A i \in P \ touched : times'[i] <= 1
    BY <1>1, <1>5
  <2>4. NoRepeat'
    BY <2>2, <2>3 DEF NoRepeat
  <2> QED BY <2>1, <2>2, <2>4
<1>6. ASSUME scan' = "done",
             times' = [i \in Ids |-> IF i \in Candidates /\ times[i] < 2
                                     THEN times[i] + 1 ELSE times[i]]
      PROVE  ScanInv' /\ PlaceInv' /\ NoRepeat' /\ NoSkip'
  <2>1. \A i \in initial' : i \notin touched => times'[i] >= 1
    BY <1>2, <1>5, <1>6
  <2>2. NoSkip'
    BY <2>1 DEF NoSkip
  <2> QED BY <1>5, <1>6, <2>2 DEF ScanInv, PlaceInv
<1>7. ASSUME NEW P \in SUBSET Candidates, NEW l \in P, scan' = "open",
             cursor' = EncodeCursor(l),
             times' = [i \in Ids |-> IF i \in P /\ times[i] < 2 THEN times[i] + 1 ELSE times[i]],
             \A i \in P : ~Ahead(l, i),
             \A i \in Candidates \ P : Ahead(l, i)
      PROVE  ScanInv' /\ PlaceInv' /\ NoRepeat' /\ NoSkip'
  <2>1. /\ \A i \in P : times'[i] >= 1
        /\ \A i \in Ids \ P : times'[i] = times[i]
        /\ NoRepeat'
    BY <1>5, <1>7
  <2>2. l \in Ids /\ l \in Candidates /\ EncodeCursor(l) # NoCursor
    BY <1>1, Types, ListAssumption
  <2>3. \A i \in table : AfterCursor(i)' <=> Ahead(l, i)
    BY <1>7 DEF AfterCursor, Ahead, Follows, EncodeCursor
  <2>4. ASSUME NEW i \in Ids, i \notin touched, times'[i] >= 1
        PROVE  i \in table /\ ~Ahead(l, i)
    <3>1. CASE i \in P
      BY <1>1, <1>7, <3>1
    <3>2. CASE i \notin P
      <4>1. times[i] >= 1
        BY <2>1, <2>4, <3>2
      <4>2. scan = "open"
        BY <4>1 DEF ScanInv
      <4>3. i \in table /\ ~Follows(cursor, EncodeCursor(i)) /\ cursor # NoCursor
        BY <2>4, <4>1, <4>2 DEF PlaceInv, AfterCursor, ScanInv
      <4>4. Follows(cursor, EncodeCursor(l))
        BY <1>1, <2>2, <4>2
      <4>5. /\ cursor \in Nat \X Nat /\ EncodeCursor(l) \in Nat \X Nat
            /\ EncodeCursor(i) \in Nat \X Nat
        BY <2>2, <4>3, Types
      <4> QED BY <4>3, <4>4, <4>5, FollowsOrder DEF Ahead
    <3> QED BY <3>1, <3>2
  <2>5. ASSUME NEW i \in Ids, i \notin touched, i \in initial'
        PROVE  InList(i)' /\ (times'[i] >= 1 \/ AfterCursor(i)')
    <3>1. InList(i) /\ (times[i] >= 1 \/ i \in Candidates) /\ i \in table
      BY <1>2, <2>5 DEF InList
    <3>2. InList(i)'
      BY <3>1, InListMeans DEF ListTypeOK
    <3>3. times'[i] >= 1 \/ Ahead(l, i)
      BY <1>7, <2>1, <3>1
    <3> QED BY <2>3, <3>1, <3>2, <3>3
  <2>6. PlaceInv'
    BY <2>3, <2>4, <2>5 DEF PlaceInv
  <2>7. ScanInv' /\ NoSkip'
    BY <1>7, <2>2 DEF ScanInv, NoSkip
  <2> QED BY <2>1, <2>6, <2>7
<1> QED
  BY <1>4, <1>6, <1>7, PageEnds

-----------------------------------------------------------------------------
(* Steps that serve no page.                                               *)

\* Writers: rows whose place they change they touch.
LEMMA WriteStep ==
    ASSUME ListInv, scan \in {"new", "open"},
           UNCHANGED <<list, filter, requestBegan, cursor, scan, times, initial>>,
           touched \subseteq touched', scan = "new" => touched' = touched,
           scan = "open" => \A i \in Ids \ touched' :
               /\ i \in table => i \in table' /\ stamp'[i] = stamp[i]
               /\ InList(i) => InList(i)'
    PROVE  ScanInv' /\ PlaceInv' /\ NoRepeat' /\ NoSkip'
<1> USE DEF ListInv
<1>1. ScanInv'
  BY DEF ScanInv
<1>2. PlaceInv'
  <2> SUFFICES ASSUME scan = "open", NEW i \in Ids \ touched'
               PROVE  /\ times[i] >= 1 => i \in table' /\ ~AfterCursor(i)'
                      /\ i \in initial => InList(i)' /\ (times[i] >= 1 \/ AfterCursor(i)')
    BY DEF PlaceInv
  <2>1. /\ times[i] >= 1 => i \in table /\ ~AfterCursor(i)
        /\ i \in initial => InList(i) /\ i \in table /\ (times[i] >= 1 \/ AfterCursor(i))
    BY DEF PlaceInv, InList
  <2>2. i \in table => (AfterCursor(i)' <=> AfterCursor(i))
    BY DEF AfterCursor, Follows, EncodeCursor
  <2> QED BY <2>1, <2>2
<1>3. NoRepeat'
  BY DEF NoRepeat
<1>4. NoSkip'
  BY DEF NoSkip
<1> QED
  BY <1>1, <1>2, <1>3, <1>4

\* Nothing the client sees is written.
LEMMA IdleStep ==
    ASSUME ListInv, UNCHANGED <<list, filter, table, stampVars, ticketVars, scanVars, touched>>,
           requestBegan' > 0 => scan \in {"new", "open"}
    PROVE  TableInv' /\ ScanInv' /\ PlaceInv' /\ NoRepeat' /\ NoSkip'
<1> USE DEF ListInv, stampVars, ticketVars, scanVars
<1>1. TableInv' /\ ScanInv'
  BY DEF TableInv, ScanInv
<1>2. \A i : (InList(i)' <=> InList(i)) /\ (AfterCursor(i)' <=> AfterCursor(i))
  BY DEF InList, ListForRequester, ListForAgentQueue, ListForTicket, ListUsers, ListAuditLogs,
         AfterCursor, Follows, EncodeCursor
<1>3. PlaceInv'
  BY <1>2 DEF PlaceInv
<1>4. NoRepeat' /\ NoSkip'
  BY DEF NoRepeat, NoSkip
<1> QED
  BY <1>1, <1>3, <1>4

-----------------------------------------------------------------------------
(* The actions.                                                            *)

LEMMA ListInitInv == ListInit => ListInv
<1> SUFFICES ASSUME ListInit PROVE ListInv
  OBVIOUS
<1>1. ListTypeOK
  <2>1. now \in 1 .. MaxTime /\ 0 \in 0 .. now /\ 0 \in 0 .. 2
    BY ListAssumption DEF ListInit
  <2>2. /\ matches \in [Ids -> BOOLEAN] /\ closed \in [Ids -> BOOLEAN]
        /\ assigned \in [Ids -> BOOLEAN]
    BY DEF ListInit
  <2>3. stamp \in [Ids -> 0 .. now] /\ began \in [Writers -> 0 .. now] /\ times \in [Ids -> 0 .. 2]
    BY <2>1 DEF ListInit
  <2> QED BY <2>1, <2>2, <2>3 DEF ListInit, ListTypeOK
<1>2. TableInv
  BY FS_EmptySet DEF ListInit, TableInv
<1>3. ScanInv /\ PlaceInv /\ NoRepeat /\ NoSkip
  BY DEF ListInit, ScanInv, PlaceInv, NoRepeat, NoSkip
<1> QED
  BY <1>1, <1>2, <1>3 DEF ListInv

LEMMA BeginRequestStep == ASSUME ListInv, BeginRequest PROVE ListInv'
<1>1. ListTypeOK'
  BY Types DEF ListInv, BeginRequest, ListTypeOK, stampVars, ticketVars, scanVars
<1>2. TableInv' /\ ScanInv' /\ PlaceInv' /\ NoRepeat' /\ NoSkip'
  BY IdleStep DEF BeginRequest
<1> QED
  BY <1>1, <1>2 DEF ListInv

LEMMA RefuseStep == ASSUME ListInv, Refuse PROVE ListInv'
<1>1. ListTypeOK'
  BY Types DEF ListInv, Refuse, ListTypeOK, stampVars, ticketVars, scanVars
<1>2. TableInv' /\ ScanInv' /\ PlaceInv' /\ NoRepeat' /\ NoSkip'
  BY IdleStep DEF Refuse
<1> QED
  BY <1>1, <1>2 DEF ListInv

\* A page of a list whose requests write nothing.
LEMMA ReadStep ==
    ASSUME ListInv, scan \in {"new", "open"}, NEW n \in Nat, Page(n), requestBegan' = 0, ReadOnly
    PROVE  ListInv'
<1> USE DEF ListInv, ReadOnly, stampVars, ticketVars
<1>1. ListTypeOK'
  <2>1. 0 \in 0 .. now
    BY Types
  <2> QED BY <2>1, PageTypes DEF ListTypeOK
<1>2. TableInv'
  BY DEF TableInv
<1>3. ScanInv' /\ PlaceInv' /\ NoRepeat' /\ NoSkip'
  BY PageStep
<1> QED
  BY <1>1, <1>2, <1>3

LEMMA ListOwnTicketsStep == ASSUME ListInv, NEW n \in Nat, ListOwnTickets(n) PROVE ListInv'
<1>1. CASE Refuse
  BY <1>1, RefuseStep
<1>2. CASE Page(n) /\ ~Refuse
  BY <1>2, ReadStep DEF ListOwnTickets
<1>3. ASSUME filter = "status", scan' = "done", requestBegan' = 0, ReadOnly,
             UNCHANGED <<cursor, times, initial>>
      PROVE  ListInv'
  <2> USE <1>3 DEF ListInv, ReadOnly, stampVars, ticketVars
  <2>1. ListTypeOK'
    BY Types DEF ListTypeOK
  <2>2. TableInv' /\ ScanInv' /\ PlaceInv' /\ NoRepeat' /\ NoSkip'
    BY DEF TableInv, ScanInv, PlaceInv, NoRepeat, NoSkip
  <2> QED BY <2>1, <2>2
<1> QED
  BY <1>1, <1>2, <1>3 DEF ListOwnTickets

LEMMA ListPagesStep ==
    ASSUME ListInv, NEW n \in Nat, ListAgentQueue(n) \/ GetTicketDetail(n) \/ ListUsersPage(n)
    PROVE  ListInv'
<1>1. Refuse \/ (scan \in {"new", "open"} /\ requestBegan' = 0 /\ ReadOnly /\ Page(n))
  BY DEF ListAgentQueue, GetTicketDetail, ListUsersPage
<1> QED
  BY <1>1, RefuseStep, ReadStep

\* The audit log's page, and the row the request adds to it.
LEMMA ListAuditLogsStep ==
    ASSUME ListInv, NEW n \in Nat, NEW j \in RequestIds, ListAuditLogsPage(n, j)
    PROVE  ListInv'
<1> USE DEF ListInv
<1>1. CASE Refuse
  BY <1>1, RefuseStep
<1>2. CASE ~Refuse
  <2>1. /\ Page(n) /\ requestBegan > 0 /\ requestBegan' = 0
        /\ UNCHANGED <<list, filter, now, matches, closed, assigned, began, touched>>
        /\ \/ UNCHANGED <<table, stamp>>
           \/ /\ j \notin table /\ table' = table \cup {j}
              /\ stamp' = [stamp EXCEPT ![j] = requestBegan]
    BY <1>2 DEF ListAuditLogsPage, ticketVars
  <2>2. scan \in {"new", "open"} /\ j \in Ids /\ requestBegan \in 0 .. now /\ 0 \in 0 .. now
    BY <2>1, ListAssumption, Types DEF ScanInv, ListTypeOK
  <2>3. /\ table \subseteq table' /\ table' \subseteq Ids
        /\ \A i \in table : stamp'[i] = stamp[i]
        /\ stamp' \in [Ids -> 0 .. now]
    BY <2>1, <2>2 DEF ListTypeOK
  <2>4. ListTypeOK'
    BY <2>1, <2>2, <2>3, PageTypes DEF ListTypeOK
  <2>5. TableInv'
    <3>1. CASE UNCHANGED <<table, stamp>>
      BY <3>1 DEF TableInv
    <3>2. CASE j \notin table /\ table' = table \cup {j} /\ stamp' = [stamp EXCEPT ![j] = requestBegan]
      <4>1. IsFiniteSet(table')
        BY <3>2, FS_AddElement DEF TableInv
      <4>2. stamp'[j] = requestBegan /\ requestBegan >= 1
        BY <2>1, <2>2, <3>2 DEF ListTypeOK
      <4> QED BY <2>3, <3>2, <4>1, <4>2 DEF TableInv
    <3> QED BY <2>1, <3>1, <3>2
  <2>6. ScanInv' /\ PlaceInv' /\ NoRepeat' /\ NoSkip'
    BY <2>1, <2>2, <2>3, PageStep
  <2> QED BY <2>4, <2>5, <2>6
<1> QED
  BY <1>1, <1>2

\* A transaction that ends writes with the time it began.
LEMMA Ending ==
    ASSUME ListInv, NEW w \in Writers, Committed(w)
    PROVE  /\ scan \in {"new", "open"} /\ began[w] \in 0 .. now /\ began[w] >= 1
           /\ began' \in [Writers -> 0 .. now]
           /\ UNCHANGED <<list, filter, now, requestBegan, cursor, scan, times, initial>>
<1>1. began[w] \in 0 .. now /\ began[w] > 0 /\ 0 \in 0 .. now /\ now \in Nat
  BY Types DEF ListInv, ListTypeOK, Committed
<1>2. began' \in [Writers -> 0 .. now]
  BY <1>1 DEF Committed, ListInv, ListTypeOK
<1> QED
  BY <1>1, <1>2 DEF Committed, Scanning, scanVars

LEMMA CreateStep ==
    ASSUME ListInv, NEW w \in Writers, NEW i \in Ids, NEW fits \in BOOLEAN, Create(w, i, fits)
    PROVE  ListInv'
<1> USE DEF ListInv
<1>1. /\ scan \in {"new", "open"} /\ began[w] \in 0 .. now /\ began[w] >= 1
      /\ began' \in [Writers -> 0 .. now]
      /\ UNCHANGED <<list, filter, now, requestBegan, cursor, scan, times, initial>>
  BY Ending DEF Create
<1>2. /\ i \notin table /\ table' = table \cup {i} /\ stamp' = [stamp EXCEPT ![i] = began[w]]
      /\ matches' = [matches EXCEPT ![i] = fits] /\ UNCHANGED <<closed, assigned, touched>>
  BY DEF Create, ticketVars
<1>3. ListTypeOK'
  BY <1>1, <1>2 DEF ListTypeOK
<1>4. \A k \in table : k # i /\ k \in table' /\ stamp'[k] = stamp[k] /\ matches'[k] = matches[k]
  BY <1>2 DEF ListTypeOK
<1>5. TableInv'
  <2>1. IsFiniteSet(table')
    BY <1>2, FS_AddElement DEF TableInv
  <2>2. stamp'[i] >= 1
    BY <1>1, <1>2 DEF ListTypeOK
  <2> QED BY <1>2, <1>4, <2>1, <2>2 DEF TableInv
<1>6. \A k \in Ids : InList(k) => InList(k)'
  BY <1>1, <1>2, <1>4, InListMeans DEF ListTypeOK
<1>7. ScanInv' /\ PlaceInv' /\ NoRepeat' /\ NoSkip'
  BY <1>1, <1>2, <1>4, <1>6, WriteStep
<1> QED
  BY <1>3, <1>5, <1>7

LEMMA UpdateTicketStep ==
    ASSUME ListInv, NEW w \in Writers, NEW i \in Ids, NEW b \in BOOLEAN, UpdateTicket(w, i, b)
    PROVE  ListInv'
<1> USE DEF ListInv
<1>1. /\ scan \in {"new", "open"} /\ began[w] \in 0 .. now /\ began[w] >= 1
      /\ began' \in [Writers -> 0 .. now]
      /\ UNCHANGED <<list, filter, now, requestBegan, cursor, scan, times, initial>>
  BY Ending DEF UpdateTicket
<1>2. /\ i \in table /\ stamp' = [stamp EXCEPT ![i] = began[w]]
      /\ closed' = [closed EXCEPT ![i] = b] /\ UNCHANGED <<table, matches, assigned>>
      /\ touched' = IF scan = "new" THEN touched ELSE touched \cup {i}
  BY DEF UpdateTicket, Touch
<1>3. ListTypeOK'
  BY <1>1, <1>2 DEF ListTypeOK
<1>4. \A k \in Ids : k # i => stamp'[k] = stamp[k] /\ closed'[k] = closed[k]
  BY <1>2 DEF ListTypeOK
<1>5. TableInv'
  <2>1. stamp'[i] >= 1
    BY <1>1, <1>2 DEF ListTypeOK
  <2> QED BY <1>2, <1>4, <2>1, Types DEF TableInv
<1>6. \A k \in Ids \ {i} : InList(k) => InList(k)'
  BY <1>1, <1>2, <1>4, InListMeans DEF ListTypeOK
<1>7. ScanInv' /\ PlaceInv' /\ NoRepeat' /\ NoSkip'
  BY <1>1, <1>2, <1>4, <1>6, WriteStep
<1> QED
  BY <1>3, <1>5, <1>7

LEMMA AssignTicketStep ==
    ASSUME ListInv, NEW w \in Writers, NEW i \in Ids, NEW to \in BOOLEAN, AssignTicket(w, i, to)
    PROVE  ListInv'
<1> USE DEF ListInv
<1>1. /\ scan \in {"new", "open"} /\ began' \in [Writers -> 0 .. now]
      /\ UNCHANGED <<list, filter, now, requestBegan, cursor, scan, times, initial>>
  BY Ending DEF AssignTicket
<1>2. /\ assigned' = [assigned EXCEPT ![i] = to] /\ UNCHANGED <<table, stamp, matches, closed>>
      /\ touched' = IF filter = "none" /\ to /\ scan # "new" THEN touched \cup {i} ELSE touched
  BY <1>1 DEF AssignTicket, Touch, stampVars
<1>3. ListTypeOK'
  BY <1>1, <1>2 DEF ListTypeOK
<1>4. /\ assigned'[i] = to
      /\ \A k \in Ids : k # i => assigned'[k] = assigned[k]
  BY <1>2 DEF ListTypeOK
<1>5. TableInv'
  BY <1>2 DEF TableInv
<1>6. \A k \in Ids : k # i \/ ~(filter = "none" /\ to) => (InList(k) => InList(k)')
  BY <1>1, <1>2, <1>4, InListMeans DEF ListTypeOK
<1>7. ScanInv' /\ PlaceInv' /\ NoRepeat' /\ NoSkip'
  BY <1>1, <1>2, <1>6, WriteStep
<1> QED
  BY <1>3, <1>5, <1>7

LEMMA ChangeUserStep ==
    ASSUME ListInv, NEW w \in Writers, NEW i \in Ids, NEW fits \in BOOLEAN, ChangeUser(w, i, fits)
    PROVE  ListInv'
<1> USE DEF ListInv
<1>1. /\ scan \in {"new", "open"} /\ began' \in [Writers -> 0 .. now]
      /\ UNCHANGED <<list, filter, now, requestBegan, cursor, scan, times, initial>>
  BY Ending DEF ChangeUser
<1>2. /\ matches' = [matches EXCEPT ![i] = fits] /\ UNCHANGED <<table, stamp, closed, assigned>>
      /\ touched' = IF ~fits /\ scan # "new" THEN touched \cup {i} ELSE touched
  BY <1>1 DEF ChangeUser, Touch, ticketVars
<1>3. ListTypeOK'
  BY <1>1, <1>2 DEF ListTypeOK
<1>4. matches'[i] = fits /\ \A k \in Ids : k # i => matches'[k] = matches[k]
  BY <1>2 DEF ListTypeOK
<1>5. TableInv'
  BY <1>2 DEF TableInv
<1>6. \A k \in Ids : k # i \/ fits => (InList(k) => InList(k)')
  BY <1>1, <1>2, <1>4, InListMeans DEF ListTypeOK
<1>7. ScanInv' /\ PlaceInv' /\ NoRepeat' /\ NoSkip'
  BY <1>1, <1>2, <1>6, WriteStep
<1> QED
  BY <1>3, <1>5, <1>7

LEMMA DeleteUserStep ==
    ASSUME ListInv, NEW w \in Writers, NEW i \in Ids, DeleteUser(w, i)
    PROVE  ListInv'
<1> USE DEF ListInv
<1>1. /\ scan \in {"new", "open"} /\ began' \in [Writers -> 0 .. now]
      /\ UNCHANGED <<list, filter, now, requestBegan, cursor, scan, times, initial>>
  BY Ending DEF DeleteUser
<1>2. /\ table' = table \ {i} /\ UNCHANGED <<stamp, matches, closed, assigned>>
      /\ touched' = IF scan = "new" THEN touched ELSE touched \cup {i}
  BY DEF DeleteUser, Touch, stampVars, ticketVars
<1>3. ListTypeOK'
  BY <1>1, <1>2 DEF ListTypeOK
<1>4. TableInv'
  BY <1>2, FS_RemoveElement DEF TableInv
<1>5. \A k \in Ids \ {i} : InList(k) => InList(k)'
  BY <1>1, <1>2, InListMeans DEF ListTypeOK
<1>6. ScanInv' /\ PlaceInv' /\ NoRepeat' /\ NoSkip'
  BY <1>1, <1>2, <1>5, WriteStep
<1> QED
  BY <1>3, <1>4, <1>6

\* Transactions that begin or roll back, the clock, and stuttering.
LEMMA QuietStep ==
    ASSUME ListInv,
           Tick \/ UNCHANGED listVars \/ (\E w \in Writers : Begin(w) \/ Rollback(w))
    PROVE  ListInv'
<1> USE DEF ListInv
<1>1. /\ UNCHANGED <<list, filter, table, stampVars, ticketVars, requestBegan, scanVars, touched>>
      /\ now' \in 1 .. MaxTime /\ now' \in Nat /\ now <= now' /\ now \in Nat
  BY Types, ListAssumption
  DEF Tick, listVars, Begin, Rollback, Committed, ListTypeOK
<1>2. 0 .. now \subseteq 0 .. now' /\ 1 .. now \subseteq 1 .. now'
  BY <1>1
<1>3. began' \in [Writers -> 0 .. now']
  BY <1>1, <1>2, Ending, Types DEF Tick, listVars, Begin, Rollback, ListTypeOK
<1>4. (1 .. now) \X Ids \subseteq (1 .. now') \X Ids
  BY <1>2
<1>5. ListTypeOK'
  BY <1>1, <1>2, <1>3, <1>4 DEF ListTypeOK, stampVars, ticketVars, scanVars
<1>6. TableInv' /\ ScanInv' /\ PlaceInv' /\ NoRepeat' /\ NoSkip'
  BY <1>1, IdleStep DEF ScanInv
<1> QED
  BY <1>5, <1>6

LEMMA ListNextInv == ListInv /\ [ListNext]_listVars => ListInv'
<1> SUFFICES ASSUME ListInv, [ListNext]_listVars PROVE ListInv'
  OBVIOUS
<1>1. ASSUME Read PROVE ListInv'
  BY <1>1, ListAssumption, ListOwnTicketsStep, ListPagesStep, ListAuditLogsStep DEF Read
<1>2. ASSUME NEW w \in Writers, Write(w) PROVE ListInv'
  BY <1>2, CreateStep, UpdateTicketStep, AssignTicketStep, ChangeUserStep, DeleteUserStep,
     QuietStep DEF Write
<1>3. ASSUME RefuseCursor PROVE ListInv'
  BY <1>3, RefuseStep DEF RefuseCursor
<1> QED
  BY <1>1, <1>2, <1>3, BeginRequestStep, QuietStep DEF ListNext

-----------------------------------------------------------------------------
\* Rows that kept their place are served before the cursor and come after it.
THEOREM ListInvariance == ListSpec => []ListInv
BY ListInitInv, ListNextInv, PTL DEF ListSpec

\* Every variable keeps its type.
THEOREM ListTypeCorrect == ListSpec => []ListTypeOK
<1>1. ListInv => ListTypeOK
  BY DEF ListInv
<1> QED
  BY <1>1, ListInvariance, PTL

\* Whatever is written between two pages, no row whose place was left alone
\* is served twice.
THEOREM RowsAreServedOnce == ListSpec => []NoRepeat
<1>1. ListInv => NoRepeat
  BY DEF ListInv
<1> QED
  BY <1>1, ListInvariance, PTL

\* A client that pages to the end has seen every row that was there from the
\* beginning and kept its place.
THEOREM RowsAreNotSkipped == ListSpec => []NoSkip
<1>1. ListInv => NoSkip
  BY DEF ListInv
<1> QED
  BY <1>1, ListInvariance, PTL

=============================================================================
