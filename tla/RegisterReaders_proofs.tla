------------------------ MODULE RegisterReaders_proofs ------------------------
(***************************************************************************)
(* Theorems about the case officers' searches and exports, for any         *)
(* references, criteria, page size and limit, while the register changes.  *)
(***************************************************************************)
EXTENDS JourneyMetrics_proofs, SequenceTheorems

LEMMA SearchConstants ==
  /\ Malformed \notin Criteria \cup References
  /\ Criteria \cap References = {}
  /\ PageSize \in Nat \ {0}
  /\ MaxRows \in Nat \ {0}
  /\ Cardinality(References) \in Nat
  /\ Unread \notin References
BY SearchAssumption, Constants, FS_CardinalityType DEF Unread

-----------------------------------------------------------------------------
(* Rows in an order.                                                       *)

\* How many rows of A a sort puts before x.
Before(A, sort, x) == {y \in A : <<y, x>> \in sort}
Rank(A, sort, x) == Cardinality(Before(A, sort, x))

TotalOn(A, sort) ==
  /\ \A x \in A : <<x, x>> \notin sort
  /\ \A x, y \in A : x # y => <<x, y>> \in sort \/ <<y, x>> \in sort
  /\ \A x, y, z \in A :
       <<x, y>> \in sort /\ <<y, z>> \in sort => <<x, z>> \in sort

LEMMA RankType ==
  ASSUME NEW A, IsFiniteSet(A), NEW sort, NEW x
  PROVE  /\ Before(A, sort, x) \subseteq A /\ IsFiniteSet(Before(A, sort, x))
         /\ Rank(A, sort, x) \in Nat
         /\ Rank(A, sort, x) <= Cardinality(A)
<1>1. Before(A, sort, x) \subseteq A
  BY DEF Before
<1>2. QED
  BY <1>1, FS_Subset, FS_CardinalityType DEF Rank

\* What is a proper part of a finite set has fewer elements.
LEMMA ProperSubset ==
  ASSUME NEW S, IsFiniteSet(S), NEW T \in SUBSET S, NEW x \in S, x \notin T
  PROVE  Cardinality(T) < Cardinality(S)
<1>1. /\ IsFiniteSet(T) /\ Cardinality(T) <= Cardinality(S)
      /\ Cardinality(S) # Cardinality(T)
  BY FS_Subset
<1>2. Cardinality(T) \in Nat /\ Cardinality(S) \in Nat
  BY <1>1, FS_CardinalityType
<1>3. QED
  BY <1>1, <1>2

LEMMA RankOrder ==
  ASSUME NEW A, IsFiniteSet(A), NEW sort, TotalOn(A, sort),
         NEW x \in A, NEW y \in A, <<x, y>> \in sort
  PROVE  Rank(A, sort, x) < Rank(A, sort, y)
<1>1. /\ Before(A, sort, x) \subseteq Before(A, sort, y)
      /\ x \in Before(A, sort, y) /\ x \notin Before(A, sort, x)
  BY DEF TotalOn, Before
<1>2. IsFiniteSet(Before(A, sort, y))
  BY RankType
<1>3. QED
  BY <1>1, <1>2, ProperSubset DEF Rank

\* Two rows never have the same rank.
LEMMA RanksDiffer ==
  ASSUME NEW A, IsFiniteSet(A), NEW sort, TotalOn(A, sort),
         NEW x \in A, NEW y \in A, Rank(A, sort, x) = Rank(A, sort, y)
  PROVE  x = y
<1>1. Rank(A, sort, x) \in Nat
  BY RankType
<1>2. ~(<<x, y>> \in sort) /\ ~(<<y, x>> \in sort)
  BY <1>1, RankOrder
<1>3. QED
  BY <1>2 DEF TotalOn

LEMMA SortIsTotal ==
  ASSUME RegisterTypeOK
  PROVE  TotalOn(References, SearchSort)
<1>1. \A ref \in References : ref \in Int /\ register[ref].submittedAt \in Int
  <2>1. References \subseteq Int /\ Dates \subseteq Int
    BY Constants
  <2>2. QED
    BY <2>1, RegisterShape
<1>2. \A x, y \in References :
        <<x, y>> \in SearchSort <=>
          \/ register[x].submittedAt > register[y].submittedAt
          \/ register[x].submittedAt = register[y].submittedAt /\ x < y
  BY DEF SearchSort, Newer
<1>3. QED
  BY <1>1, <1>2 DEF TotalOn

\* Whatever the order, a find returns every match once.
LEMMA RowsCover ==
  ASSUME NEW A, IsFiniteSet(A), NEW sort, NEW rows \in InOrder(A, sort)
  PROVE  /\ rows \in [1..Cardinality(A) -> A]
         /\ rows \in Seq(A) /\ Len(rows) = Cardinality(A)
         /\ Cardinality(A) \in Nat
         /\ \A i, j \in 1..Cardinality(A) : rows[i] = rows[j] => i = j
         /\ \A x \in A : \E i \in 1..Cardinality(A) : rows[i] = x
<1> DEFINE n == Cardinality(A)
<1>1. n \in Nat
  BY FS_CardinalityType
<1>2. rows \in [1..n -> A] /\ \A i, j \in 1..n : i # j => rows[i] # rows[j]
  BY DEF InOrder, SetToSeqs
<1>3. rows \in Injection(1..n, A)
  BY <1>2 DEF Injection, IsInjective
<1>4. IsFiniteSet(1..n) /\ Cardinality(1..n) = n
  BY <1>1, FS_Interval
<1>5. rows \in Surjection(1..n, A)
  BY <1>3, <1>4, FS_Injection
<1>6. \A x \in A : \E i \in 1..n : rows[i] = x
  BY <1>5 DEF Surjection
<1>7. rows \in Seq(A) /\ Len(rows) = n
  BY <1>1, <1>2
<1>8. QED
  BY <1>1, <1>2, <1>6, <1>7

\* In a total order the i-th row has i - 1 before it.
LEMMA RowRank ==
  ASSUME NEW A, IsFiniteSet(A), NEW sort, TotalOn(A, sort),
         NEW rows \in InOrder(A, sort), NEW i \in 1..Cardinality(A)
  PROVE  Rank(A, sort, rows[i]) = i - 1
<1> DEFINE n == Cardinality(A)
           f == [j \in 1..(i - 1) |-> rows[j]]
<1>1. /\ n \in Nat /\ rows \in [1..n -> A] /\ DOMAIN rows = 1..n
      /\ \A j, k \in 1..n : rows[j] = rows[k] => j = k
      /\ \A x \in A : \E j \in 1..n : rows[j] = x
  BY RowsCover
<1>2. \A j, k \in 1..n : j < k => <<rows[k], rows[j]>> \notin sort
  BY <1>1 DEF InOrder
<1>3. \A j \in 1..n : <<rows[j], rows[i]>> \in sort <=> j < i
  <2>1. ASSUME NEW j \in 1..n, j < i
        PROVE  <<rows[j], rows[i]>> \in sort
    <3>1. rows[j] \in A /\ rows[i] \in A /\ rows[j] # rows[i]
      BY <1>1, <2>1
    <3>2. <<rows[i], rows[j]>> \notin sort
      BY <1>2, <2>1
    <3>3. QED
      BY <3>1, <3>2 DEF TotalOn
  <2>2. ASSUME NEW j \in 1..n, ~(j < i)
        PROVE  <<rows[j], rows[i]>> \notin sort
    <3>1. CASE j = i
      BY <1>1, <3>1 DEF TotalOn
    <3>2. CASE i < j
      BY <1>2, <3>2
    <3>3. QED
      BY <1>1, <2>2, <3>1, <3>2
  <2>3. QED
    BY <2>1, <2>2
<1>4. 1..(i - 1) \subseteq 1..n
  BY <1>1
<1>5. /\ f \in [1..(i - 1) -> Before(A, sort, rows[i])]
      /\ \A j, k \in 1..(i - 1) : f[j] = f[k] => j = k
  BY <1>1, <1>3, <1>4 DEF Before
<1>6. \A x \in Before(A, sort, rows[i]) : \E j \in 1..(i - 1) : f[j] = x
  <2>1. SUFFICES ASSUME NEW x \in Before(A, sort, rows[i])
                 PROVE  \E j \in 1..(i - 1) : f[j] = x
    OBVIOUS
  <2>2. PICK j \in 1..n : rows[j] = x
    BY <1>1, <2>1 DEF Before
  <2>3. j < i
    BY <1>3, <2>1, <2>2 DEF Before
  <2>4. QED
    BY <1>1, <2>2, <2>3
<1>7. f \in Bijection(1..(i - 1), Before(A, sort, rows[i]))
  BY <1>5, <1>6 DEF Bijection, Injection, IsInjective, Surjection
<1>8. IsFiniteSet(1..(i - 1)) /\ Cardinality(1..(i - 1)) = i - 1
  <2>1. i - 1 \in Int /\ i >= 1
    BY <1>1
  <2>2. /\ IsFiniteSet(1..(i - 1))
        /\ Cardinality(1..(i - 1)) = IF 1 > i - 1 THEN 0 ELSE (i - 1) - 1 + 1
    BY <2>1, FS_Interval
  <2>3. QED
    BY <2>1, <2>2
<1>9. QED
  BY <1>7, <1>8, FS_Bijection DEF ExistsBijection, Rank


\* skip and limit: of the rows, those after the first `skip`, at most `limit`.
LEMMA SliceRows ==
  ASSUME NEW A, NEW rows \in Seq(A), NEW skip \in Nat, NEW limit \in Nat \ {0}
  PROVE  LET slice == Slice(rows, skip, limit)
         IN  /\ slice \in Seq(A)
             /\ Len(slice) <= limit
             /\ Len(slice) < limit <=> Len(rows) < skip + limit
             /\ \A x : x \in ToSet(slice) <=>
                  \E i \in 1..Len(rows) :
                    skip < i /\ i <= skip + limit /\ rows[i] = x
<1> DEFINE last == IF skip + limit < Len(rows) THEN skip + limit ELSE Len(rows)
           slice == SubSeq(rows, skip + 1, last)
<1>1. Len(rows) \in Nat /\ last \in Nat /\ last <= Len(rows) /\ last <= skip + limit
  OBVIOUS
<1>2. slice \in Seq(A)
  BY <1>1
<1>3. Len(slice) = IF skip + 1 <= last THEN last - skip ELSE 0
  BY <1>1
<1>4. \A i \in 1..Len(slice) : slice[i] = rows[skip + i]
  BY <1>1
<1> HIDE DEF slice
<1>5. ToSet(slice) = {slice[i] : i \in 1..Len(slice)}
  <2>1. DOMAIN slice = 1..Len(slice)
    BY <1>2
  <2>2. QED
    BY <2>1 DEF ToSet
<1>6. ASSUME NEW i \in 1..Len(rows), skip < i, i <= skip + limit
      PROVE  rows[i] \in ToSet(slice)
  <2>1. i - skip \in 1..Len(slice) /\ skip + (i - skip) = i
    BY <1>1, <1>3, <1>6
  <2>2. slice[i - skip] = rows[i]
    BY <1>4, <2>1
  <2>3. QED
    BY <1>5, <2>1, <2>2
<1>7. ASSUME NEW i \in 1..Len(slice)
      PROVE  /\ skip + i \in 1..Len(rows)
             /\ skip < skip + i /\ skip + i <= skip + limit
             /\ rows[skip + i] = slice[i]
  BY <1>1, <1>3, <1>4
<1>8. \A x : x \in ToSet(slice) <=>
        \E i \in 1..Len(rows) : skip < i /\ i <= skip + limit /\ rows[i] = x
  BY <1>5, <1>6, <1>7
<1>9. Len(slice) <= limit /\ (Len(slice) < limit <=> Len(rows) < skip + limit)
  BY <1>1, <1>3
<1>10. QED
  BY <1>2, <1>8, <1>9 DEF slice, Slice

\* A page of a total order has exactly the rows of its ranks.
LEMMA PageRanks ==
  ASSUME NEW A, IsFiniteSet(A), NEW sort, TotalOn(A, sort),
         NEW rows \in InOrder(A, sort), NEW skip \in Nat,
         NEW limit \in Nat \ {0}, NEW x \in A
  PROVE  x \in ToSet(Slice(rows, skip, limit)) <=>
           skip <= Rank(A, sort, x) /\ Rank(A, sort, x) < skip + limit
<1> DEFINE slice == Slice(rows, skip, limit)
<1>1. /\ rows \in Seq(A) /\ Len(rows) = Cardinality(A)
      /\ Cardinality(A) \in Nat
      /\ \A i, j \in 1..Cardinality(A) : rows[i] = rows[j] => i = j
  BY RowsCover
<1>2. PICK i \in 1..Cardinality(A) : rows[i] = x
  BY RowsCover
<1>3. Rank(A, sort, x) = i - 1
  BY <1>2, RowRank
<1>4. x \in ToSet(slice) <=>
        \E j \in 1..Len(rows) : skip < j /\ j <= skip + limit /\ rows[j] = x
  BY <1>1, SliceRows
<1>5. x \in ToSet(slice) <=> skip < i /\ i <= skip + limit
  BY <1>1, <1>2, <1>4
<1> HIDE DEF slice
<1>6. QED
  BY <1>1, <1>3, <1>5 DEF slice

\* The rows that pages up to n rows have to show.
Early(A, sort, n) == {x \in A : Rank(A, sort, x) < n}

SameOn(A, sort, later) ==
  \A x, y \in A : <<x, y>> \in later <=> <<x, y>> \in sort

\* New rows only push the others back.
LEMMA EarlyAmongMore ==
  ASSUME NEW A, NEW B, IsFiniteSet(B), A \subseteq B, NEW sort, NEW later,
         SameOn(A, sort, later), NEW n \in Nat
  PROVE  Early(B, later, n) \cap A \subseteq Early(A, sort, n)
<1> SUFFICES ASSUME NEW x \in A, Rank(B, later, x) < n
             PROVE  Rank(A, sort, x) < n
  BY DEF Early
<1>1. IsFiniteSet(A)
  BY FS_Subset
<1>2. Before(A, sort, x) \subseteq Before(B, later, x)
  BY DEF Before, SameOn
<1>3. IsFiniteSet(Before(B, later, x))
  BY RankType
<1>4. Rank(A, sort, x) <= Rank(B, later, x)
  BY <1>2, <1>3, FS_Subset DEF Rank
<1>5. Rank(A, sort, x) \in Nat /\ Rank(B, later, x) \in Nat
  BY <1>1, RankType
<1>6. QED
  BY <1>4, <1>5

\* A row that leaves brings at most one other among the first n.
LEMMA EarlyAmongFewer ==
  ASSUME NEW A, IsFiniteSet(A), NEW sort, TotalOn(A, sort), NEW gone,
         NEW later, SameOn(A, sort, later), NEW n \in Nat
  PROVE  \E next : Early(A \ {gone}, later, n) \subseteq Early(A, sort, n) \cup {next}
<1> DEFINE rest == A \ {gone}
<1>1. ASSUME NEW x \in Early(rest, later, n), x \notin Early(A, sort, n)
      PROVE  x \in A /\ Rank(A, sort, x) = n
  <2>1. x \in A /\ Rank(rest, later, x) < n /\ ~(Rank(A, sort, x) < n)
    BY <1>1 DEF Early
  <2>2. Before(rest, later, x) = Before(A, sort, x) \ {gone}
    BY <2>1 DEF Before, SameOn
  <2>3. IsFiniteSet(Before(A, sort, x)) /\ Rank(A, sort, x) \in Nat
    BY RankType
  <2>4. \/ Rank(rest, later, x) = Rank(A, sort, x)
        \/ Rank(rest, later, x) = Rank(A, sort, x) - 1
    BY <2>2, <2>3, FS_RemoveElement DEF Rank
  <2>5. QED
    BY <2>1, <2>3, <2>4
<1>2. CASE \E x \in Early(rest, later, n) : x \notin Early(A, sort, n)
  <2>1. PICK x \in Early(rest, later, n) : x \notin Early(A, sort, n)
    BY <1>2
  <2>2. ASSUME NEW y \in Early(rest, later, n), y \notin Early(A, sort, n)
        PROVE  y = x
    BY <1>1, <2>1, <2>2, RanksDiffer
  <2>3. Early(rest, later, n) \subseteq Early(A, sort, n) \cup {x}
    BY <2>2
  <2>4. QED
    BY <2>3
<1>3. CASE Early(rest, later, n) \subseteq Early(A, sort, n)
  BY <1>3
<1>4. QED
  BY <1>2, <1>3


-----------------------------------------------------------------------------
(* What a step does to the matches.                                        *)

\* Either nothing leaves the visible registrations, or exactly one does.
LEMMA VisibleMoves ==
  ASSUME RegisterTypeOK, [Next]_vars
  PROVE  \/ Visible \subseteq Visible'
         \/ \E ref \in Visible : /\ Visible' = Visible \ {ref}
                                 /\ Deleted' = Deleted \cup {ref}
<1> USE DEF RegisterTypeOK, Visible, Deleted, Stages
<1>1. CASE register' = register
  BY <1>1
<1>2. ASSUME NEW ref \in References, Submit(ref) \/ Store(ref)
      PROVE  Visible \subseteq Visible'
  BY <1>2 DEF Submit, Store, Advance
<1>3. ASSUME NEW ref \in References, SoftDelete(ref)
      PROVE  /\ ref \in Visible /\ Visible' = Visible \ {ref}
             /\ Deleted' = Deleted \cup {ref}
  BY <1>3 DEF SoftDelete, Advance
<1>4. \/ register' = register
      \/ \E ref \in References : Submit(ref) \/ Store(ref) \/ SoftDelete(ref)
  BY DEF Next, vars, registerVars, Change, Tick, Search, Metrics, AskPage,
         ReadRows, ReadTotal, AnswerPage, AskExport, RejectReference, ServeOne,
         ServeMatches, RejectToken, Accept, Record, RecordFails, AskSummary,
         Count, AnswerSummary
<1>5. QED
  BY <1>1, <1>2, <1>3, <1>4

\* Nothing comes back: what is visible and was stored was visible.
LEMMA StoredMoves ==
  ASSUME RegisterTypeOK, [Next]_vars
  PROVE  /\ Stored \subseteq Stored' /\ Stored' \subseteq References
         /\ Deleted \subseteq Deleted' /\ Deleted' \subseteq References
         /\ Visible' \subseteq References
         /\ Visible' \cap Stored \subseteq Visible
         /\ Visible' \cap Deleted' = {}
<1>1. RegisterMoves
  BY RegisterNext
<1>2. Visible' \subseteq References /\ Deleted' \subseteq References
  BY DEF Visible, Deleted
<1>3. Visible' \cap Deleted' = {}
  BY DEF Visible, Deleted
<1>4. QED
  BY <1>1, <1>2, <1>3 DEF RegisterMoves, Stored

LEMMA MatchesShape ==
  ASSUME RegisterTypeOK, NEW c \in Criteria
  PROVE  /\ Matching[c] \subseteq References
         /\ Matches(c) \subseteq Visible /\ Matches(c) \subseteq References
         /\ IsFiniteSet(Matches(c))
         /\ TotalOn(Matches(c), SearchSort)
<1>1. Matching[c] \subseteq References
  BY Constants
<1>2. Matches(c) \subseteq Visible /\ Matches(c) \subseteq References
  BY <1>1 DEF Matches
<1>3. IsFiniteSet(Matches(c))
  BY <1>2, Constants, FS_Subset
<1>4. TotalOn(Matches(c), SearchSort)
  BY <1>2, SortIsTotal DEF TotalOn
<1>5. QED
  BY <1>1, <1>2, <1>3, <1>4

\* The dates of what is stored stay, and so does its order.
LEMMA OrderStays ==
  ASSUME RegisterTypeOK, RegisterMoves, NEW c \in Criteria
  PROVE  SameOn(Matches(c), SearchSort, SearchSort')
<1>1. \A x \in Matches(c) :
        /\ x \in References
        /\ register'[x].submittedAt = register[x].submittedAt
  BY RegisterShape DEF Matches, RegisterMoves, Stored
<1>2. QED
  BY <1>1 DEF SameOn, SearchSort, Newer

LEMMA FiniteReferences ==
  ASSUME NEW S \in SUBSET References, NEW T \in SUBSET S
  PROVE  /\ IsFiniteSet(S) /\ Cardinality(S) \in Nat
         /\ IsFiniteSet(T) /\ Cardinality(T) \in Nat
         /\ Cardinality(T) <= Cardinality(S)
<1>1. IsFiniteSet(S)
  BY Constants, FS_Subset
<1>2. IsFiniteSet(T) /\ Cardinality(T) <= Cardinality(S)
  BY <1>1, FS_Subset
<1>3. QED
  BY <1>1, <1>2, FS_CardinalityType

-----------------------------------------------------------------------------
(* The invariant of a search.                                              *)

WalkType ==
  walk \in [Walks -> [step : {"idle", "asked", "done"},
                      criterion : Criteria \cup {Malformed},
                      page : Nat \ {0},
                      rows : Seq(Int),
                      total : Int,
                      seen : SUBSET References,
                      there : SUBSET References,
                      gone : SUBSET References]]

Since(w) == MatchedSince(walk[w].gone, Matching[walk[w].criterion])

Read(w) == walk[w].rows # <<Unread>>

\* What a walk has read lies between what matched all the while and what
\* matched at some time.
WalkOf(w) ==
  /\ walk[w].step = "idle" =>
       ~Read(w) /\ walk[w].total = Unread /\ walk[w].seen = {} /\ walk[w].page = 1
  /\ walk[w].page <= Cardinality(References) + 1
  /\ walk[w].step # "idle" =>
       /\ walk[w].criterion \in Criteria
       /\ walk[w].there \subseteq Stored \cap Matching[walk[w].criterion]
       /\ walk[w].gone \subseteq Deleted
       /\ walk[w].seen \subseteq Since(w)
       /\ Read(w) =>
            /\ ToSet(walk[w].rows) \subseteq Since(w)
            /\ Len(walk[w].rows) <= PageSize
            /\ Len(walk[w].rows) = PageSize => walk[w].page <= Cardinality(References)
       /\ walk[w].total # Unread =>
            walk[w].total \in Cardinality(walk[w].there \cap Visible)
                              ..Cardinality(Since(w))

\* The last page is the one that is not full.
LastPage(w) == Read(w) /\ Len(walk[w].rows) < PageSize

Shown(w) == walk[w].seen \cup IF Read(w) THEN ToSet(walk[w].rows) ELSE {}

Missed(w) == (walk[w].there \cap Visible) \ Shown(w)

\* How many rows of the order the pages read so far stand for.
Boundary(w) ==
  IF Read(w) THEN Skipped(walk[w].page) + PageSize ELSE Skipped(walk[w].page)

\* Those missed that are within the pages read, and no later page will show
\* unless the order changes; after the last page, all those missed.
Due(w) ==
  IF LastPage(w) THEN Missed(w)
  ELSE Missed(w) \cap Early(Matches(walk[w].criterion), SearchSort, Boundary(w))

Lost(w) == (Deleted \ walk[w].gone) \cap Matching[walk[w].criterion]

\* PagesCover at every point of a walk, not only at its end.
CoverOf(w) ==
  /\ walk[w].step # "idle" => Cardinality(Due(w)) <= Cardinality(Lost(w))
  /\ walk[w].step = "done" =>
       LastPage(w) /\ ToSet(walk[w].rows) \subseteq walk[w].seen

WalkInv ==
  /\ RegisterTypeOK /\ WalkType
  /\ \A w \in Walks : WalkOf(w) /\ CoverOf(w)

LEMMA WalkInit == Init => WalkInv
<1> SUFFICES ASSUME Init
             PROVE  WalkType /\ \A w \in Walks : WalkOf(w) /\ CoverOf(w)
  BY RegisterInit DEF WalkInv
<1>1. <<Unread>> \in Seq(Int) /\ Unread \in Int
  BY DEF Unread
<1>2. walk = [w \in Walks |-> NoWalk]
  BY DEF Init, InitSearch
<1>3. WalkType
  BY <1>1, <1>2 DEF WalkType, NoWalk
<1>4. \A w \in Walks : WalkOf(w) /\ CoverOf(w)
  BY <1>2, SearchConstants DEF WalkOf, CoverOf, NoWalk, Read
<1>5. QED
  BY <1>3, <1>4

LEMMA SkippedType ==
  ASSUME NEW page \in Nat \ {0}
  PROVE  /\ Skipped(page) \in Nat
         /\ Skipped(page + 1) = Skipped(page) + PageSize
         /\ page <= Skipped(page) + PageSize
<1>1. PageSize \in Nat /\ PageSize >= 1 /\ page - 1 \in Nat
  BY SearchConstants
<1>2. (page - 1) * PageSize \in Nat /\ (page - 1) * PageSize >= page - 1
  BY <1>1
<1>3. page * PageSize = (page - 1) * PageSize + PageSize
  BY <1>1
<1>4. QED
  BY <1>1, <1>2, <1>3 DEF Skipped

\* The parts of a walk that asked, and their shape.
LEMMA WalkShape ==
  ASSUME WalkInv, NEW w \in Walks, walk[w].step # "idle"
  PROVE  /\ walk[w].criterion \in Criteria
         /\ Since(w) \subseteq References
         /\ Lost(w) \subseteq References /\ Missed(w) \subseteq References
         /\ Due(w) \subseteq Missed(w)
         /\ Missed(w) \subseteq Matches(walk[w].criterion)
         /\ Matches(walk[w].criterion) \subseteq Since(w)
         /\ Boundary(w) \in Nat
<1>1. /\ RegisterTypeOK /\ walk[w].criterion \in Criteria
      /\ walk[w].there \subseteq Stored \cap Matching[walk[w].criterion]
      /\ walk[w].gone \subseteq Deleted
      /\ walk[w].page \in Nat \ {0} /\ walk[w].there \subseteq References
  BY DEF WalkInv, WalkOf, WalkType
<1>2. /\ Since(w) \subseteq References /\ Lost(w) \subseteq References
      /\ Missed(w) \subseteq References
  BY <1>1, RegisterShape DEF Since, MatchedSince, Lost, Missed
<1>3. Due(w) \subseteq Missed(w) /\ Missed(w) \subseteq Matches(walk[w].criterion)
  BY <1>1 DEF Due, Missed, Matches
<1>4. Matches(walk[w].criterion) \subseteq Since(w)
  BY <1>1, RegisterShape DEF Since, MatchedSince, Matches, Stored
<1>5. Boundary(w) \in Nat
  BY <1>1, SkippedType, SearchConstants DEF Boundary
<1>6. QED
  BY <1>1, <1>2, <1>3, <1>4, <1>5

-----------------------------------------------------------------------------
(* While the register changes under a walk.                                *)

LEMMA WalkOfStays ==
  ASSUME WalkInv, [Next]_vars, NEW w \in Walks, walk'[w] = walk[w]
  PROVE  WalkOf(w)'
<1>1. RegisterTypeOK /\ RegisterTypeOK' /\ RegisterMoves /\ WalkOf(w)
  BY RegisterNext DEF WalkInv
<1>2. Read(w)' = Read(w)
  BY DEF Read
<1>3. CASE walk[w].step = "idle"
  BY <1>1, <1>2, <1>3 DEF WalkOf
<1>4. CASE walk[w].step # "idle"
  <2>1. Since(w) \subseteq Since(w)' /\ Since(w)' \subseteq References
    BY <1>1, StoredMoves DEF Since, MatchedSince
  <2>2. /\ (walk[w].there \cap Visible)' \subseteq walk[w].there \cap Visible
        /\ walk[w].there \cap Visible \subseteq References
    BY <1>1, <1>4, StoredMoves DEF WalkOf, WalkInv, WalkType
  <2>3. /\ Cardinality(Since(w)) <= Cardinality(Since(w)')
        /\ Cardinality(Since(w)) \in Nat /\ Cardinality(Since(w)') \in Nat
    BY <2>1, FiniteReferences
  <2>4. /\ Cardinality((walk[w].there \cap Visible)')
             <= Cardinality(walk[w].there \cap Visible)
        /\ Cardinality((walk[w].there \cap Visible)') \in Nat
        /\ Cardinality(walk[w].there \cap Visible) \in Nat
    BY <2>2, FiniteReferences
  <2>5. walk[w].total # Unread =>
          walk[w].total \in Cardinality((walk[w].there \cap Visible)')
                            ..Cardinality(Since(w)')
    BY <1>1, <1>4, <2>3, <2>4 DEF WalkOf
  <2>6. /\ walk[w].there \subseteq (Stored' \cap Matching[walk[w].criterion])
        /\ walk[w].gone \subseteq Deleted'
    BY <1>1, <1>4 DEF WalkOf, RegisterMoves
  <2>7. QED
    BY <1>1, <1>2, <1>4, <2>1, <2>5, <2>6 DEF WalkOf
<1>5. QED
  BY <1>3, <1>4

\* What is stored can only push rows back, and is not among those there at
\* first; what is deleted brings at most one row forward past the boundary.
LEMMA DueStays ==
  ASSUME WalkInv, [Next]_vars, NEW w \in Walks, walk'[w] = walk[w],
         walk[w].step # "idle"
  PROVE  Cardinality(Due(w)') <= Cardinality(Lost(w)')
<1> DEFINE c == walk[w].criterion
           n == Boundary(w)
<1>1. /\ RegisterTypeOK /\ RegisterTypeOK' /\ RegisterMoves
      /\ c \in Criteria /\ n \in Nat
      /\ walk[w].there \subseteq Stored /\ walk[w].gone \subseteq Deleted
      /\ Cardinality(Due(w)) <= Cardinality(Lost(w))
  BY RegisterNext, WalkShape DEF WalkInv, WalkOf, CoverOf
<1>2. /\ LastPage(w)' = LastPage(w) /\ Shown(w)' = Shown(w) /\ Boundary(w)' = n
      /\ walk'[w].criterion = c
  BY DEF LastPage, Shown, Boundary, Read
<1>3. Missed(w)' \subseteq Missed(w)
  BY <1>1, <1>2, StoredMoves DEF Missed
<1>4. /\ Lost(w) \subseteq Lost(w)' /\ Lost(w)' \subseteq References
      /\ Due(w) \subseteq References /\ Missed(w) \subseteq Matches(c)
  <2>1. Lost(w) \subseteq Lost(w)' /\ Lost(w)' \subseteq References
    BY <1>1, StoredMoves DEF Lost
  <2>2. QED
    BY <2>1, WalkShape
<1>5. /\ Cardinality(Lost(w)) <= Cardinality(Lost(w)')
      /\ Cardinality(Lost(w)) \in Nat /\ Cardinality(Lost(w)') \in Nat
      /\ IsFiniteSet(Lost(w)) /\ IsFiniteSet(Due(w)) /\ Cardinality(Due(w)) \in Nat
  BY <1>4, FiniteReferences
<1>6. ASSUME Due(w)' \subseteq Due(w)
      PROVE  Cardinality(Due(w)') <= Cardinality(Lost(w)')
  <2>1. /\ Cardinality(Due(w)') <= Cardinality(Due(w))
        /\ Cardinality(Due(w)') \in Nat
    BY <1>4, <1>6, FiniteReferences
  <2>2. QED
    BY <1>1, <1>5, <2>1
<1>7. CASE LastPage(w)
  BY <1>2, <1>3, <1>6, <1>7 DEF Due
<1>8. /\ IsFiniteSet(Matches(c)) /\ TotalOn(Matches(c), SearchSort)
      /\ SameOn(Matches(c), SearchSort, SearchSort')
  BY <1>1, MatchesShape, OrderStays
<1>9. IsFiniteSet(Matches(c)')
  <2>1. Matches(c)' \subseteq References
    BY <1>1, MatchesShape, RegisterShape DEF Matches
  <2>2. QED
    BY <2>1, FiniteReferences
<1> DEFINE early == Early(Matches(c), SearchSort, n)
           early2 == Early(Matches(c)', SearchSort', n)
<1>10. ~LastPage(w) => Due(w) = Missed(w) \cap early /\ Due(w)' = Missed(w)' \cap early2
  BY <1>2 DEF Due, Matches
<1>11. CASE ~LastPage(w) /\ Matches(c) \subseteq Matches(c)'
  <2>1. early2 \cap Matches(c) \subseteq early
    BY <1>1, <1>8, <1>9, <1>11, EarlyAmongMore
  <2>2. QED
    BY <1>3, <1>4, <1>6, <1>10, <1>11, <2>1
<1>12. CASE ~LastPage(w) /\ ~(Matches(c) \subseteq Matches(c)')
  <2>1. PICK ref \in Visible : /\ Visible' = Visible \ {ref}
                               /\ Deleted' = Deleted \cup {ref}
    BY <1>1, <1>12, VisibleMoves DEF Matches
  <2>2. ref \in Matching[c] /\ Matches(c)' = Matches(c) \ {ref}
    BY <1>12, <2>1 DEF Matches
  <2>3. PICK next : early2 \subseteq early \cup {next}
    BY <1>1, <1>8, <2>2, EarlyAmongFewer
  <2>4. Due(w)' \subseteq Due(w) \cup {next}
    BY <1>3, <1>10, <1>12, <2>3
  <2>5. /\ IsFiniteSet(Due(w) \cup {next})
        /\ Cardinality(Due(w) \cup {next}) <= Cardinality(Due(w)) + 1
        /\ Cardinality(Due(w) \cup {next}) \in Nat
    <3>1. /\ IsFiniteSet(Due(w) \cup {next})
          /\ Cardinality(Due(w) \cup {next})
               = IF next \in Due(w) THEN Cardinality(Due(w)) ELSE Cardinality(Due(w)) + 1
      BY <1>5, FS_AddElement
    <3>2. QED
      BY <1>5, <3>1
  <2>6. /\ Cardinality(Due(w)') <= Cardinality(Due(w) \cup {next})
        /\ Cardinality(Due(w)') \in Nat
    BY <2>4, <2>5, FS_Subset, FS_CardinalityType
  <2>7. Lost(w)' = Lost(w) \cup {ref} /\ ref \notin Lost(w)
    BY <1>1, <1>2, <2>1, <2>2, RegisterShape DEF Lost
  <2>8. Cardinality(Lost(w)') = Cardinality(Lost(w)) + 1
    BY <1>5, <2>7, FS_AddElement
  <2>9. QED
    BY <1>1, <1>5, <2>5, <2>6, <2>8
<1>13. QED
  BY <1>7, <1>11, <1>12

LEMMA WalkStays ==
  ASSUME WalkInv, [Next]_vars, NEW w \in Walks, walk'[w] = walk[w]
  PROVE  WalkOf(w)' /\ CoverOf(w)'
<1>1. LastPage(w)' = LastPage(w)
  BY DEF LastPage, Read
<1>2. QED
  BY <1>1, WalkOfStays, DueStays DEF WalkInv, CoverOf


-----------------------------------------------------------------------------
(* The steps of a walk.                                                    *)

LEMMA RegisterSame ==
  ASSUME register' = register
  PROVE  /\ Visible' = Visible /\ Deleted' = Deleted /\ Stored' = Stored
         /\ \A c : Matches(c)' = Matches(c)
         /\ SearchSort' = SearchSort
BY DEF Visible, Deleted, Stored, Matches, SearchSort, Newer

LEMMA AskPageNext ==
  ASSUME WalkInv, NEW w \in Walks, AskPage(w)
  PROVE  WalkType' /\ WalkOf(w)' /\ CoverOf(w)'
<1>0. /\ RegisterTypeOK /\ WalkType /\ register' = register
      /\ ~Read(w) /\ walk[w].total = Unread /\ walk[w].seen = {}
      /\ walk[w].page = 1
  BY DEF WalkInv, WalkOf, AskPage
<1>1. PICK c \in Criteria :
        walk' = [walk EXCEPT ![w] = [@ EXCEPT !.step = "asked", !.criterion = c,
                                              !.there = Matches(c),
                                              !.gone = Deleted]]
  BY DEF AskPage
<1> DEFINE asked == [walk[w] EXCEPT !.step = "asked", !.criterion = c,
                                    !.there = Matches(c), !.gone = Deleted]
<1>2. Matches(c) \subseteq References /\ Deleted \subseteq References
  BY <1>0, MatchesShape, RegisterShape
<1>3. /\ asked \in [step : {"idle", "asked", "done"},
                    criterion : Criteria \cup {Malformed}, page : Nat \ {0},
                    rows : Seq(Int), total : Int, seen : SUBSET References,
                    there : SUBSET References, gone : SUBSET References]
      /\ asked.step = "asked" /\ asked.criterion = c /\ asked.page = 1
      /\ asked.rows = walk[w].rows /\ asked.total = Unread /\ asked.seen = {}
      /\ asked.there = Matches(c) /\ asked.gone = Deleted
  BY <1>0, <1>2 DEF WalkType
<1>4. walk' = [walk EXCEPT ![w] = asked]
  BY <1>1
<1> HIDE DEF asked
<1>5. WalkType' /\ walk'[w] = asked
  BY <1>0, <1>3, <1>4 DEF WalkType
<1>6. ~Read(w)'
  BY <1>0, <1>3, <1>5 DEF Read
<1>7. Matches(c) \subseteq Stored \cap Matching[c]
  BY DEF Matches, Stored
<1>8. WalkOf(w)'
  BY <1>0, <1>3, <1>5, <1>6, <1>7, RegisterSame, SearchConstants DEF WalkOf
<1>9. Due(w)' = {}
  \* No row comes before the first page.
  <2>1. Boundary(w)' = 0
    BY <1>3, <1>5, <1>6, SearchConstants DEF Boundary, Skipped
  <2>2. Early(Matches(c), SearchSort, 0) = {}
    BY <1>0, MatchesShape, RankType DEF Early
  <2>3. QED
    BY <1>0, <1>3, <1>5, <1>6, <2>1, <2>2, RegisterSame DEF Due, LastPage
<1>10. Lost(w)' = {}
  BY <1>0, <1>3, <1>5, RegisterSame DEF Lost
<1>11. QED
  BY <1>3, <1>5, <1>8, <1>9, <1>10, FS_EmptySet DEF CoverOf

\* The rows of a page are those of its ranks, so what is still missed within
\* the new boundary was missed within the old.
LEMMA ReadRowsNext ==
  ASSUME WalkInv, NEW w \in Walks, ReadRows(w)
  PROVE  WalkType' /\ WalkOf(w)' /\ CoverOf(w)'
<1> DEFINE c == walk[w].criterion
           n == Skipped(walk[w].page)
           A == Matches(c)
<1>0. /\ RegisterTypeOK /\ WalkType /\ register' = register
      /\ walk[w].step = "asked" /\ ~Read(w) /\ c \in Criteria
      /\ walk[w].page \in Nat \ {0}
      /\ Cardinality(Due(w)) <= Cardinality(Lost(w))
  BY DEF WalkInv, WalkOf, CoverOf, WalkType, ReadRows, Read
<1>1. PICK found \in InOrder(A, SearchSort) :
        walk' = [walk EXCEPT ![w].rows = Slice(found, n, PageSize)]
  BY DEF ReadRows
<1> DEFINE rows == Slice(found, n, PageSize)
<1>2. /\ IsFiniteSet(A) /\ TotalOn(A, SearchSort) /\ A \subseteq References
      /\ Cardinality(A) \in Nat /\ Cardinality(A) <= Cardinality(References)
      /\ n \in Nat /\ walk[w].page <= n + PageSize
      /\ PageSize \in Nat \ {0}
  BY <1>0, MatchesShape, FiniteReferences, SkippedType, SearchConstants
<1>3. found \in Seq(A) /\ Len(found) = Cardinality(A)
  BY <1>2, RowsCover
<1>4. /\ rows \in Seq(A) /\ Len(rows) <= PageSize
      /\ Len(rows) < PageSize <=> Cardinality(A) < n + PageSize
  BY <1>2, <1>3, SliceRows
<1>5. \A x \in A : x \in ToSet(rows) <=>
        n <= Rank(A, SearchSort, x) /\ Rank(A, SearchSort, x) < n + PageSize
  BY <1>1, <1>2, PageRanks
<1> HIDE DEF rows, A
<1>6. /\ rows \in Seq(Int) /\ ToSet(rows) \subseteq A /\ rows # <<Unread>>
  <2>1. \A i \in 1..Len(rows) : rows[i] \in A
    BY <1>4
  <2>2. ToSet(rows) \subseteq A
    BY <1>4, <2>1 DEF ToSet
  <2>3. rows # <<Unread>>
    BY <1>2, <2>1, SearchConstants
  <2>4. A \subseteq Int
    BY <1>2, Constants
  <2>5. rows \in Seq(Int)
    BY <1>4, <2>4, SeqMonotonic
  <2>6. QED
    BY <2>2, <2>3, <2>5
<1>7. /\ WalkType'
      /\ walk'[w] = [walk[w] EXCEPT !.rows = rows]
  BY <1>0, <1>1, <1>6 DEF WalkType, rows
<1>8. /\ walk'[w].rows = rows /\ walk'[w].step = walk[w].step
      /\ walk'[w].criterion = c /\ walk'[w].page = walk[w].page
      /\ walk'[w].total = walk[w].total /\ walk'[w].seen = walk[w].seen
      /\ walk'[w].there = walk[w].there /\ walk'[w].gone = walk[w].gone
  BY <1>0, <1>7 DEF WalkType
<1>9. Read(w)' /\ Since(w)' = Since(w) /\ Lost(w)' = Lost(w)
  BY <1>0, <1>6, <1>8, RegisterSame DEF Read, Since, MatchedSince, Lost
<1>10. A \subseteq Since(w) /\ Missed(w) \subseteq A /\ Due(w) \subseteq References
  BY <1>0, WalkShape DEF A
<1>11. WalkOf(w)'
  <2>1. Len(rows) = PageSize => walk[w].page <= Cardinality(References)
    BY <1>0, <1>2, <1>4, SearchConstants
  <2>2. QED
    BY <1>0, <1>4, <1>6, <1>8, <1>9, <1>10, <2>1, RegisterSame
       DEF WalkInv, WalkOf
<1>12. Due(w) = Missed(w) \cap Early(A, SearchSort, n)
  BY <1>0 DEF Due, LastPage, Boundary, A
<1>13. Missed(w)' = Missed(w) \ ToSet(rows)
  BY <1>0, <1>8, <1>9, RegisterSame DEF Missed, Shown
<1>14. \A x \in A : Rank(A, SearchSort, x) \in Nat
                      /\ Rank(A, SearchSort, x) <= Cardinality(A)
  BY <1>2, RankType
<1>15. Due(w)' \subseteq Due(w)
  <2>1. ASSUME NEW x \in Missed(w)', Rank(A, SearchSort, x) < n + PageSize
        PROVE  x \in Due(w)
    BY <1>2, <1>5, <1>10, <1>12, <1>13, <1>14, <2>1 DEF Early
  <2>2. CASE LastPage(w)'
    <3>1. Due(w)' = Missed(w)'
      BY <2>2 DEF Due
    <3>2. Cardinality(A) < n + PageSize
      BY <1>4, <1>8, <2>2 DEF LastPage
    <3>3. \A x \in Missed(w)' : Rank(A, SearchSort, x) < n + PageSize
      BY <1>2, <1>10, <1>13, <1>14, <3>2
    <3>4. QED
      BY <2>1, <3>1, <3>3
  <2>3. CASE ~LastPage(w)'
    <3>1. Due(w)' = Missed(w)' \cap Early(A, SearchSort, n + PageSize)
      BY <1>0, <1>8, <1>9, <2>3, RegisterSame DEF Due, Boundary, A
    <3>2. QED
      BY <2>1, <3>1 DEF Early
  <2>4. QED
    BY <2>2, <2>3
<1>16. /\ Cardinality(Due(w)') <= Cardinality(Due(w))
       /\ Cardinality(Due(w)') \in Nat /\ Cardinality(Due(w)) \in Nat
  BY <1>10, <1>15, FiniteReferences
<1>17. Cardinality(Lost(w)) \in Nat
  BY <1>0, WalkShape, FiniteReferences
<1>18. QED
  BY <1>0, <1>7, <1>8, <1>9, <1>11, <1>16, <1>17 DEF CoverOf

\* The total is of a moment between, so between what is still there and what
\* matched at some time.
LEMMA ReadTotalNext ==
  ASSUME WalkInv, NEW w \in Walks, ReadTotal(w)
  PROVE  WalkType' /\ WalkOf(w)' /\ CoverOf(w)'
<1> DEFINE c == walk[w].criterion
           total == Cardinality(Counted(c))
<1>0. /\ RegisterTypeOK /\ WalkType /\ register' = register
      /\ walk[w].step = "asked" /\ c \in Criteria
      /\ walk[w].there \subseteq Stored \cap Matching[c]
  BY DEF WalkInv, WalkOf, ReadTotal
<1>1. /\ walk[w].there \cap Visible \subseteq Matches(c)
      /\ Matches(c) \subseteq Since(w) /\ Since(w) \subseteq References
  BY <1>0, WalkShape DEF Matches
<1>2. /\ total \in Nat
      /\ total \in Cardinality(walk[w].there \cap Visible)..Cardinality(Since(w))
  <2>1. Matches(c) \in SUBSET References
    BY <1>1
  <2>2. /\ Cardinality(walk[w].there \cap Visible) <= Cardinality(Matches(c))
        /\ Cardinality(Matches(c)) <= Cardinality(Since(w))
        /\ Cardinality(walk[w].there \cap Visible) \in Nat
        /\ Cardinality(Matches(c)) \in Nat /\ Cardinality(Since(w)) \in Nat
    BY <1>1, <2>1, FiniteReferences
  <2>3. QED
    BY <2>2 DEF Counted
<1>3. walk' = [walk EXCEPT ![w].total = total] /\ total \in Int
  BY <1>2 DEF ReadTotal
<1> HIDE DEF total
<1>4. /\ WalkType'
      /\ walk'[w] = [walk[w] EXCEPT !.total = total]
  BY <1>0, <1>3 DEF WalkType
<1>5. /\ walk'[w].rows = walk[w].rows /\ walk'[w].step = walk[w].step
      /\ walk'[w].criterion = c /\ walk'[w].page = walk[w].page
      /\ walk'[w].total = total /\ walk'[w].seen = walk[w].seen
      /\ walk'[w].there = walk[w].there /\ walk'[w].gone = walk[w].gone
  BY <1>0, <1>4 DEF WalkType
<1>6. /\ Read(w)' = Read(w) /\ Since(w)' = Since(w) /\ Lost(w)' = Lost(w)
      /\ LastPage(w)' = LastPage(w)
  BY <1>0, <1>5, RegisterSame DEF Read, Since, MatchedSince, Lost, LastPage
<1>7. WalkOf(w)'
  BY <1>0, <1>2, <1>5, <1>6, RegisterSame DEF WalkInv, WalkOf
<1>8. Due(w)' = Due(w)
  BY <1>0, <1>5, <1>6, RegisterSame DEF Due, Missed, Shown, Boundary
<1>9. QED
  BY <1>0, <1>4, <1>5, <1>6, <1>7, <1>8 DEF WalkInv, CoverOf

\* Showing a page takes nothing back: the rows read become rows seen, and the
\* next page begins where this one ends.
LEMMA AnswerPageNext ==
  ASSUME WalkInv, NEW w \in Walks, AnswerPage(w)
  PROVE  WalkType' /\ WalkOf(w)' /\ CoverOf(w)'
<1> DEFINE c == walk[w].criterion
           shown == [walk[w] EXCEPT !.seen = @ \cup ToSet(walk[w].rows)]
           next == [shown EXCEPT !.page = @ + 1, !.rows = <<Unread>>,
                                 !.total = Unread]
<1>0. /\ RegisterTypeOK /\ WalkType /\ register' = register
      /\ walk[w].step = "asked" /\ Read(w) /\ c \in Criteria
      /\ walk[w].page \in Nat \ {0}
      /\ ToSet(walk[w].rows) \subseteq Since(w) /\ walk[w].seen \subseteq Since(w)
      /\ Len(walk[w].rows) <= PageSize
      /\ Len(walk[w].rows) = PageSize => walk[w].page <= Cardinality(References)
      /\ Cardinality(Due(w)) <= Cardinality(Lost(w))
  <2>1. walk[w].step = "asked" /\ Read(w) /\ register' = register
    BY DEF AnswerPage, Read
  <2>2. WalkOf(w) /\ CoverOf(w) /\ RegisterTypeOK /\ WalkType
    BY DEF WalkInv
  <2>3. walk[w].page \in Nat \ {0}
    BY <2>2 DEF WalkType
  <2>4. QED
    BY <2>1, <2>2, <2>3 DEF WalkOf, CoverOf
<1>1. /\ Since(w) \subseteq References /\ PageSize \in Nat \ {0}
      /\ Len(walk[w].rows) \in Nat /\ Cardinality(References) \in Nat
  BY <1>0, WalkShape, SearchConstants DEF WalkType
<1>2. ToSet(walk[w].rows) \subseteq References
  BY <1>0, <1>1
<1>3. /\ shown.step = "asked" /\ shown.criterion = c
      /\ shown.page = walk[w].page /\ shown.rows = walk[w].rows
      /\ shown.total = walk[w].total
      /\ shown.seen = walk[w].seen \cup ToSet(walk[w].rows)
      /\ shown.there = walk[w].there /\ shown.gone = walk[w].gone
      /\ shown \in [step : {"idle", "asked", "done"},
                    criterion : Criteria \cup {Malformed}, page : Nat \ {0},
                    rows : Seq(Int), total : Int, seen : SUBSET References,
                    there : SUBSET References, gone : SUBSET References]
  BY <1>0, <1>2 DEF WalkType
<1>4. walk' = [walk EXCEPT ![w] = IF Len(walk[w].rows) < PageSize
                                    THEN [shown EXCEPT !.step = "done"]
                                    ELSE next]
  BY <1>3 DEF AnswerPage
<1> HIDE DEF shown
<1>5. CASE Len(walk[w].rows) < PageSize
  <2>1. /\ WalkType'
        /\ walk'[w] = [shown EXCEPT !.step = "done"]
    BY <1>0, <1>3, <1>4, <1>5 DEF WalkType
  <2>2. /\ walk'[w].rows = walk[w].rows /\ walk'[w].step = "done"
        /\ walk'[w].criterion = c /\ walk'[w].page = walk[w].page
        /\ walk'[w].total = walk[w].total
        /\ walk'[w].seen = walk[w].seen \cup ToSet(walk[w].rows)
        /\ walk'[w].there = walk[w].there /\ walk'[w].gone = walk[w].gone
    BY <1>3, <2>1
  <2>3. /\ Read(w)' /\ Since(w)' = Since(w) /\ Lost(w)' = Lost(w)
        /\ LastPage(w) /\ LastPage(w)'
    BY <1>0, <1>5, <2>2, RegisterSame
       DEF Read, Since, MatchedSince, Lost, LastPage
  <2>4. WalkOf(w)'
    BY <1>0, <2>2, <2>3, RegisterSame DEF WalkInv, WalkOf
  <2>5. Due(w)' = Due(w)
    BY <1>0, <2>2, <2>3, RegisterSame DEF Due, Missed, Shown
  <2>6. QED
    BY <1>0, <2>1, <2>2, <2>3, <2>4, <2>5 DEF CoverOf
<1>6. CASE ~(Len(walk[w].rows) < PageSize)
  <2>0. Len(walk[w].rows) = PageSize /\ walk[w].page <= Cardinality(References)
    BY <1>0, <1>1, <1>6
  <2>1. <<Unread>> \in Seq(Int) /\ Unread \in Int
    BY DEF Unread
  <2> DEFINE after == walk[w].page + 1
  <2>p. after \in Nat \ {0} /\ next.page = after
    BY <1>0, <1>3
  <2> HIDE DEF after
  <2>2. /\ next.rows = <<Unread>> /\ next.step = "asked"
        /\ next.criterion = c /\ next.page = after
        /\ next.total = Unread
        /\ next.seen = walk[w].seen \cup ToSet(walk[w].rows)
        /\ next.there = walk[w].there /\ next.gone = walk[w].gone
        /\ next \in [step : {"idle", "asked", "done"},
                     criterion : Criteria \cup {Malformed}, page : Nat \ {0},
                     rows : Seq(Int), total : Int, seen : SUBSET References,
                     there : SUBSET References, gone : SUBSET References]
    BY <1>3, <2>1, <2>p
  <2> HIDE DEF next
  <2>3. WalkType' /\ walk'[w] = next
    BY <1>0, <1>4, <1>6, <2>2 DEF WalkType
  <2>4. /\ ~Read(w)' /\ Since(w)' = Since(w) /\ Lost(w)' = Lost(w)
        /\ ~LastPage(w) /\ ~LastPage(w)'
    BY <1>0, <1>6, <2>2, <2>3, RegisterSame
       DEF Read, Since, MatchedSince, Lost, LastPage
  <2>5. WalkOf(w)'
    <3>1. walk'[w].page <= Cardinality(References) + 1
      BY <1>0, <1>1, <2>0, <2>2, <2>3 DEF after
    <3>2. /\ walk'[w].there \subseteq Stored' \cap Matching[c]
          /\ walk'[w].gone \subseteq Deleted'
      BY <1>0, <2>2, <2>3, RegisterSame DEF WalkInv, WalkOf
    <3>3. walk'[w].seen \subseteq Since(w)'
      BY <1>0, <2>2, <2>3, <2>4
    <3>4. QED
      BY <1>0, <2>2, <2>3, <2>4, <3>1, <3>2, <3>3 DEF WalkOf
  <2>6. Boundary(w)' = Boundary(w)
    BY <1>0, <2>2, <2>3, <2>4, SkippedType DEF Boundary, after
  <2>7. Missed(w)' = Missed(w)
    BY <1>0, <2>2, <2>3, <2>4, RegisterSame DEF Missed, Shown
  <2>8. Due(w)' = Due(w)
    BY <1>0, <2>2, <2>3, <2>4, <2>6, <2>7, RegisterSame DEF Due
  <2>9. QED
    BY <1>0, <2>2, <2>3, <2>4, <2>5, <2>8 DEF CoverOf
<1>7. QED
  BY <1>5, <1>6

LEMMA WalkNext == WalkInv /\ [Next]_vars => WalkInv'
<1> SUFFICES ASSUME WalkInv, [Next]_vars
             PROVE  WalkType' /\ \A w \in Walks : WalkOf(w)' /\ CoverOf(w)'
  BY RegisterNext DEF WalkInv
<1>1. ASSUME NEW w \in Walks,
             AskPage(w) \/ ReadRows(w) \/ ReadTotal(w) \/ AnswerPage(w)
      PROVE  WalkType' /\ \A other \in Walks : WalkOf(other)' /\ CoverOf(other)'
  <2>1. WalkType' /\ WalkOf(w)' /\ CoverOf(w)'
    BY <1>1, AskPageNext, ReadRowsNext, ReadTotalNext, AnswerPageNext
  <2>2. \A other \in Walks \ {w} : walk'[other] = walk[other]
    BY <1>1 DEF AskPage, ReadRows, ReadTotal, AnswerPage, WalkInv, WalkType
  <2>3. QED
    BY <2>1, <2>2, WalkStays
<1>2. CASE walk' = walk
  BY <1>2, WalkStays DEF WalkInv, WalkType
<1>3. QED
  BY <1>1, <1>2
     DEF Next, Search, vars, searchVars, AskExport, RejectReference, ServeOne,
         ServeMatches

\* Going through the pages shows every registration that matched at first and
\* still does, but for at most one for each match deleted meanwhile: however
\* many are stored meanwhile, wherever they sort, for any page size.
THEOREM PagesAreStable == Spec => []PagesCover
<1>1. Spec => []WalkInv
  BY WalkInit, WalkNext, PTL DEF Spec
<1>2. WalkInv => PagesCover
  <2> SUFFICES ASSUME WalkInv, NEW w \in Walks, walk[w].step = "done"
               PROVE  Cardinality((walk[w].there \cap Visible) \ walk[w].seen)
                        <= Cardinality(Lost(w))
    BY DEF PagesCover, Lost
  <2>1. /\ LastPage(w) /\ ToSet(walk[w].rows) \subseteq walk[w].seen
        /\ Cardinality(Due(w)) <= Cardinality(Lost(w))
    BY DEF WalkInv, CoverOf
  <2>2. Due(w) = (walk[w].there \cap Visible) \ walk[w].seen
    BY <2>1 DEF Due, Missed, Shown, LastPage
  <2>3. QED
    BY <2>1, <2>2
<1>3. QED
  BY <1>1, <1>2, PTL

\* A page's total, read apart from its rows, is of the time since the search
\* was asked, and no page shows what was deleted before.
THEOREM TotalsAreTrue == Spec => []TotalsTrue
<1>1. Spec => []WalkInv
  BY WalkInit, WalkNext, PTL DEF Spec
<1>2. WalkInv => TotalsTrue
  BY DEF WalkInv, WalkOf, TotalsTrue, Since
<1>3. QED
  BY <1>1, <1>2, PTL

-----------------------------------------------------------------------------
(* Exports.                                                                *)

ExportRecords ==
  [step : {"idle", "asked", "file", "refused", "invalid"}, query : Queries,
   rows : SUBSET References, there : SUBSET References, gone : SUBSET References]

ExportType == export \in [Exports -> ExportRecords]

SinceAsked(x) == MatchedSince(export[x].gone, Wanted(export[x].query))

\* ExportWhole, and what an export remembers of when it was asked.
ExportOf(x) ==
  /\ Cardinality(export[x].rows) <= MaxRows
  /\ export[x].step # "idle" => /\ export[x].there \subseteq Stored
                                /\ export[x].there \subseteq Wanted(export[x].query)
                                /\ export[x].gone \subseteq Deleted
  /\ export[x].step = "file" =>
       /\ export[x].there \cap Visible \subseteq export[x].rows
       /\ export[x].rows \subseteq SinceAsked(x)
  /\ export[x].step = "refused" => Cardinality(SinceAsked(x)) > MaxRows

ExportInv ==
  /\ RegisterTypeOK /\ ExportType
  /\ \A x \in Exports : ExportOf(x)

LEMMA EmptyFile == Cardinality({}) <= MaxRows
<1>1. Cardinality({}) = 0
  BY FS_EmptySet
<1>2. QED
  BY <1>1, SearchConstants

LEMMA ExportInit == Init => ExportInv
<1> SUFFICES ASSUME Init
             PROVE  ExportType /\ \A x \in Exports : ExportOf(x)
  BY RegisterInit DEF ExportInv
<1>1. export = [x \in Exports |-> NoExport]
  BY DEF Init, InitSearch
<1>2. QED
  BY <1>1, EmptyFile
     DEF ExportType, ExportRecords, NoExport, Queries, ExportOf

\* What an export may have grows, and what it must have shrinks.
LEMMA ExportStays ==
  ASSUME ExportInv, [Next]_vars, NEW x \in Exports, export'[x] = export[x]
  PROVE  ExportOf(x)'
<1>1. RegisterTypeOK /\ RegisterMoves /\ ExportOf(x)
  BY RegisterNext DEF ExportInv
<1>2. /\ Stored \subseteq Stored' /\ Stored' \subseteq References
      /\ Deleted \subseteq Deleted' /\ Visible' \cap Stored \subseteq Visible
  BY <1>1, StoredMoves
<1>3. SinceAsked(x) \subseteq SinceAsked(x)' /\ SinceAsked(x)' \subseteq References
  BY <1>2 DEF SinceAsked, MatchedSince
<1>4. /\ Cardinality(SinceAsked(x)) <= Cardinality(SinceAsked(x)')
      /\ Cardinality(SinceAsked(x)) \in Nat /\ Cardinality(SinceAsked(x)') \in Nat
  BY <1>3, FiniteReferences
<1>5. export[x].step = "refused" => Cardinality(SinceAsked(x)') > MaxRows
  BY <1>1, <1>4, SearchConstants DEF ExportOf
<1>6. QED
  BY <1>1, <1>2, <1>3, <1>5 DEF ExportOf

\* A step of x's that leaves x's question alone: what ExportOf needs of it.
LEMMA ExportMoves ==
  ASSUME ExportInv, register' = register, NEW x \in Exports,
         NEW step \in {"file", "refused", "invalid"},
         NEW rows \in SUBSET References,
         export[x].step = "asked",
         export' = [export EXCEPT ![x] = [@ EXCEPT !.step = step, !.rows = rows]],
         Cardinality(rows) <= MaxRows,
         step = "file" => /\ export[x].there \cap Visible \subseteq rows
                          /\ rows \subseteq SinceAsked(x),
         step = "refused" => Cardinality(SinceAsked(x)) > MaxRows
  PROVE  ExportType' /\ ExportOf(x)'
<1> DEFINE next == [export[x] EXCEPT !.step = step, !.rows = rows]
<1>1. /\ export[x] \in ExportRecords /\ ExportType
      /\ export[x].there \subseteq Stored
      /\ export[x].there \subseteq Wanted(export[x].query)
      /\ export[x].gone \subseteq Deleted
  BY DEF ExportInv, ExportType, ExportOf
<1>2. /\ next \in ExportRecords /\ next.step = step /\ next.rows = rows
      /\ next.query = export[x].query /\ next.there = export[x].there
      /\ next.gone = export[x].gone
  BY <1>1 DEF ExportRecords
<1>3. export' = [export EXCEPT ![x] = next]
  OBVIOUS
<1> HIDE DEF next
<1>4. ExportType' /\ export'[x] = next
  BY <1>1, <1>2, <1>3 DEF ExportType
<1>5. SinceAsked(x)' = SinceAsked(x)
  BY <1>2, <1>4, RegisterSame DEF SinceAsked, MatchedSince
<1>6. ExportOf(x)'
  BY <1>1, <1>2, <1>4, <1>5, RegisterSame DEF ExportOf
<1>7. QED
  BY <1>4, <1>6

LEMMA AskExportNext ==
  ASSUME ExportInv, NEW x \in Exports, AskExport(x)
  PROVE  ExportType' /\ ExportOf(x)'
<1>1. /\ RegisterTypeOK /\ ExportType /\ export[x] \in ExportRecords
      /\ register' = register /\ Cardinality(export[x].rows) <= MaxRows
  BY DEF ExportInv, ExportType, ExportOf, AskExport
<1>2. PICK q \in Queries :
        export' = [export EXCEPT ![x] = [@ EXCEPT !.step = "asked", !.query = q,
                                                  !.there = Visible \cap Wanted(q),
                                                  !.gone = Deleted]]
  BY DEF AskExport
<1> DEFINE asked == [export[x] EXCEPT !.step = "asked", !.query = q,
                                      !.there = Visible \cap Wanted(q),
                                      !.gone = Deleted]
<1>3. /\ asked \in ExportRecords /\ asked.step = "asked" /\ asked.query = q
      /\ asked.rows = export[x].rows /\ asked.there = Visible \cap Wanted(q)
      /\ asked.gone = Deleted
  BY <1>1, RegisterShape DEF ExportRecords
<1>4. export' = [export EXCEPT ![x] = asked]
  BY <1>2
<1> HIDE DEF asked
<1>5. ExportType' /\ export'[x] = asked
  BY <1>1, <1>3, <1>4 DEF ExportType
<1>6. QED
  BY <1>1, <1>3, <1>5, RegisterSame DEF ExportOf, Stored

LEMMA RejectReferenceNext ==
  ASSUME ExportInv, NEW x \in Exports, RejectReference(x)
  PROVE  ExportType' /\ ExportOf(x)'
<1>1. export[x] \in ExportRecords /\ Cardinality(export[x].rows) <= MaxRows
  BY DEF ExportInv, ExportType, ExportOf
<1>2. [export[x] EXCEPT !.step = "invalid"]
        = [export[x] EXCEPT !.step = "invalid", !.rows = export[x].rows]
  BY <1>1 DEF ExportRecords
<1>3. QED
  BY <1>1, <1>2, ExportMoves DEF RejectReference, ExportRecords

\* One reference is one registration, within any limit.
LEMMA ServeOneNext ==
  ASSUME ExportInv, NEW x \in Exports, ServeOne(x)
  PROVE  ExportType' /\ ExportOf(x)'
<1> DEFINE q == export[x].query
           rows == Visible \cap Wanted(q)
<1>1. /\ RegisterTypeOK /\ export[x].step = "asked" /\ q \in References
      /\ export[x].there \subseteq Wanted(q) /\ export[x].gone \subseteq Deleted
  BY DEF ExportInv, ExportOf, ServeOne
<1>2. rows \subseteq {q} /\ rows \subseteq References
  BY <1>1, SearchConstants, RegisterShape DEF Wanted
<1>3. Cardinality(rows) <= MaxRows
  <2>1. IsFiniteSet({q}) /\ Cardinality({q}) = 1
    BY FS_Singleton
  <2>2. Cardinality(rows) <= 1
    BY <1>2, <2>1, FS_Subset
  <2>3. Cardinality(rows) \in Nat
    BY <1>2, FiniteReferences
  <2>4. QED
    BY <2>2, <2>3, SearchConstants
<1>4. export[x].there \cap Visible \subseteq rows /\ rows \subseteq SinceAsked(x)
  BY <1>1, RegisterShape DEF SinceAsked, MatchedSince, Stored
<1>5. export' = [export EXCEPT ![x] = [@ EXCEPT !.step = "file", !.rows = rows]]
      /\ register' = register
  BY DEF ServeOne
<1> HIDE DEF rows
<1>6. QED
  BY <1>1, <1>2, <1>3, <1>4, <1>5, ExportMoves

\* Reading one row more than the limit tells a match of the limit's size from
\* a larger one, in any order the database returns them in.
LEMMA LimitIsTold ==
  ASSUME NEW A, IsFiniteSet(A), NEW sort, NEW rows \in InOrder(A, sort)
  PROVE  LET found == Slice(rows, 0, ReadLimit)
         IN  /\ TooMany(found) <=> Cardinality(A) > MaxRows
             /\ ~TooMany(found) => ToSet(found) = A
<1> DEFINE found == Slice(rows, 0, ReadLimit)
           n == Cardinality(A)
<1>1. /\ rows \in Seq(A) /\ Len(rows) = n /\ n \in Nat /\ rows \in [1..n -> A]
      /\ \A y \in A : \E i \in 1..n : rows[i] = y
  BY RowsCover
<1>2. ReadLimit \in Nat \ {0} /\ ReadLimit = MaxRows + 1 /\ MaxRows \in Nat
  BY SearchConstants DEF ReadLimit
<1>3. /\ found \in Seq(A)
      /\ Len(found) < ReadLimit <=> Len(rows) < 0 + ReadLimit
      /\ \A y : y \in ToSet(found) <=>
           \E i \in 1..Len(rows) : 0 < i /\ i <= 0 + ReadLimit /\ rows[i] = y
  BY <1>1, <1>2, SliceRows
<1> HIDE DEF found
<1>4. Len(found) \in Nat
  BY <1>3
<1>5. TooMany(found) <=> n > MaxRows
  BY <1>1, <1>2, <1>3, <1>4 DEF TooMany
<1>6. ASSUME ~TooMany(found)
      PROVE  ToSet(found) = A
  <2>1. n <= MaxRows
    BY <1>1, <1>2, <1>5, <1>6
  <2>2. \A i \in 1..n : 0 < i /\ i <= 0 + ReadLimit
    BY <1>1, <1>2, <2>1
  <2>3. \A y : y \in ToSet(found) <=> \E i \in 1..n : rows[i] = y
    BY <1>1, <1>3, <2>2
  <2>4. QED
    BY <1>1, <2>3
<1>7. QED
  BY <1>5, <1>6 DEF found

LEMMA ServeMatchesNext ==
  ASSUME ExportInv, NEW x \in Exports, ServeMatches(x)
  PROVE  ExportType' /\ ExportOf(x)'
<1> DEFINE q == export[x].query
           A == Matches(q)
<1>1. /\ RegisterTypeOK /\ export[x] \in ExportRecords
      /\ export[x].step = "asked" /\ q \in Criteria /\ register' = register
      /\ export[x].there \subseteq Wanted(q) /\ export[x].gone \subseteq Deleted
      /\ Cardinality(export[x].rows) <= MaxRows
  BY DEF ExportInv, ExportType, ExportOf, ServeMatches
<1>2. /\ A \subseteq References /\ IsFiniteSet(A) /\ A = Visible \cap Wanted(q)
  BY <1>1, MatchesShape DEF Matches, Wanted
<1>3. PICK rows \in InOrder(A, Newer) :
        LET found == Slice(rows, 0, ReadLimit)
        IN  export' = [export EXCEPT ![x] =
              IF TooMany(found)
                THEN [@ EXCEPT !.step = "refused"]
                ELSE [@ EXCEPT !.step = "file", !.rows = ToSet(found)]]
  BY DEF ServeMatches
<1> DEFINE found == Slice(rows, 0, ReadLimit)
<1>4. /\ TooMany(found) <=> Cardinality(A) > MaxRows
      /\ ~TooMany(found) => ToSet(found) = A
  BY <1>2, LimitIsTold
<1>5. export' = [export EXCEPT ![x] =
        IF TooMany(found)
          THEN [@ EXCEPT !.step = "refused"]
          ELSE [@ EXCEPT !.step = "file", !.rows = ToSet(found)]]
  BY <1>3
<1> HIDE DEF found
<1>6. A \subseteq SinceAsked(x) /\ SinceAsked(x) \subseteq References
  <2>1. SinceAsked(x) \subseteq References
    BY <1>1, RegisterShape DEF SinceAsked, MatchedSince
  <2>2. QED
    BY <1>1, <1>2, <2>1, RegisterShape DEF SinceAsked, MatchedSince, Stored
<1>7. /\ Cardinality(A) \in Nat /\ Cardinality(SinceAsked(x)) \in Nat
      /\ Cardinality(A) <= Cardinality(SinceAsked(x))
  BY <1>6, FiniteReferences
<1> HIDE DEF A
<1>8. CASE TooMany(found)
  <2>1. [export[x] EXCEPT !.step = "refused"]
          = [export[x] EXCEPT !.step = "refused", !.rows = export[x].rows]
    BY <1>1 DEF ExportRecords
  <2>2. export' = [export EXCEPT ![x] = [@ EXCEPT !.step = "refused",
                                                  !.rows = export[x].rows]]
    BY <1>5, <1>8, <2>1
  <2>3. Cardinality(SinceAsked(x)) > MaxRows
    BY <1>4, <1>7, <1>8, SearchConstants
  <2>4. export[x].rows \in SUBSET References
    BY <1>1 DEF ExportRecords
  <2>5. QED
    BY <1>1, <2>2, <2>3, <2>4, ExportMoves
<1>9. CASE ~TooMany(found)
  <2>1. export' = [export EXCEPT ![x] = [@ EXCEPT !.step = "file", !.rows = A]]
    BY <1>4, <1>5, <1>9
  <2>2. Cardinality(A) <= MaxRows
    BY <1>4, <1>7, <1>9, SearchConstants
  <2>3. export[x].there \cap Visible \subseteq A
    BY <1>1, <1>2
  <2>4. QED
    BY <1>1, <1>2, <1>6, <2>1, <2>2, <2>3, ExportMoves
<1>10. QED
  BY <1>8, <1>9

LEMMA ExportNext == ExportInv /\ [Next]_vars => ExportInv'
<1> SUFFICES ASSUME ExportInv, [Next]_vars
             PROVE  ExportType' /\ \A x \in Exports : ExportOf(x)'
  BY RegisterNext DEF ExportInv
<1>1. ASSUME NEW x \in Exports,
             AskExport(x) \/ RejectReference(x) \/ ServeOne(x) \/ ServeMatches(x)
      PROVE  ExportType' /\ \A other \in Exports : ExportOf(other)'
  <2>1. ExportType' /\ ExportOf(x)'
    BY <1>1, AskExportNext, RejectReferenceNext, ServeOneNext, ServeMatchesNext
  <2>2. \A other \in Exports \ {x} : export'[other] = export[other]
    BY <1>1 DEF AskExport, RejectReference, ServeOne, ServeMatches, ExportInv,
                ExportType
  <2>3. QED
    BY <2>1, <2>2, ExportStays
<1>2. CASE export' = export
  BY <1>2, ExportStays DEF ExportInv, ExportType
<1>3. QED
  BY <1>1, <1>2
     DEF Next, Search, vars, searchVars, AskPage, ReadRows, ReadTotal, AnswerPage

\* A file has everything that matched when it was asked for and still does, and
\* nothing deleted before; an export is only refused when more than a file's
\* worth matched.
THEOREM ExportsAreWhole == Spec => []ExportWhole
<1>1. Spec => []ExportInv
  BY ExportInit, ExportNext, PTL DEF Spec
<1>2. ExportInv => ExportWhole
  BY DEF ExportInv, ExportOf, ExportWhole, SinceAsked
<1>3. QED
  BY <1>1, <1>2, PTL

-----------------------------------------------------------------------------
(* Type correctness of the readers and of what they read.                  *)

LEMMA WalkTypes == WalkInv =>
  \A w \in Walks :
    /\ walk[w].step \in {"idle", "asked", "done"}
    /\ walk[w].criterion \in Criteria \cup {Malformed}
    /\ walk[w].page \in 1..Cardinality(References) + 1
    /\ walk[w].rows = <<Unread>> \/ Len(walk[w].rows) <= PageSize
    /\ walk[w].total \in 0..Cardinality(References) \cup {Unread}
    /\ walk[w].seen \cup walk[w].there \cup walk[w].gone \subseteq References
<1> SUFFICES ASSUME WalkInv, NEW w \in Walks
             PROVE  /\ walk[w].page \in 1..Cardinality(References) + 1
                    /\ walk[w].rows = <<Unread>> \/ Len(walk[w].rows) <= PageSize
                    /\ walk[w].total \in 0..Cardinality(References) \cup {Unread}
  BY DEF WalkInv, WalkType
<1>1. walk[w].page \in Nat \ {0} /\ WalkOf(w)
  BY DEF WalkInv, WalkType
<1>2. walk[w].page \in 1..Cardinality(References) + 1
  BY <1>1, SearchConstants DEF WalkOf
<1>3. CASE walk[w].step = "idle"
  BY <1>1, <1>2, <1>3 DEF WalkOf, Read
<1>4. CASE walk[w].step # "idle"
  <2>1. Since(w) \in SUBSET References
    BY <1>4, WalkShape
  <2>2. Cardinality(Since(w)) <= Cardinality(References)
    BY <2>1, Constants, FS_Subset
  <2>3. Cardinality(Since(w)) \in Nat
    BY <2>1, FiniteReferences
  <2>4. Cardinality(walk[w].there \cap Visible) \in Nat
    <3>1. walk[w].there \cap Visible \in SUBSET References
      BY DEF WalkInv, WalkType
    <3>2. QED
      BY <3>1, FiniteReferences
  <2>5. walk[w].total # Unread =>
          walk[w].total \in Cardinality(walk[w].there \cap Visible)
                            ..Cardinality(Since(w))
    BY <1>1, <1>4 DEF WalkOf
  <2>6. walk[w].total \in 0..Cardinality(References) \cup {Unread}
    BY <2>2, <2>3, <2>4, <2>5, SearchConstants
  <2>7. QED
    BY <1>1, <1>2, <1>4, <2>6 DEF WalkOf, Read
<1>5. QED
  BY <1>3, <1>4

\* The register, its pages, files, events and summaries are of their types.
THEOREM ReadersTypeCorrect == Spec => []TypeOK
<1>1. Spec => []WalkInv
  BY WalkInit, WalkNext, PTL DEF Spec
<1>2. Spec => []ExportInv
  BY ExportInit, ExportNext, PTL DEF Spec
<1>3. Spec => []SummaryInv
  BY SummaryInit, SummaryNext, PTL DEF Spec
<1>4. WalkInv /\ ExportInv => SearchTypeOK
  BY WalkTypes
     DEF ExportInv, ExportType, ExportRecords, ExportOf, SearchTypeOK
<1>5. SummaryInv => RegisterTypeOK /\ MetricsTypeOK
  <2>1. SummaryInv => RegisterTypeOK /\ faults \in 0..MaxFaults
    BY DEF SummaryInv
  <2>2. SummaryInv => /\ DOMAIN events \subseteq Beacons
                      /\ \A b \in DOMAIN events : events[b] \in Instants
                      /\ beacon \in [Beacons -> [step : BeaconSteps, date : Instants]]
    BY DEF SummaryInv, EventsOK
  <2>3. ASSUME SummaryInv, NEW s \in Summaries
        PROVE  /\ summary[s].step \in {"idle", "asked", "answered"}
               /\ summary[s].step # "idle" => summary[s].range \in Ranges
               /\ summary[s].step = "answered" => Uncounted \notin Range(summary[s].counts)
    BY <2>3 DEF SummaryInv, SummaryType, SummaryOf, SummarySteps, Range
  <2>4. QED
    BY <2>1, <2>2, <2>3 DEF MetricsTypeOK, BeaconSteps
<1>6. QED
  BY <1>1, <1>2, <1>3, <1>4, <1>5, PTL DEF TypeOK

=============================================================================
