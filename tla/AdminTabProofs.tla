--------------------------- MODULE AdminTabProofs ---------------------------
(***************************************************************************)
(* Theorems about AdminTab, for any histories, page size and bounds that   *)
(* AdminTabAssumption admits.                                              *)
(***************************************************************************)
EXTENDS AdminTab, FiniteSetTheorems, SequenceTheorems, TLAPS

Positive == Nat \ {0}

(* The send of a page that the next one begins behind, and what the pages  *)
(* up to this one have passed.                                             *)
Reached(v, i) ==
  LET page == HistoryPage(v) IN ~page.more \/ i >= Oldest(page.sends)

-----------------------------------------------------------------------------
(***************************************************************************)
(* Least and greatest elements, and induction: the library's theorem takes *)
(* an operator, this one a set.                                            *)
(***************************************************************************)
LEMMA LeastOf ==
  ASSUME NEW S \in SUBSET Nat, S # {}
  PROVE  \E x \in S : \A y \in S : x <= y
<1>1. PICK x \in S : \A y \in S : ~(<<y, x>> \in OpToRel(<, Nat))
  BY NatLessThanWellFounded, WFMin
<1>2. \A y \in S : ~(y < x)
  BY <1>1 DEF OpToRel
<1> QED
  BY <1>2

LEMMA GreatestOf ==
  ASSUME NEW S \in SUBSET Nat, S # {}, NEW bound \in Nat, \A x \in S : x <= bound
  PROVE  \E x \in S : \A y \in S : y <= x
<1> DEFINE gaps == {g \in Nat : \E x \in S : g + x = bound}
<1>1. \A x \in S : bound - x \in gaps
  <2> TAKE x \in S
  <2>1. bound - x \in Nat /\ (bound - x) + x = bound
    OBVIOUS
  <2> QED
    BY <2>1
<1>2. PICK g \in gaps : \A h \in gaps : g <= h
  <2>1. gaps \in SUBSET Nat /\ gaps # {}
    BY <1>1
  <2> QED
    BY <2>1, LeastOf
<1>3. PICK x \in S : g + x = bound
  OBVIOUS
<1>4. \A y \in S : y <= x
  BY <1>1, <1>2, <1>3
<1> QED
  BY <1>4

LEMMA Induction ==
  ASSUME NEW S, 1 \in S, \A n \in Positive : n \in S => n + 1 \in S
  PROVE  \A n \in Positive : n \in S
<1> DEFINE others == {n \in Positive : n \notin S}
<1> SUFFICES ASSUME others # {} PROVE FALSE
  OBVIOUS
<1>1. PICK n \in others : \A m \in others : n <= m
  <2>1. others \in SUBSET Nat
    BY DEF Positive
  <2> QED
    BY <2>1, LeastOf
<1>2. n \in Positive /\ n # 1 /\ n - 1 \in Positive /\ n - 1 \notin others
  BY <1>1 DEF Positive
<1>3. n - 1 \in S /\ (n - 1) + 1 = n
  BY <1>2 DEF Positive
<1> QED
  BY <1>1, <1>2, <1>3

-----------------------------------------------------------------------------
(***************************************************************************)
(* The newest PageSize elements of a set.                                  *)
(***************************************************************************)
Newest(S) == {i \in S : Cardinality({j \in S : j > i}) < PageSize}

LEMMA PageSizeType == PageSize \in Nat /\ PageSize >= 1
<1>1. {PageSize, MaxPage} \subseteq Nat \ {0}
  BY AdminTabAssumption
<1>2. PageSize \in Nat \ {0}
  BY <1>1
<1> QED
  BY <1>2

LEMMA LaterIsFinite ==
  ASSUME NEW S \in SUBSET Nat, IsFiniteSet(S), NEW i
  PROVE  /\ IsFiniteSet({j \in S : j > i}) /\ Cardinality({j \in S : j > i}) \in Nat
         /\ Cardinality(S) \in Nat
<1>1. {j \in S : j > i} \in SUBSET S
  OBVIOUS
<1> QED
  BY <1>1, FS_Subset, FS_CardinalityType

(* A set that fits on a page is the page.                                  *)
LEMMA AllAreNewest ==
  ASSUME NEW S \in SUBSET Nat, IsFiniteSet(S), Cardinality(S) <= PageSize
  PROVE  Newest(S) = S
<1> SUFFICES ASSUME NEW i \in S PROVE Cardinality({j \in S : j > i}) < PageSize
  BY DEF Newest
<1> DEFINE later == {j \in S : j > i}
<1>1. later \in SUBSET (S \ {i})
  OBVIOUS
<1>2. /\ IsFiniteSet(S \ {i}) /\ Cardinality(S \ {i}) = Cardinality(S) - 1
      /\ Cardinality(later) <= Cardinality(S \ {i})
  BY <1>1, FS_RemoveElement, FS_Subset
<1>3. Cardinality(later) \in Nat /\ Cardinality(S) \in Nat
  BY LaterIsFinite
<1> QED
  BY <1>2, <1>3, PageSizeType

(* What is newer than an element of the page is on the page.               *)
LEMMA NewestIsUpper ==
  ASSUME NEW S \in SUBSET Nat, IsFiniteSet(S), NEW m \in Newest(S), NEW i \in S, m <= i
  PROVE  i \in Newest(S)
<1>1. {j \in S : j > i} \in SUBSET {j \in S : j > m} /\ m \in Nat /\ i \in Nat
  <2>1. m \in Nat /\ i \in Nat /\ \A j \in S : j \in Nat
    BY DEF Newest
  <2>2. ASSUME NEW j \in S, j > i PROVE j > m
    <3>1. j \in Nat
      BY <2>1
    <3> QED
      BY <2>1, <2>2, <3>1
  <2> QED
    BY <2>1, <2>2
<1>2. Cardinality({j \in S : j > i}) <= Cardinality({j \in S : j > m})
  BY <1>1, LaterIsFinite, FS_Subset
<1> QED
  BY <1>1, <1>2, LaterIsFinite, PageSizeType DEF Newest

(* The page of a set that does not fit is full.                            *)
LEMMA PageIsFull ==
  ASSUME NEW S \in SUBSET Nat, IsFiniteSet(S), Cardinality(S) > PageSize,
         NEW bound \in Nat, \A y \in S : y <= bound
  PROVE  /\ IsFiniteSet(Newest(S)) /\ Cardinality(Newest(S)) \in Nat
         /\ Cardinality(Newest(S)) >= PageSize
         /\ Newest(S) # {}
<1>1. Newest(S) \in SUBSET S /\ IsFiniteSet(Newest(S)) /\ Cardinality(Newest(S)) \in Nat
  <2>1. Newest(S) \in SUBSET S
    BY DEF Newest
  <2> QED
    BY <2>1, FS_Subset, FS_CardinalityType
<1>2. Cardinality(Newest(S)) >= PageSize
  <2>1. CASE S = Newest(S)
    BY <2>1, PageSizeType, <1>1
  <2>2. CASE S # Newest(S)
    <3> DEFINE rest == S \ Newest(S)
    <3>1. PICK x \in rest : \A y \in rest : y <= x
      <4>1. rest \in SUBSET Nat /\ rest # {} /\ \A y \in rest : y <= bound
        BY <1>1, <2>2
      <4> QED
        BY <4>1, GreatestOf
    <3>2. {j \in S : j > x} \in SUBSET Newest(S)
      <4> SUFFICES ASSUME NEW j \in S, j > x, j \notin Newest(S) PROVE FALSE
        OBVIOUS
      <4>1. j \in rest /\ j \in Nat /\ x \in Nat
        OBVIOUS
      <4>2. j <= x
        BY <3>1, <4>1
      <4> QED
        BY <4>1, <4>2
    <3>3. Cardinality({j \in S : j > x}) <= Cardinality(Newest(S))
      BY <1>1, <3>2, FS_Subset
    <3>4. ~(Cardinality({j \in S : j > x}) < PageSize)
      BY DEF Newest
    <3> QED
      BY <1>1, <3>3, <3>4, LaterIsFinite, PageSizeType
  <2> QED
    BY <2>1, <2>2
<1>3. Newest(S) # {}
  BY <1>2, PageSizeType, FS_EmptySet
<1> QED
  BY <1>1, <1>2, <1>3

LEMMA OldestIsLeast ==
  ASSUME NEW S \in SUBSET Nat, S # {}
  PROVE  Oldest(S) \in S /\ \A y \in S : Oldest(S) <= y
BY LeastOf DEF Oldest

(* With more to choose from a full page does not reach further back.       *)
LEMMA MoreReachesLess ==
  ASSUME NEW S \in SUBSET Nat, NEW T \in SUBSET Nat, S \subseteq T, IsFiniteSet(T),
         Cardinality(S) > PageSize, NEW bound \in Nat, \A y \in T : y <= bound
  PROVE  Cardinality(T) > PageSize /\ Oldest(Newest(T)) >= Oldest(Newest(S))
<1>1. /\ IsFiniteSet(S) /\ Cardinality(S) \in Nat /\ Cardinality(T) \in Nat
      /\ Cardinality(S) <= Cardinality(T)
  BY FS_Subset, FS_CardinalityType
<1>2. Cardinality(T) > PageSize
  BY <1>1, PageSizeType
<1> DEFINE m == Oldest(Newest(S))
           n == Oldest(Newest(T))
<1>3. /\ Newest(S) \in SUBSET Nat /\ Newest(S) # {} /\ Newest(S) \subseteq S
      /\ Newest(T) \in SUBSET Nat /\ Newest(T) # {}
      /\ Cardinality(Newest(S)) >= PageSize /\ Cardinality(Newest(S)) \in Nat
  <2>1. Newest(S) \subseteq S /\ Newest(T) \subseteq T
    BY DEF Newest
  <2> QED
    BY <1>1, <1>2, <2>1, PageIsFull
<1>4. /\ m \in Newest(S) /\ (\A y \in Newest(S) : m <= y) /\ m \in Nat
      /\ n \in Newest(T) /\ n \in Nat
  BY <1>3, OldestIsLeast
<1> HIDE DEF m, n
<1>5. ASSUME n < m PROVE FALSE
  <2>1. Newest(S) \in SUBSET {j \in T : j > n}
    <3> SUFFICES ASSUME NEW y \in Newest(S) PROVE y \in T /\ y > n
      OBVIOUS
    <3>1. y \in Nat /\ m <= y /\ y \in T
      BY <1>3, <1>4
    <3> QED
      BY <1>4, <1>5, <3>1
  <2>2. Cardinality(Newest(S)) <= Cardinality({j \in T : j > n})
    BY <2>1, LaterIsFinite, FS_Subset
  <2>3. Cardinality({j \in T : j > n}) < PageSize
    BY <1>4 DEF Newest
  <2> QED
    BY <1>3, <2>2, <2>3, LaterIsFinite, PageSizeType
<1> QED
  BY <1>2, <1>4, <1>5 DEF m, n
-----------------------------------------------------------------------------
(***************************************************************************)
(* The pages of the history: the recursive function that walks to a page   *)
(* is the one function that starts at the first and steps to the next.     *)
(***************************************************************************)
IsWalk(f, query, n) ==
  f = [p \in 1..n |-> IF p = 1 THEN PageBehind(query, 0) ELSE PageAfter(query, f[p - 1])]

LEMMA WalkExists ==
  ASSUME NEW query
  PROVE  \A n \in Positive : \E f : IsWalk(f, query, n)
<1> DEFINE first == PageBehind(query, 0)
           Step(page) == PageAfter(query, page)
           Walk(f, n) == f = [p \in 1..n |-> IF p = 1 THEN first ELSE Step(f[p - 1])]
           S == {n \in Positive : \E f : Walk(f, n)}
<1> HIDE DEF first, Step
<1>1. 1 \in S
  <2> DEFINE g == [p \in 1..1 |-> first]
  <2>1. Walk(g, 1)
    OBVIOUS
  <2>2. \E f : Walk(f, 1)
    BY <2>1
  <2>3. 1 \in Positive
    BY DEF Positive
  <2> HIDE DEF Walk
  <2> QED
    BY <2>2, <2>3
<1>2. ASSUME NEW n \in Positive, n \in S PROVE n + 1 \in S
  <2>1. PICK f : Walk(f, n)
    BY <1>2
  <2> DEFINE g == [p \in 1..(n + 1) |-> IF p <= n THEN f[p] ELSE Step(f[n])]
  <2>2. n \in Nat /\ n >= 1 /\ n + 1 \in Positive
    BY DEF Positive
  <2>3. ASSUME NEW p \in 1..(n + 1)
        PROVE  g[p] = IF p = 1 THEN first ELSE Step(g[p - 1])
    <3>1. CASE p <= n
      <4>1. p \in 1..n /\ (p # 1 => p - 1 \in 1..n /\ p - 1 <= n /\ p - 1 \in 1..(n + 1))
        BY <2>2, <3>1
      <4>2. g[p] = f[p] /\ (p # 1 => g[p - 1] = f[p - 1])
        BY <3>1, <4>1
      <4>3. f[p] = IF p = 1 THEN first ELSE Step(f[p - 1])
        BY <2>1, <4>1
      <4> QED
        BY <4>2, <4>3
    <3>2. CASE ~(p <= n)
      <4>1. p = n + 1 /\ p # 1 /\ p - 1 = n /\ n \in 1..(n + 1)
        BY <2>2, <3>2
      <4> HIDE DEF Walk
      <4> QED
        BY <2>2, <3>2, <4>1
    <3> QED
      BY <3>1, <3>2
  <2>4. Walk(g, n + 1)
    BY <2>3
  <2> QED
    BY <2>2, <2>4
<1>3. \A n \in Positive : n \in S
  <2> HIDE DEF S
  <2> QED
    BY <1>1, <1>2, Induction
<1> QED
  BY <1>3 DEF IsWalk, first, Step

LEMMA WalkIsOne ==
  ASSUME NEW query, NEW m \in Positive, NEW n \in Positive,
         NEW f, IsWalk(f, query, m), NEW g, IsWalk(g, query, n)
  PROVE  \A p \in Positive : p <= m /\ p <= n => f[p] = g[p]
<1> DEFINE first == PageBehind(query, 0)
           Step(page) == PageAfter(query, page)
           S == {p \in Positive : p <= m /\ p <= n => f[p] = g[p]}
<1>1. /\ f = [p \in 1..m |-> IF p = 1 THEN first ELSE Step(f[p - 1])]
      /\ g = [p \in 1..n |-> IF p = 1 THEN first ELSE Step(g[p - 1])]
  BY DEF IsWalk
<1> HIDE DEF first, Step
<1>2. /\ \A p \in 1..m : f[p] = IF p = 1 THEN first ELSE Step(f[p - 1])
      /\ \A p \in 1..n : g[p] = IF p = 1 THEN first ELSE Step(g[p - 1])
  BY <1>1
<1>3. 1 \in S
  BY <1>2 DEF Positive
<1>4. ASSUME NEW p \in Positive, p \in S PROVE p + 1 \in S
  <2> SUFFICES ASSUME p + 1 <= m, p + 1 <= n PROVE f[p + 1] = g[p + 1]
    BY DEF Positive
  <2>1. p + 1 \in 1..m /\ p + 1 \in 1..n /\ p + 1 # 1 /\ (p + 1) - 1 = p /\ p <= m /\ p <= n
    BY DEF Positive
  <2>2. f[p] = g[p]
    BY <1>4, <2>1
  <2> QED
    BY <1>2, <2>1, <2>2
<1>5. \A p \in Positive : p \in S
  <2> HIDE DEF S
  <2> QED
    BY <1>3, <1>4, Induction
<1> QED
  BY <1>5

LEMMA HistoryIsWalk ==
  ASSUME NEW v, v.page \in Positive, NEW f, IsWalk(f, v.query, v.page)
  PROVE  HistoryPage(v) = f[v.page]
<1> DEFINE w == CHOOSE g : IsWalk(g, v.query, v.page)
<1>1. IsWalk(w, v.query, v.page)
  BY WalkExists
<1>2. HistoryPage(v) = w[v.page]
  BY DEF HistoryPage, IsWalk
<1> HIDE DEF w
<1>3. v.page <= v.page
  BY DEF Positive
<1> QED
  BY <1>1, <1>2, <1>3, WalkIsOne

View(query, page) == [query |-> query, page |-> page]

PagesFollow ==
  \A query : \A p \in Positive :
    /\ HistoryPage(View(query, 1)) = PageBehind(query, 0)
    /\ HistoryPage(View(query, p + 1)) = PageAfter(query, HistoryPage(View(query, p)))

LEMMA PageStep == PagesFollow
<1> SUFFICES ASSUME NEW query, NEW p \in Positive
             PROVE  /\ HistoryPage(View(query, 1)) = PageBehind(query, 0)
                    /\ HistoryPage(View(query, p + 1)) =
                         PageAfter(query, HistoryPage(View(query, p)))
  BY DEF PagesFollow
<1>1. /\ 1 \in Positive /\ p + 1 \in Positive /\ p <= p + 1 /\ p <= p
      /\ p + 1 \in 1..(p + 1) /\ p + 1 # 1 /\ (p + 1) - 1 = p
  BY DEF Positive
<1>2. PICK f : IsWalk(f, query, p)
  BY WalkExists
<1>3. PICK g : IsWalk(g, query, p + 1)
  BY <1>1, WalkExists
<1>4. PICK h : IsWalk(h, query, 1)
  BY <1>1, WalkExists
<1>5. /\ HistoryPage(View(query, p)) = f[p]
      /\ HistoryPage(View(query, p + 1)) = g[p + 1]
      /\ HistoryPage(View(query, 1)) = h[1]
  BY <1>1, <1>2, <1>3, <1>4, HistoryIsWalk DEF View
<1>6. f[p] = g[p]
  BY <1>1, <1>2, <1>3, WalkIsOne
<1>7. h[1] = PageBehind(query, 0)
  BY <1>4 DEF IsWalk
<1>8. g[p + 1] = PageAfter(query, g[p])
  BY <1>1, <1>3 DEF IsWalk
<1> QED
  BY <1>5, <1>6, <1>7, <1>8

-----------------------------------------------------------------------------
(***************************************************************************)
(* What a page holds and how far the pages reach.                          *)
(***************************************************************************)
History ==
  /\ rows \in Seq([at : Nat, to : Recipients])
  /\ \A i, j \in DOMAIN rows : i < j => rows[i].at <= rows[j].at

Found(query, cursor) ==
  {i \in DOMAIN rows : Matches(i, query) /\ (cursor = 0 \/ Behind(i, cursor))}

LEMMA MillisecondIsMonotone ==
  ASSUME NEW s \in Nat, NEW t \in Nat
  PROVE  /\ Millisecond(s) \in Nat /\ Millisecond(s) <= s
         /\ s <= t => Millisecond(s) <= Millisecond(t)
         /\ Millisecond(s) < Millisecond(t) => s < Millisecond(t)
BY DEF Millisecond

LEMMA RowsAreNumbered ==
  ASSUME History
  PROVE  /\ Len(rows) \in Nat /\ DOMAIN rows = 1..Len(rows) /\ DOMAIN rows \in SUBSET Nat
         /\ 0 \notin DOMAIN rows
         /\ IsFiniteSet(DOMAIN rows)
         /\ \A i \in DOMAIN rows : rows[i].at \in Nat /\ rows[i].to \in Recipients
<1>1. rows \in Seq([at : Nat, to : Recipients])
  BY DEF History
<1>2. Len(rows) \in Nat /\ DOMAIN rows = 1..Len(rows)
  BY <1>1
<1>3. \A i \in DOMAIN rows : rows[i] \in [at : Nat, to : Recipients]
  BY <1>1, <1>2, ElementOfSeq
<1>4. IsFiniteSet(1..Len(rows))
  BY <1>2, FS_Interval
<1> QED
  BY <1>2, <1>3, <1>4

LEMMA FoundIsFinite ==
  ASSUME History, NEW query, NEW cursor
  PROVE  /\ Found(query, cursor) \in SUBSET Nat /\ Found(query, cursor) \subseteq DOMAIN rows
         /\ IsFiniteSet(Found(query, cursor)) /\ Cardinality(Found(query, cursor)) \in Nat
         /\ \A i \in Found(query, cursor) : i <= Len(rows)
<1>1. Found(query, cursor) \in SUBSET DOMAIN rows
  BY DEF Found
<1> QED
  BY <1>1, RowsAreNumbered, FS_Subset, FS_CardinalityType

PageIsFound(query, cursor) ==
  /\ PageBehind(query, cursor).sends = Newest(Found(query, cursor))
  /\ PageBehind(query, cursor).more = (Cardinality(Found(query, cursor)) > PageSize)

LEMMA PageIsNewest == \A query, cursor : PageIsFound(query, cursor)
BY DEF PageIsFound, PageBehind, Newest, Found

GoodPage(page) ==
  /\ page.sends \in SUBSET DOMAIN rows
  /\ page.more \in BOOLEAN
  /\ page.more => Oldest(page.sends) \in page.sends

LEMMA PagesAreGood ==
  ASSUME History, NEW query, NEW cursor
  PROVE  GoodPage(PageBehind(query, cursor))
<1> DEFINE found == Found(query, cursor)
<1>1. /\ found \in SUBSET Nat /\ found \subseteq DOMAIN rows /\ IsFiniteSet(found)
      /\ Cardinality(found) \in Nat /\ \A i \in found : i <= Len(rows)
  BY FoundIsFinite
<1> DEFINE page == PageBehind(query, cursor)
<1>2. page.sends = Newest(found) /\ page.more = (Cardinality(found) > PageSize)
  BY PageIsNewest DEF PageIsFound
<1>3. Len(rows) \in Nat
  BY RowsAreNumbered
<1> HIDE DEF found, page
<1>4. Newest(found) \subseteq found
  BY DEF Newest
<1>5. ASSUME Cardinality(found) > PageSize PROVE Oldest(Newest(found)) \in Newest(found)
  <2>1. Newest(found) # {} /\ Newest(found) \in SUBSET Nat
    BY <1>1, <1>3, <1>4, <1>5, PageIsFull
  <2> QED
    BY <2>1, OldestIsLeast
<1>6. page.sends \in SUBSET DOMAIN rows
  BY <1>1, <1>2, <1>4
<1>7. page.more \in BOOLEAN
  BY <1>2
<1>8. page.more => Oldest(page.sends) \in page.sends
  BY <1>2, <1>5
<1> QED
  BY <1>6, <1>7, <1>8 DEF GoodPage, page

AllPagesAreGood == \A query : \A p \in Positive : GoodPage(HistoryPage(View(query, p)))

LEMMA HistoryPagesAreGood == History => AllPagesAreGood
<1> SUFFICES ASSUME History, NEW query
             PROVE  \A p \in Positive : GoodPage(HistoryPage(View(query, p)))
  BY DEF AllPagesAreGood
<1> DEFINE S == {p \in Positive : GoodPage(HistoryPage(View(query, p)))}
<1>1. 1 \in Positive /\ \A p \in Positive : p + 1 \in Positive
  BY DEF Positive
<1>2. 1 \in S
  BY <1>1, PageStep, PagesAreGood DEF PagesFollow
<1>3. ASSUME NEW p \in Positive, p \in S PROVE p + 1 \in S
  <2>1. HistoryPage(View(query, p + 1)) = PageAfter(query, HistoryPage(View(query, p)))
    BY PageStep DEF PagesFollow
  <2>2. GoodPage(PageAfter(query, HistoryPage(View(query, p))))
    <3>1. GoodPage(HistoryPage(View(query, p)))
      BY <1>3
    <3>2. CASE HistoryPage(View(query, p)).more
      BY <3>2, PagesAreGood DEF PageAfter
    <3>3. CASE ~HistoryPage(View(query, p)).more
      BY <3>1, <3>3 DEF PageAfter
    <3> QED
      BY <3>2, <3>3
  <2> QED
    BY <1>1, <2>1, <2>2
<1>4. \A p \in Positive : p \in S
  <2> HIDE DEF S
  <2> QED
    BY <1>2, <1>3, Induction
<1> QED
  BY <1>4

(* A matching send behind the cursor that the page reaches is on the page. *)
LEMMA ReachedIsShown ==
  ASSUME History, NEW query, NEW cursor, NEW i \in Found(query, cursor),
         \/ ~PageBehind(query, cursor).more
         \/ i >= Oldest(PageBehind(query, cursor).sends)
  PROVE  i \in PageBehind(query, cursor).sends
<1> DEFINE found == Found(query, cursor)
<1>1. /\ found \in SUBSET Nat /\ IsFiniteSet(found) /\ Cardinality(found) \in Nat
      /\ \A j \in found : j <= Len(rows)
  BY FoundIsFinite
<1>3. Len(rows) \in Nat
  BY RowsAreNumbered
<1>4. i \in found
  OBVIOUS
<1>5. PageBehind(query, cursor).more <=> Cardinality(found) > PageSize
  BY PageIsNewest DEF PageIsFound
<1>6. PageBehind(query, cursor).sends = Newest(found)
  BY PageIsNewest DEF PageIsFound
<1> HIDE DEF found
<1>7. CASE ~(Cardinality(found) > PageSize)
  BY <1>1, <1>4, <1>6, <1>7, AllAreNewest, PageSizeType
<1>8. CASE Cardinality(found) > PageSize /\ i >= Oldest(Newest(found))
  <2>1. Newest(found) # {} /\ Newest(found) \in SUBSET Nat
    <3>1. Newest(found) \subseteq found
      BY DEF Newest
    <3> QED
      BY <1>1, <1>3, <1>8, <3>1, PageIsFull
  <2>2. Oldest(Newest(found)) \in Newest(found)
    BY <2>1, OldestIsLeast
  <2>3. Oldest(Newest(found)) <= i
    BY <1>1, <1>4, <1>8, <2>1, <2>2
  <2> QED
    BY <1>1, <1>4, <1>6, <2>2, <2>3, NewestIsUpper
<1> QED
  BY <1>5, <1>6, <1>7, <1>8

(* A send whose millisecond no other shares is behind every later one.     *)
LEMMA AloneIsBehind ==
  ASSUME History, NEW i \in DOMAIN rows, NEW c \in DOMAIN rows, i < c, Alone(i)
  PROVE  Behind(i, c)
<1>1. rows[i].at \in Nat /\ rows[c].at \in Nat /\ rows[i].at <= rows[c].at
  BY RowsAreNumbered DEF History
<1>2. Millisecond(rows[c].at) # Millisecond(rows[i].at)
  BY RowsAreNumbered DEF Alone
<1>3. Millisecond(rows[i].at) < Millisecond(rows[c].at)
  BY <1>1, <1>2, MillisecondIsMonotone
<1> QED
  BY <1>1, <1>3, MillisecondIsMonotone DEF Behind

LEMMA FirstPageShows ==
  ASSUME History, NEW query, NEW i \in DOMAIN rows, Matches(i, query),
         Reached(View(query, 1), i)
  PROVE  i \in HistoryPage(View(query, 1)).sends
<1>1. HistoryPage(View(query, 1)) = PageBehind(query, 0)
  BY PageStep DEF PagesFollow, Positive
<1>2. i \in Found(query, 0)
  BY DEF Found
<1> QED
  BY <1>1, <1>2, ReachedIsShown DEF Reached

LEMMA NextPageShows ==
  ASSUME History, NEW query, NEW p \in Positive,
         NEW i \in DOMAIN rows, Matches(i, query), Alone(i),
         Reached(View(query, p + 1), i), ~Reached(View(query, p), i)
  PROVE  i \in HistoryPage(View(query, p + 1)).sends
<1> DEFINE page == HistoryPage(View(query, p))
           cursor == Oldest(page.sends)
<1>1. page.more /\ ~(i >= cursor)
  BY DEF Reached
<1>2. HistoryPage(View(query, p + 1)) = PageBehind(query, cursor)
  BY <1>1, PageStep DEF PagesFollow, PageAfter
<1>3. cursor \in DOMAIN rows
  BY <1>1, HistoryPagesAreGood DEF AllPagesAreGood, GoodPage
<1>4. i < cursor
  <2>1. i \in Nat /\ cursor \in Nat
    BY <1>3, RowsAreNumbered
  <2> HIDE DEF cursor
  <2> QED
    BY <1>1, <2>1
<1>5. i \in Found(query, cursor)
  <2>1. Behind(i, cursor)
    BY <1>3, <1>4, AloneIsBehind
  <2> QED
    BY <2>1 DEF Found
<1>6. \/ ~PageBehind(query, cursor).more
      \/ i >= Oldest(PageBehind(query, cursor).sends)
  BY <1>2 DEF Reached
<1> HIDE DEF cursor
<1> QED
  BY <1>2, <1>5, <1>6, ReachedIsShown

-----------------------------------------------------------------------------
(***************************************************************************)
(* A send created later only pushes the pages towards it.                  *)
(***************************************************************************)
Grows == \E row \in [at : Nat, to : Recipients] : rows' = Append(rows, row)

LEMMA RowsStay ==
  ASSUME History, Grows
  PROVE  /\ Len(rows') = Len(rows) + 1 /\ DOMAIN rows' = 1..(Len(rows) + 1)
         /\ \A i \in DOMAIN rows : i \in DOMAIN rows' /\ rows'[i] = rows[i]
<1>1. PICK row \in [at : Nat, to : Recipients] : rows' = Append(rows, row)
  BY DEF Grows
<1>2. rows \in Seq([at : Nat, to : Recipients])
  BY DEF History
<1> QED
  BY <1>1, <1>2

LEMMA FoundGrows ==
  ASSUME History, History', Grows, NEW query, NEW c, NEW d,
         \/ c = 0 /\ d = 0
         \/ c \in DOMAIN rows /\ d \in DOMAIN rows' /\ c <= d
  PROVE  Found(query, c) \subseteq Found(query, d)'
<1> SUFFICES ASSUME NEW i \in Found(query, c)
             PROVE  i \in DOMAIN rows' /\ Matches(i, query)' /\ (d = 0 \/ Behind(i, d)')
  BY DEF Found
<1>1. i \in DOMAIN rows /\ Matches(i, query) /\ (c = 0 \/ Behind(i, c))
  BY DEF Found
<1>2. i \in DOMAIN rows' /\ rows'[i] = rows[i]
  BY <1>1, RowsStay
<1>3. Matches(i, query)'
  BY <1>1, <1>2 DEF Matches
<1>4. CASE c = 0 /\ d = 0
  BY <1>2, <1>3, <1>4
<1>5. CASE c \in DOMAIN rows /\ d \in DOMAIN rows' /\ c <= d
  <2>1. /\ rows[i].at \in Nat /\ rows[c].at \in Nat /\ rows'[d].at \in Nat
        /\ rows'[c] = rows[c] /\ c \in DOMAIN rows' /\ c # 0
        /\ i \in Nat /\ c \in Nat /\ d \in Nat
    <3>1. i \in Nat /\ c \in Nat /\ c # 0 /\ rows[i].at \in Nat /\ rows[c].at \in Nat
      BY <1>1, <1>5, RowsAreNumbered
    <3>2. rows'[c] = rows[c] /\ c \in DOMAIN rows' /\ d \in Nat
      BY <1>5, RowsAreNumbered, RowsStay
    <3>3. rows' \in Seq([at : Nat, to : Recipients]) /\ d \in 1..Len(rows')
      BY <1>5 DEF History
    <3>4. rows'[d] \in [at : Nat, to : Recipients]
      BY <3>3, ElementOfSeq
    <3> QED
      BY <3>1, <3>2, <3>4
  <2>2. rows[c].at <= rows'[d].at
    <3>1. CASE c = d
      BY <2>1, <3>1
    <3>2. CASE c # d
      <4>1. \A a, b \in DOMAIN rows' : a < b => rows'[a].at <= rows'[b].at
        BY DEF History
      <4>2. c < d
        BY <1>5, <2>1, <3>2
      <4>3. rows'[c].at <= rows'[d].at
        BY <1>5, <2>1, <4>1, <4>2
      <4> QED
        BY <2>1, <4>3
    <3> QED
      BY <3>1, <3>2
  <2>3. /\ Millisecond(rows[c].at) <= Millisecond(rows'[d].at)
        /\ Millisecond(rows[c].at) \in Nat /\ Millisecond(rows'[d].at) \in Nat
    BY <2>1, <2>2, MillisecondIsMonotone
  <2>4. \/ rows[i].at < Millisecond(rows[c].at)
        \/ rows[i].at = Millisecond(rows[c].at) /\ i < c
    BY <1>1, <2>1 DEF Behind
  <2>5. \/ rows[i].at < Millisecond(rows'[d].at)
        \/ rows[i].at = Millisecond(rows'[d].at) /\ i < d
    BY <1>5, <2>1, <2>3, <2>4
  <2> QED
    BY <1>2, <1>3, <2>5 DEF Behind
<1> QED
  BY <1>4, <1>5

LEMMA PageGrows ==
  ASSUME History, History', Grows, NEW query, NEW c, NEW d,
         \/ c = 0 /\ d = 0
         \/ c \in DOMAIN rows /\ d \in DOMAIN rows' /\ c <= d,
         PageBehind(query, c).more
  PROVE  /\ PageBehind(query, d)'.more
         /\ Oldest(PageBehind(query, d)'.sends) >= Oldest(PageBehind(query, c).sends)
<1> DEFINE S == Found(query, c)
           T == Found(query, d)'
<1>1. S \subseteq T
  BY FoundGrows
<1>2. /\ Len(rows) \in Nat /\ Len(rows') = Len(rows) + 1
      /\ DOMAIN rows = 1..Len(rows) /\ DOMAIN rows' = 1..Len(rows')
  BY RowsAreNumbered, RowsStay
<1>3. /\ S \in SUBSET Nat /\ T \in SUBSET Nat /\ T \in SUBSET (1..Len(rows'))
      /\ \A i \in T : i <= Len(rows')
  BY <1>2 DEF Found
<1>4. IsFiniteSet(T) /\ Len(rows') \in Nat
  <2>1. Len(rows') \in Nat
    BY <1>2
  <2>2. IsFiniteSet(1..Len(rows'))
    BY <2>1, FS_Interval
  <2> QED
    BY <1>3, <2>1, <2>2, FS_Subset
<1>5. PageBehind(query, c).sends = Newest(S) /\ (PageBehind(query, c).more <=> Cardinality(S) > PageSize)
  BY PageIsNewest DEF PageIsFound
<1>6. PageBehind(query, d)'.sends = Newest(T) /\ (PageBehind(query, d)'.more <=> Cardinality(T) > PageSize)
  BY DEF PageBehind, Newest, Found
<1> HIDE DEF S, T
<1>7. Cardinality(S) > PageSize
  BY <1>5
<1> QED
  BY <1>1, <1>3, <1>4, <1>5, <1>6, <1>7, MoreReachesLess

(* What the pages reached they still reach, or less.                       *)
LEMMA ReachShrinks ==
  ASSUME History, History', Grows, NEW query, NEW p \in Positive, NEW i \in DOMAIN rows,
         Reached(View(query, p), i)'
  PROVE  Reached(View(query, p), i)
<1> DEFINE Before(n) == HistoryPage(View(query, n))
           After(n) == HistoryPage(View(query, n))'
           S == {n \in Positive :
                  Before(n).more =>
                    After(n).more /\ Oldest(After(n).sends) >= Oldest(Before(n).sends)}
<1>1. 1 \in Positive /\ \A n \in Positive : n + 1 \in Positive
  BY DEF Positive
<1>2. /\ Before(1) = PageBehind(query, 0)
      /\ \A n \in Positive : Before(n + 1) = PageAfter(query, Before(n))
  BY <1>1, PageStep DEF PagesFollow
<1>3. /\ After(1) = PageBehind(query, 0)'
      /\ \A n \in Positive : After(n + 1) = PageAfter(query, HistoryPage(View(query, n)))'
  <2>1. PagesFollow'
    BY PageStep, PTL
  <2> QED
    BY <1>1, <2>1 DEF PagesFollow
<1>4. \A n \in Positive : Before(n).more => Oldest(Before(n).sends) \in DOMAIN rows
  BY HistoryPagesAreGood DEF AllPagesAreGood, GoodPage
<1>5. \A n \in Positive : After(n).more => Oldest(After(n).sends) \in DOMAIN rows'
  <2>1. AllPagesAreGood'
    BY HistoryPagesAreGood, PTL
  <2> QED
    BY <2>1 DEF AllPagesAreGood, GoodPage
<1>6. 1 \in S
  BY <1>1, <1>2, <1>3, PageGrows
<1>7. ASSUME NEW n \in Positive, n \in S PROVE n + 1 \in S
  <2> SUFFICES ASSUME Before(n + 1).more
               PROVE  /\ After(n + 1).more
                      /\ Oldest(After(n + 1).sends) >= Oldest(Before(n + 1).sends)
    BY <1>1
  <2>1. Before(n).more
    BY <1>2 DEF PageAfter
  <2>2. After(n).more /\ Oldest(After(n).sends) >= Oldest(Before(n).sends)
    BY <1>7, <2>1
  <2> PICK c, d : c = Oldest(Before(n).sends) /\ d = Oldest(After(n).sends)
    OBVIOUS
  <2>3. Before(n + 1) = PageBehind(query, c)
    BY <1>2, <2>1 DEF PageAfter
  <2>4. After(n + 1) = PageBehind(query, d)'
    BY <1>3, <2>2 DEF PageAfter
  <2>5. c \in DOMAIN rows /\ d \in DOMAIN rows' /\ c <= d
    <3>1. c \in DOMAIN rows /\ d \in DOMAIN rows' /\ d >= c
      BY <1>4, <1>5, <2>1, <2>2
    <3>2. c \in Nat /\ d \in Nat
      BY <3>1, RowsAreNumbered, RowsStay
    <3> QED
      BY <3>1, <3>2
  <2> QED
    BY <2>3, <2>4, <2>5, PageGrows
<1>8. p \in S
  <2>1. \A n \in Positive : n \in S
    <3> HIDE DEF S
    <3> QED
      BY <1>6, <1>7, Induction
  <2> QED
    BY <2>1
<1>9. ~After(p).more \/ i >= Oldest(After(p).sends)
  BY DEF Reached
<1>10. CASE Before(p).more
  <2>1. After(p).more /\ Oldest(After(p).sends) >= Oldest(Before(p).sends)
    BY <1>8, <1>10
  <2>2. /\ i \in Nat /\ Oldest(After(p).sends) \in Nat /\ Oldest(Before(p).sends) \in Nat
    BY <1>4, <1>5, <1>10, <2>1, RowsAreNumbered, RowsStay
  <2>3. i >= Oldest(Before(p).sends)
    BY <1>9, <2>1, <2>2
  <2> QED
    BY <2>3 DEF Reached
<1>11. CASE ~Before(p).more
  BY <1>11 DEF Reached
<1> QED
  BY <1>10, <1>11

-----------------------------------------------------------------------------
(***************************************************************************)
(* Types: what the tab shows and asks for exists.                          *)
(***************************************************************************)
RowsType == History /\ Len(rows) <= MaxSends
SessionsType == live \subseteq 1..logins /\ logins \in 0..MaxLogins /\ cookie \in 0..logins
BrowserType == location \in Locations /\ past \in Seq(Locations)
AppType == status \in {"loading", "authenticated", "unauthenticated"} /\ view \in Views
ListType ==
  list \in [view : Views, sends : SUBSET DOMAIN rows, more : BOOLEAN, error : BOOLEAN,
            loaded : BOOLEAN]
OpenRowType == selected \in 0..Len(rows) /\ events \in 0..Len(rows)
RequestType(r) == r \in Request /\ r.send <= Len(rows) /\ r.token <= logins
RequestsType == \A r \in requests : RequestType(r)
GhostType ==
  /\ asked \in Views /\ crossed \subseteq {"session", "events"}
  /\ turned \in [view : Views, upto : 0..Len(rows), seen : SUBSET DOMAIN rows]
  /\ mishaps \in Nat

TypeInv ==
  RowsType /\ SessionsType /\ BrowserType /\ AppType /\ ListType /\ OpenRowType /\ RequestsType
    /\ GhostType

LEMMA Bounds ==
  /\ MaxSends \in Nat /\ MaxLogins \in Nat /\ MaxVisits \in Nat
  /\ MaxPage \in Nat /\ MaxPage >= 1
<1>1. /\ {PageSize, MaxPage} \subseteq Nat \ {0}
      /\ {MaxSends, MaxLogins, MaxVisits, MaxMishaps, MaxEvents} \subseteq Nat
  BY AdminTabAssumption
<1>2. MaxPage \in Nat \ {0}
  BY <1>1
<1> QED
  BY <1>1, <1>2

LEMMA FirstViewIsView == FirstView \in Views
BY Bounds DEF FirstView, Views, Queries

LEMMA ViewsAreNumbered ==
  ASSUME NEW v \in Views
  PROVE  /\ v.page \in Positive /\ v.query \in Queries /\ v = View(v.query, v.page)
         /\ v.page = 1 \/ v.page - 1 \in Positive
         /\ (v.page - 1) + 1 = v.page
         /\ [v EXCEPT !.page = @ - 1] = View(v.query, v.page - 1)
<1>1. v.page \in 1..MaxPage /\ v.query \in Queries /\ v = [query |-> v.query, page |-> v.page]
  BY DEF Views
<1>2. [v EXCEPT !.page = @ - 1] = [query |-> v.query, page |-> v.page - 1]
  BY DEF Views
<1> QED
  BY <1>1, <1>2, Bounds DEF View, Positive

LEMMA LoadedPage ==
  ASSUME History, NEW v \in Views
  PROVE  GoodPage(HistoryPage(v))
<1>1. v.page \in Positive /\ v = View(v.query, v.page)
  BY ViewsAreNumbered
<1>2. GoodPage(HistoryPage(View(v.query, v.page)))
  BY <1>1, HistoryPagesAreGood DEF AllPagesAreGood
<1> QED
  BY <1>1, <1>2

LEMMA TypesAreTypes == TypeInv => TypeOK
<1> SUFFICES ASSUME TypeInv PROVE TypeOK
  OBVIOUS
<1> USE DEF TypeInv
<1>1. rows \in Seq([at : Nat, to : Recipients]) /\ Len(rows) <= MaxSends
  BY DEF RowsType, History
<1>2. DOMAIN rows \subseteq Sends
  BY RowsAreNumbered, Bounds DEF RowsType, Sends
<1>3. list \in [view : Views, sends : SUBSET Sends, more : BOOLEAN, error : BOOLEAN,
                loaded : BOOLEAN]
  <2>1. list.sends \in SUBSET Sends
    BY <1>2 DEF ListType
  <2> QED
    BY <2>1 DEF ListType
<1>4. live \subseteq 1..logins /\ logins \in 0..MaxLogins /\ cookie \in 0..logins
  BY DEF SessionsType
<1>5. location \in Locations /\ past \in Seq(Locations)
  BY DEF BrowserType
<1>6. {selected, events} \subseteq 0..Len(rows)
  BY DEF OpenRowType
<1>7. requests \subseteq Request
  BY DEF RequestsType, RequestType
<1> QED
  BY <1>1, <1>3, <1>4, <1>5, <1>6, <1>7 DEF TypeOK, AppType, GhostType

LEMMA NavigateLeads ==
  ASSUME BrowserType, NEW path \in Paths, Navigate(path)
  PROVE  BrowserType' /\ location' = [path |-> path, search |-> FirstView]
<1> DEFINE next == [path |-> path, search |-> FirstView]
<1>1. next \in Locations
  BY FirstViewIsView DEF Locations
<1>2. CASE next = location
  BY <1>2 DEF Navigate, BrowserType
<1>3. CASE next # location
  <2>1. /\ location' = next
        /\ past' = SubSeq(<<location>> \o past, 1,
                          IF Len(past) < MaxVisits THEN Len(past) + 1 ELSE MaxVisits)
    BY <1>3 DEF Navigate
  <2> DEFINE both == <<location>> \o past
             upto == IF Len(past) < MaxVisits THEN Len(past) + 1 ELSE MaxVisits
  <2>2. <<location>> \in Seq(Locations) /\ past \in Seq(Locations) /\ Len(past) \in Nat
    BY DEF BrowserType
  <2>3. both \in Seq(Locations) /\ Len(both) = 1 + Len(past)
    BY <2>2, ConcatProperties
  <2>4. upto \in 0..Len(both) /\ Len(both) \in Nat
    BY <2>2, <2>3, Bounds
  <2> HIDE DEF both, upto
  <2>5. SubSeq(both, 1, upto) \in Seq(Locations)
    BY <2>3, <2>4, SubSeqProperties
  <2> QED
    BY <1>1, <2>1, <2>5 DEF BrowserType, both, upto
<1> QED
  BY <1>2, <1>3

LEMMA AskingIsRequest ==
  ASSUME TypeInv, NEW kind \in {"session", "list", "events", "login", "logout"},
         NEW path \in Paths, NEW v \in Views, NEW i \in 0..Len(rows)
  PROVE  RequestType(Asking(kind, path, v, i))
<1>1. /\ cookie \in 0..MaxLogins /\ cookie <= logins
      /\ i \in 0..MaxSends /\ i <= Len(rows)
  BY RowsAreNumbered, Bounds DEF TypeInv, RowsType, SessionsType
<1> QED
  BY <1>1 DEF Asking, RequestType, Request

-----------------------------------------------------------------------------
LEMMA CreateSendTypes ==
  ASSUME TypeInv, CreateSend
  PROVE  TypeInv' /\ Grows
<1>1. PICK to \in Recipients, later \in 1..2 :
        rows' = Append(rows, [at |-> later + (IF rows = <<>> THEN 0 ELSE rows[Len(rows)].at),
                              to |-> to])
  BY DEF CreateSend
<1> DEFINE last == IF rows = <<>> THEN 0 ELSE rows[Len(rows)].at
           row == [at |-> later + last, to |-> to]
<1>2. History /\ rows \in Seq([at : Nat, to : Recipients]) /\ Len(rows) < MaxSends
  BY DEF TypeInv, RowsType, History, CreateSend
<1>3. Len(rows) \in Nat /\ DOMAIN rows = 1..Len(rows) /\ \A i \in DOMAIN rows : rows[i].at \in Nat
  BY <1>2, RowsAreNumbered
<1>4. last \in Nat /\ \A i \in DOMAIN rows : rows[i].at <= last
  <2>1. CASE rows = <<>>
    BY <1>3, <2>1
  <2>2. CASE rows # <<>>
    <3>1. Len(rows) \in DOMAIN rows
      BY <1>2, <1>3, <2>2, EmptySeq
    <3>2. \A i \in DOMAIN rows : i = Len(rows) \/ i < Len(rows)
      BY <1>3
    <3>3. \A i \in DOMAIN rows : rows[i].at <= rows[Len(rows)].at
      BY <1>2, <1>3, <3>1, <3>2 DEF History
    <3> QED
      BY <1>3, <2>2, <3>1, <3>3
  <2> QED
    BY <2>1, <2>2
<1> HIDE DEF last
<1>5. row \in [at : Nat, to : Recipients] /\ row.at \in Nat /\ row.at >= last
  BY <1>4
<1>6. rows' = Append(rows, row)
  BY <1>1 DEF last
<1> HIDE DEF row
<1>7. Grows
  BY <1>5, <1>6 DEF Grows
<1>8. /\ rows' \in Seq([at : Nat, to : Recipients]) /\ Len(rows') = Len(rows) + 1
      /\ DOMAIN rows' = 1..(Len(rows) + 1)
      /\ \A i \in DOMAIN rows : i \in DOMAIN rows' /\ rows'[i] = rows[i]
      /\ rows'[Len(rows) + 1] = row
  BY <1>2, <1>5, <1>6
<1>9. History'
  <2> SUFFICES ASSUME NEW i \in DOMAIN rows', NEW j \in DOMAIN rows', i < j
               PROVE  rows'[i].at <= rows'[j].at
    BY <1>8 DEF History
  <2>1. i \in DOMAIN rows /\ rows'[i] = rows[i]
    BY <1>3, <1>8
  <2>2. CASE j \in DOMAIN rows
    BY <1>2, <1>8, <2>1, <2>2 DEF History
  <2>3. CASE j = Len(rows) + 1
    BY <1>3, <1>4, <1>5, <1>8, <2>1, <2>3
  <2> QED
    BY <1>3, <1>8, <2>2, <2>3
<1>10. RowsType' /\ DOMAIN rows \subseteq DOMAIN rows'
  BY <1>2, <1>3, <1>8, <1>9, Bounds DEF RowsType
<1>11. 0..Len(rows) \subseteq 0..Len(rows')
  BY <1>3, <1>8
<1> USE DEF TypeInv, CreateSend, app, browser
<1>12. SessionsType' /\ BrowserType' /\ AppType'
  BY DEF SessionsType, BrowserType, AppType
<1>13. ListType'
  BY <1>10 DEF ListType
<1>14. OpenRowType'
  BY <1>11 DEF OpenRowType
<1>15. RequestsType'
  <2> SUFFICES ASSUME NEW r \in requests PROVE RequestType(r)'
    BY DEF RequestsType
  <2>1. r \in Request /\ r.send <= Len(rows) /\ r.token <= logins
    BY DEF RequestsType, RequestType
  <2>2. r.send \in Nat
    BY <2>1, Bounds DEF Request
  <2>3. r.send <= Len(rows')
    BY <1>3, <1>8, <2>1, <2>2
  <2> QED
    BY <2>1, <2>3 DEF RequestType
<1>16. GhostType'
  BY <1>10, <1>11 DEF GhostType
<1> QED
  BY <1>7, <1>10, <1>12, <1>13, <1>14, <1>15, <1>16

LEMMA JudgeTypes ==
  ASSUME TypeInv, NEW r \in requests, Judge(r)
  PROVE  TypeInv'
<1> USE DEF TypeInv
<1>1. PICK ok \in BOOLEAN :
        /\ r.kind = "login" /\ ok => logins < MaxLogins
        /\ logins' = IF r.kind = "login" /\ ok THEN logins + 1 ELSE logins
        /\ live' = IF r.kind = "login" /\ ok THEN live \cup {logins + 1} ELSE Unrevoked(r)
        /\ requests' = (requests \ {r}) \cup
             {[r EXCEPT !.verdict = IF ok THEN "yes" ELSE "no",
                        !.token = IF r.kind = "login" /\ ok THEN logins + 1 ELSE @]}
  BY DEF Judge
<1>2. UNCHANGED <<rows, browser, app, rendered, asked, crossed, turned, bounds>>
  BY DEF Judge
<1>3. logins \in Nat /\ logins' \in Nat /\ logins <= logins' /\ logins' \in 0..MaxLogins
  BY <1>1, Bounds DEF SessionsType
<1>4. SessionsType'
  <2>1. live' \subseteq 1..logins'
    BY <1>1, <1>3 DEF SessionsType, Unrevoked
  <2> QED
    BY <1>2, <1>3, <2>1 DEF SessionsType, browser
<1>5. RequestsType'
  <2>0. PICK new : new = [r EXCEPT !.verdict = IF ok THEN "yes" ELSE "no",
                                   !.token = IF r.kind = "login" /\ ok THEN logins + 1 ELSE @]
    OBVIOUS
  <2>1. \A q \in requests : q \in Request /\ q.send <= Len(rows) /\ q.token <= logins
    BY DEF RequestsType, RequestType
  <2>2. \A q \in requests : q.token \in Nat
    BY <2>1, Bounds DEF Request
  <2>3. new \in Request /\ new.send = r.send
        /\ new.token = IF r.kind = "login" /\ ok THEN logins + 1 ELSE r.token
    BY <1>1, <1>3, <2>0, <2>1, Bounds DEF Request
  <2>4. RequestType(new)'
    <3>1. new.token <= logins'
      BY <1>1, <1>3, <2>1, <2>2, <2>3
    <3> QED
      BY <1>2, <2>1, <2>3, <3>1 DEF RequestType
  <2>5. \A q \in requests : RequestType(q)'
    BY <1>2, <1>3, <2>1, <2>2 DEF RequestType
  <2>6. requests' = (requests \ {r}) \cup {new}
    BY <1>1, <2>0
  <2> QED
    BY <2>4, <2>5, <2>6 DEF RequestsType
<1>6. RowsType' /\ BrowserType' /\ AppType' /\ ListType' /\ OpenRowType' /\ GhostType'
  BY <1>2 DEF RowsType, History, BrowserType, AppType, ListType, OpenRowType, GhostType, app,
              browser, bounds
<1> QED
  BY <1>4, <1>5, <1>6

(* What an answer does to the types, whatever it answers.                  *)
LEMMA AnswerTypes ==
  ASSUME TypeInv, NEW r \in requests, NEW ok \in BOOLEAN, Answer(r, ok),
         cookie' \in {cookie, 0, r.token}, mishaps' \in {mishaps, mishaps + 1}
  PROVE  TypeInv'
<1> USE DEF TypeInv
<1>1. /\ UNCHANGED <<rows, live, logins, asked, crossed>>
      /\ requests' = requests \ {r}
      /\ \/ SessionAnswer(r, ok) \/ ListAnswer(r, ok) \/ EventsAnswer(r, ok) \/ LoginAnswer(ok)
         \/ LogoutAnswer
  BY DEF Answer, SessionAnswer, ListAnswer, EventsAnswer, LoginAnswer, LogoutAnswer
<1>2. r \in Request /\ r.send <= Len(rows) /\ r.token <= logins
  BY DEF RequestsType, RequestType
<1>3. r.view \in Views /\ r.send \in Nat /\ r.token \in Nat
  BY <1>2, Bounds DEF Request
<1>4. /\ Len(rows) \in Nat /\ logins \in Nat /\ r.send \in 0..Len(rows) /\ r.token \in 0..logins
      /\ cookie \in 0..logins /\ 0 \in 0..logins
  BY <1>2, <1>3, RowsAreNumbered, Bounds DEF RowsType, SessionsType
<1>5. RowsType' /\ SessionsType' /\ RequestsType'
  <2>1. RowsType'
    BY <1>1 DEF RowsType, History
  <2>2. SessionsType'
    BY <1>1, <1>4 DEF SessionsType
  <2>3. RequestsType'
    BY <1>1 DEF RequestsType, RequestType
  <2> QED
    BY <2>1, <2>2, <2>3
<1>6. mishaps' \in Nat
  BY DEF GhostType
<1> DEFINE Rest == BrowserType' /\ AppType' /\ ListType' /\ OpenRowType' /\ GhostType'
<1>7. CASE SessionAnswer(r, ok)
  <2>1. BrowserType'
    <3>1. CASE Navigate("/login")
      <4>1. "/login" \in Paths
        BY DEF Paths
      <4> QED
        BY <3>1, <4>1, NavigateLeads
    <3>2. CASE UNCHANGED <<location, past>>
      BY <3>2 DEF BrowserType
    <3> QED
      BY <1>7, <3>1, <3>2 DEF SessionAnswer
  <2> QED
    BY <1>1, <1>5, <1>6, <1>7, <2>1
    DEF SessionAnswer, AppType, ListType, OpenRowType, GhostType
<1>8. CASE ListAnswer(r, ok)
  <2>1. UNCHANGED <<location, past, status, view, selected, events, crossed>>
    BY <1>8 DEF ListAnswer
  <2>2. ListType' /\ turned' \in [view : Views, upto : 0..Len(rows), seen : SUBSET DOMAIN rows]
    <3>1. CASE ok
      <4> DEFINE page == HistoryPage(r.view)
      <4>1. /\ list' = [view |-> r.view, sends |-> page.sends, more |-> page.more,
                        error |-> list.error, loaded |-> TRUE]
            /\ Turn(r.view, page)
        BY <1>8, <3>1 DEF ListAnswer
      <4>2. page.sends \in SUBSET DOMAIN rows /\ page.more \in BOOLEAN
        BY <1>3, LoadedPage DEF GoodPage, RowsType
      <4> HIDE DEF page
      <4>3. ListType'
        BY <1>1, <1>3, <4>1, <4>2 DEF ListType
      <4>4. turned' \in [view : Views, upto : 0..Len(rows), seen : SUBSET DOMAIN rows]
        <5>1. /\ turned \in [view : Views, upto : 0..Len(rows), seen : SUBSET DOMAIN rows]
              /\ 0 \in 0..Len(rows) /\ Len(rows) \in 0..Len(rows)
          BY <1>4 DEF GhostType
        <5>2. \/ turned' = [view |-> r.view, upto |-> Len(rows), seen |-> page.sends]
              \/ turned' = [turned EXCEPT !.view = r.view, !.seen = @ \cup page.sends]
              \/ turned' = [turned EXCEPT !.upto = 0]
          BY <4>1 DEF Turn
        <5>3. turned.seen \cup page.sends \in SUBSET DOMAIN rows
          BY <4>2, <5>1
        <5>4. CASE turned' = [view |-> r.view, upto |-> Len(rows), seen |-> page.sends]
          BY <1>3, <4>2, <5>1, <5>4
        <5>5. CASE turned' = [turned EXCEPT !.view = r.view, !.seen = @ \cup page.sends]
          <6> DEFINE seen == turned.seen \cup page.sends
          <6>1. turned' = [turned EXCEPT !.view = r.view, !.seen = seen]
            BY <5>5
          <6> HIDE DEF seen
          <6> QED
            BY <1>3, <5>1, <5>3, <6>1 DEF seen
        <5>6. CASE turned' = [turned EXCEPT !.upto = 0]
          BY <5>1, <5>6
        <5> QED
          BY <5>2, <5>4, <5>5, <5>6
      <4> QED
        BY <4>3, <4>4
    <3>2. CASE ~ok
      <4>1. list' = [list EXCEPT !.error = TRUE] /\ turned' = turned
        BY <1>8, <3>2 DEF ListAnswer
      <4> QED
        BY <1>1, <4>1 DEF ListType, GhostType
    <3> QED
      BY <3>1, <3>2
  <2>3. GhostType'
    BY <1>1, <1>6, <2>2 DEF GhostType
  <2> QED
    BY <1>1, <1>5, <2>1, <2>2, <2>3 DEF AppType, BrowserType, OpenRowType
<1>9. CASE EventsAnswer(r, ok)
  BY <1>1, <1>4, <1>5, <1>6, <1>9
  DEF EventsAnswer, AppType, BrowserType, ListType, OpenRowType, GhostType
<1>10. CASE LoginAnswer(ok)
  <2>1. BrowserType'
    <3>1. CASE Navigate("/sends")
      <4>1. "/sends" \in Paths
        BY DEF Paths
      <4> QED
        BY <3>1, <4>1, NavigateLeads
    <3>2. CASE UNCHANGED <<location, past>>
      BY <3>2 DEF BrowserType
    <3> QED
      BY <1>10, <3>1, <3>2 DEF LoginAnswer
  <2> QED
    BY <1>1, <1>5, <1>6, <1>10, <2>1
    DEF LoginAnswer, AppType, ListType, OpenRowType, GhostType
<1>11. CASE LogoutAnswer
  <2>1. BrowserType'
    <3>1. "/login" \in Paths /\ Navigate("/login")
      BY <1>11 DEF Paths, LogoutAnswer
    <3> QED
      BY <3>1, NavigateLeads
  <2> QED
    BY <1>1, <1>5, <1>6, <1>11, <2>1
    DEF LogoutAnswer, AppType, ListType, OpenRowType, GhostType
<1>12. Rest
  BY <1>1, <1>7, <1>8, <1>9, <1>10, <1>11
<1> QED
  BY <1>5, <1>12

LEMMA ArriveTypes ==
  ASSUME TypeInv, NEW r \in requests, Arrive(r)
  PROVE  TypeInv'
<1>1. /\ Answer(r, r.verdict = "yes") /\ mishaps' = mishaps
      /\ cookie' \in {cookie, 0, r.token}
  BY DEF Arrive
<1> QED
  BY <1>1, AnswerTypes

LEMMA DropTypes ==
  ASSUME TypeInv, NEW r \in requests, Drop(r)
  PROVE  TypeInv'
BY AnswerTypes DEF Drop

LEMMA EffectsTypes ==
  ASSUME TypeInv, Effects
  PROVE  TypeInv'
<1> USE DEF TypeInv
<1> DEFINE entered == rendered.status = "none" \/ rendered.location.path # location.path
           loads == /\ OnSends /\ status = "authenticated"
                    /\ entered \/ ViewChanged \/ rendered.status # status
           new == (IF entered THEN {Asking("session", location.path, FirstView, 0)} ELSE {}) \cup
                  (IF loads THEN {Asking("list", "/sends", view, 0)} ELSE {})
<1>1. /\ view' \in {view, location.search}
      /\ location' \in {location, [location EXCEPT !.search = view]}
      /\ requests' = requests \cup new
      /\ asked' \in {asked, view}
      /\ crossed' \subseteq crossed \cup {"session"}
      /\ list' \in {list, [list EXCEPT !.error = FALSE]}
      /\ selected' \in {selected, 0} /\ events' \in {events, 0}
      /\ UNCHANGED <<rows, live, logins, cookie, past, status, turned, creations, acts, mishaps>>
  BY DEF Effects, server, bounds
<1>2. location.path \in Paths /\ location.search \in Views /\ "/sends" \in Paths /\ view \in Views
  BY DEF BrowserType, AppType, Locations, Paths
<1>3. 0 \in 0..Len(rows)
  BY RowsAreNumbered DEF RowsType
<1>4. \A r \in new : RequestType(r)
  <2>1. RequestType(Asking("session", location.path, FirstView, 0))
    BY <1>2, <1>3, FirstViewIsView, AskingIsRequest
  <2>2. RequestType(Asking("list", "/sends", view, 0))
    BY <1>2, <1>3, AskingIsRequest
  <2> QED
    BY <2>1, <2>2
<1> HIDE DEF new
<1>5. RequestsType'
  <2>1. \A r \in requests' : RequestType(r)
    BY <1>1, <1>4 DEF RequestsType
  <2>2. Len(rows') = Len(rows) /\ logins' = logins
    BY <1>1
  <2> QED
    BY <2>1, <2>2 DEF RequestsType, RequestType
<1>6. RowsType' /\ SessionsType'
  BY <1>1 DEF RowsType, History, SessionsType
<1>7. BrowserType' /\ AppType'
  BY <1>1, <1>2 DEF BrowserType, AppType, Locations
<1>8. ListType' /\ OpenRowType' /\ GhostType'
  <2>1. OpenRowType'
    BY <1>1, <1>3 DEF OpenRowType
  <2>2. ListType'
    BY <1>1 DEF ListType
  <2>3. GhostType'
    BY <1>1, <1>2 DEF GhostType
  <2> QED
    BY <2>1, <2>2, <2>3
<1> QED
  BY <1>5, <1>6, <1>7, <1>8

(* The acts of the admin, reloading apart, touch neither the server nor    *)
(* what the list shows.                                                    *)
ActUnchanged ==
  UNCHANGED <<rows, live, logins, rendered, turned, creations, mishaps, cookie, list, status>>

LEMMA ActsLeave ==
  /\ \A query \in Queries : Search(query) => ActUnchanged
  /\ TurnPage => ActUnchanged
  /\ Back => ActUnchanged
  /\ Login => ActUnchanged
  /\ Logout => ActUnchanged
  /\ \A path \in Paths : Open(path) => ActUnchanged
  /\ \A i \in Shown : Toggle(i) => ActUnchanged
<1>1. ASSUME NEW query \in Queries, Search(query) PROVE ActUnchanged
  BY <1>1 DEF Search, Act, ActUnchanged, server, browser
<1>2. ASSUME TurnPage PROVE ActUnchanged
  BY <1>2 DEF TurnPage, Act, ActUnchanged, server, browser
<1>3. ASSUME Back PROVE ActUnchanged
  BY <1>3 DEF Back, Act, ActUnchanged, server, app
<1>4. ASSUME Login PROVE ActUnchanged
  BY <1>4 DEF Login, Act, ActUnchanged, server, browser, app
<1>5. ASSUME Logout PROVE ActUnchanged
  BY <1>5 DEF Logout, Act, ActUnchanged, server, browser, app
<1>6. ASSUME NEW path \in Paths, Open(path) PROVE ActUnchanged
  BY <1>6 DEF Open, Act, ActUnchanged, server, app
<1>7. ASSUME NEW i \in Shown, Toggle(i) PROVE ActUnchanged
  BY <1>7 DEF Toggle, Act, ActUnchanged, server, browser
<1> QED
  BY <1>1, <1>2, <1>3, <1>4, <1>5, <1>6, <1>7

LEMMA ActTypes ==
  ASSUME TypeInv, ActUnchanged, BrowserType', view' \in Views, asked' = asked,
         crossed' \subseteq crossed \cup {"session", "events"},
         selected' \in 0..Len(rows), events' \in {events, 0},
         requests' = requests \/ \E r : RequestType(r) /\ requests' = requests \cup {r}
  PROVE  TypeInv'
<1> USE DEF TypeInv, ActUnchanged
<1>1. RowsType' /\ SessionsType' /\ ListType'
  BY DEF RowsType, History, SessionsType, ListType
<1>2. AppType' /\ GhostType'
  BY DEF AppType, GhostType
<1>3. OpenRowType'
  <2>1. 0 \in 0..Len(rows)
    BY RowsAreNumbered DEF RowsType
  <2> QED
    BY <2>1 DEF OpenRowType
<1>4. RequestsType'
  <2>1. \A r \in requests' : RequestType(r)
    BY DEF RequestsType
  <2> QED
    BY <2>1 DEF RequestsType, RequestType
<1> QED
  BY <1>1, <1>2, <1>3, <1>4

LEMMA UserTypes ==
  ASSUME TypeInv, User
  PROVE  TypeInv'
<1>1. /\ BrowserType /\ view \in Views /\ selected \in 0..Len(rows) /\ 0 \in 0..Len(rows)
      /\ location.path \in Paths /\ location.search \in Views /\ past \in Seq(Locations)
  BY RowsAreNumbered DEF TypeInv, AppType, OpenRowType, BrowserType, RowsType, Locations
<1>2. "/login" \in Paths /\ "/sends" \in Paths
  BY DEF Paths
<1>3. Shown \subseteq 0..Len(rows)
  <2>1. list.sends \subseteq DOMAIN rows
    BY DEF TypeInv, ListType
  <2>2. DOMAIN rows \subseteq 0..Len(rows)
    BY RowsAreNumbered DEF TypeInv, RowsType
  <2> QED
    BY <2>1, <2>2 DEF Shown
<1>4. ASSUME NEW query \in Queries, Search(query) PROVE TypeInv'
  <2>1. ActUnchanged
    BY <1>4, ActsLeave
  <2>2. UNCHANGED <<location, past, selected, events, requests, asked, crossed>>
    BY <1>4 DEF Search, browser
  <2>3. view' \in Views
    BY <1>4, Bounds DEF Search, Views
  <2>4. BrowserType'
    BY <1>1, <2>2 DEF BrowserType
  <2> QED
    BY <1>1, <2>1, <2>2, <2>3, <2>4, ActTypes
<1>5. ASSUME TurnPage PROVE TypeInv'
  <2>1. ActUnchanged
    BY <1>5, ActsLeave
  <2>2. UNCHANGED <<location, past, selected, events, requests, asked, crossed>>
    BY <1>5 DEF TurnPage, browser
  <2>3. view' \in Views
    <3>1. PICK page \in Neighbours : view' = [view EXCEPT !.page = page]
      BY <1>5 DEF TurnPage
    <3>2. page \in 1..MaxPage
      BY DEF Neighbours
    <3> QED
      BY <1>1, <3>1, <3>2 DEF Views
  <2>4. BrowserType'
    BY <1>1, <2>2 DEF BrowserType
  <2> QED
    BY <1>1, <2>1, <2>2, <2>3, <2>4, ActTypes
<1>6. ASSUME Back PROVE TypeInv'
  <2>1. ActUnchanged
    BY <1>6, ActsLeave
  <2>2. UNCHANGED <<view, selected, events, requests, asked, crossed>>
    BY <1>6 DEF Back, app
  <2>3. BrowserType'
    <3>1. past # <<>> /\ location' = Head(past) /\ past' = Tail(past)
      BY <1>6 DEF Back
    <3> QED
      BY <1>1, <3>1, HeadTailProperties DEF BrowserType
  <2> QED
    BY <1>1, <2>1, <2>2, <2>3, ActTypes
<1>7. ASSUME Login PROVE TypeInv'
  <2>1. ActUnchanged
    BY <1>7, ActsLeave
  <2>2. /\ UNCHANGED <<location, past, view, selected, events, asked>>
        /\ requests' = requests \cup {Asking("login", "/login", FirstView, 0)}
        /\ crossed' \subseteq crossed \cup {"session", "events"}
    BY <1>7 DEF Login, browser, app
  <2>3. RequestType(Asking("login", "/login", FirstView, 0))
    BY <1>1, <1>2, FirstViewIsView, AskingIsRequest
  <2>4. BrowserType'
    BY <1>1, <2>2 DEF BrowserType
  <2> QED
    BY <1>1, <2>1, <2>2, <2>3, <2>4, ActTypes
<1>8. ASSUME Logout PROVE TypeInv'
  <2>1. ActUnchanged
    BY <1>8, ActsLeave
  <2>2. /\ UNCHANGED <<location, past, view, selected, events, asked>>
        /\ requests' = requests \cup {Asking("logout", "/login", FirstView, 0)}
        /\ crossed' \subseteq crossed \cup {"session", "events"}
    BY <1>8 DEF Logout, browser, app
  <2>3. RequestType(Asking("logout", "/login", FirstView, 0))
    BY <1>1, <1>2, FirstViewIsView, AskingIsRequest
  <2>4. BrowserType'
    BY <1>1, <2>2 DEF BrowserType
  <2> QED
    BY <1>1, <2>1, <2>2, <2>3, <2>4, ActTypes
<1>9. ASSUME NEW path \in Paths, Open(path) PROVE TypeInv'
  <2>1. ActUnchanged
    BY <1>9, ActsLeave
  <2>2. UNCHANGED <<view, selected, events, requests, asked, crossed>> /\ Navigate(path)
    BY <1>9 DEF Open, app
  <2>3. BrowserType'
    BY <1>1, <2>2, NavigateLeads
  <2> QED
    BY <1>1, <2>1, <2>2, <2>3, ActTypes
<1>10. ASSUME NEW i \in Shown, Toggle(i) PROVE TypeInv'
  <2>1. ActUnchanged
    BY <1>10, ActsLeave
  <2>2. UNCHANGED <<location, past, view, asked>>
    BY <1>10 DEF Toggle, browser
  <2>3. BrowserType'
    BY <1>1, <2>2 DEF BrowserType
  <2>4. CASE selected = i
    BY <1>1, <1>10, <2>1, <2>2, <2>3, <2>4, ActTypes DEF Toggle
  <2>5. CASE selected # i
    <3>1. i \in 0..Len(rows)
      BY <1>3
    <3>2. /\ selected' = i /\ events' = 0
          /\ crossed' \subseteq crossed \cup {"session", "events"}
          /\ requests' = requests \cup {Asking("events", "/sends", FirstView, i)}
      BY <1>10, <2>5 DEF Toggle, OpenRow
    <3>3. RequestType(Asking("events", "/sends", FirstView, i))
      BY <1>2, <3>1, FirstViewIsView, AskingIsRequest
    <3> QED
      BY <1>1, <2>1, <2>2, <2>3, <3>1, <3>2, <3>3, ActTypes
  <2> QED
    BY <2>4, <2>5
<1>11. ASSUME Reload PROVE TypeInv'
  <2>1. /\ UNCHANGED <<rows, live, logins, cookie, location, past, asked, crossed, turned, mishaps>>
        /\ status' = "loading" /\ view' = location.search /\ list' = NoList
        /\ selected' = 0 /\ events' = 0 /\ requests' = {}
    BY <1>11 DEF Reload, Loading, server
  <2>2. RowsType' /\ SessionsType' /\ BrowserType' /\ GhostType'
    BY <2>1 DEF TypeInv, RowsType, History, SessionsType, BrowserType, GhostType
  <2>3. AppType' /\ OpenRowType' /\ RequestsType'
    BY <1>1, <2>1 DEF AppType, OpenRowType, RequestsType
  <2>4. ListType'
    BY <2>1, FirstViewIsView DEF ListType, NoList
  <2> QED
    BY <2>2, <2>3, <2>4 DEF TypeInv
<1> QED
  BY <1>4, <1>5, <1>6, <1>7, <1>8, <1>9, <1>10, <1>11 DEF User

LEMMA EndSessionTypes ==
  ASSUME TypeInv, EndSession
  PROVE  TypeInv'
<1> USE DEF TypeInv, EndSession, browser, app
<1>1. RowsType' /\ SessionsType' /\ BrowserType' /\ AppType' /\ ListType' /\ OpenRowType'
  BY DEF RowsType, History, SessionsType, BrowserType, AppType, ListType, OpenRowType
<1>2. RequestsType'
  BY DEF RequestsType, RequestType
<1>3. GhostType'
  BY DEF GhostType
<1> QED
  BY <1>1, <1>2, <1>3

LEMMA StutterTypes ==
  ASSUME TypeInv, UNCHANGED vars
  PROVE  TypeInv'
<1> USE DEF TypeInv, vars
<1>1. RowsType' /\ SessionsType' /\ BrowserType' /\ AppType' /\ ListType' /\ OpenRowType'
  BY DEF RowsType, History, SessionsType, BrowserType, AppType, ListType, OpenRowType
<1>2. RequestsType'
  BY DEF RequestsType, RequestType
<1>3. GhostType'
  BY DEF GhostType
<1> QED
  BY <1>1, <1>2, <1>3

LEMMA InitTypes ==
  ASSUME Init
  PROVE  TypeInv
<1> USE DEF Init, TypeInv
<1>1. RowsType /\ Len(rows) \in Nat
  <2>1. /\ InitialRows \subseteq Seq([at : Nat, to : Recipients])
        /\ \A table \in InitialRows :
             /\ Len(table) <= MaxSends
             /\ \A i, j \in DOMAIN table : i < j => table[i].at <= table[j].at
    BY AdminTabAssumption
  <2>2. History /\ Len(rows) <= MaxSends
    BY <2>1 DEF History
  <2> QED
    BY <2>2, RowsAreNumbered DEF RowsType
<1>2. SessionsType
  BY Bounds DEF SessionsType
<1>3. location \in Locations
  BY FirstViewIsView DEF Locations, Paths
<1>4. BrowserType /\ AppType
  BY <1>3, EmptySeq DEF BrowserType, AppType, Locations
<1>5. ListType /\ OpenRowType /\ RequestsType /\ GhostType
  BY <1>1, FirstViewIsView DEF ListType, NoList, OpenRowType, RequestsType, GhostType
<1> QED
  BY <1>1, <1>2, <1>4, <1>5

(* Types are preserved by every step.                                      *)
THEOREM NextTypes ==
  ASSUME TypeInv, [Next]_vars
  PROVE  TypeInv'
BY CreateSendTypes, JudgeTypes, ArriveTypes, DropTypes, EffectsTypes, UserTypes, EndSessionTypes,
   StutterTypes DEF Next, Network

-----------------------------------------------------------------------------
(***************************************************************************)
(* The kinds of steps, by what they touch in the tab.                      *)
(***************************************************************************)
tab == <<location, past, status, view, list, selected, events, rendered, requests, asked,
         crossed, turned>>

Move ==
  (\E query \in Queries : Search(query)) \/ TurnPage \/ Back \/ \E path \in Paths : Open(path)

Answered == \E r \in requests : \E ok \in BOOLEAN : Answer(r, ok)

Judged == \E r \in requests : Judge(r)

Toggled == \E i \in Shown : Toggle(i)

LEMMA StepKinds ==
  ASSUME [Next]_vars
  PROVE  \/ UNCHANGED tab
         \/ Judged \/ Answered \/ Effects \/ Move \/ Login \/ Logout \/ Toggled \/ Reload
<1>1. CASE CreateSend
  BY <1>1 DEF CreateSend, tab, browser, app
<1>2. CASE EndSession
  BY <1>2 DEF EndSession, tab, browser, app
<1>3. CASE UNCHANGED vars
  BY <1>3 DEF vars, tab
<1>4. CASE Network
  BY <1>4 DEF Network, Arrive, Judged, Answered
<1>5. CASE \E r \in requests : Drop(r)
  BY <1>5 DEF Drop, Answered
<1>6. CASE User
  BY <1>6 DEF User, Move, Toggled
<1> QED
  BY <1>1, <1>2, <1>3, <1>4, <1>5, <1>6 DEF Next

Rendered == rendered = Dependencies

LEMMA RenderedFields ==
  Rendered =>
    rendered.location = location /\ rendered.view = view /\ rendered.status = status
BY DEF Rendered, Dependencies

LEMMA MoveLeaves ==
  ASSUME Move
  PROVE  /\ ActUnchanged /\ Rendered
         /\ UNCHANGED <<selected, events, requests, asked, crossed>>
<1>1. ActUnchanged
  BY ActsLeave DEF Move
<1>2. Rendered /\ UNCHANGED <<selected, events, requests, asked, crossed>>
  BY DEF Move, Search, TurnPage, Back, Open, Act, Settled, Rendered, app
<1> QED
  BY <1>1, <1>2

LEMMA JudgeKeepsTab ==
  ASSUME TypeInv, NEW r \in requests, Judge(r)
  PROVE  /\ UNCHANGED <<location, past, status, view, list, selected, events, rendered, asked,
                        crossed, turned, cookie, rows, mishaps>>
         /\ r.verdict = "none"
         /\ \E new \in Request :
              /\ requests' = (requests \ {r}) \cup {new}
              /\ new.kind = r.kind /\ new.path = r.path /\ new.view = r.view
              /\ new.send = r.send /\ new.verdict # "none"
<1>1. UNCHANGED <<location, past, status, view, list, selected, events, rendered, asked, crossed,
                  turned, cookie, rows, mishaps>> /\ r.verdict = "none"
  BY DEF Judge, browser, app, bounds
<1>2. PICK ok \in BOOLEAN :
        /\ r.kind = "login" /\ ok => logins < MaxLogins
        /\ logins' = IF r.kind = "login" /\ ok THEN logins + 1 ELSE logins
        /\ requests' = (requests \ {r}) \cup
             {[r EXCEPT !.verdict = IF ok THEN "yes" ELSE "no",
                        !.token = IF r.kind = "login" /\ ok THEN logins + 1 ELSE @]}
  BY DEF Judge
<1>3. r \in Request /\ logins \in Nat
  BY Bounds DEF TypeInv, RequestsType, RequestType, SessionsType
<1>4. PICK verdict \in {"yes", "no"}, token \in 0..MaxLogins :
        requests' = (requests \ {r}) \cup {[r EXCEPT !.verdict = verdict, !.token = token]}
  <2> DEFINE verdict == IF ok THEN "yes" ELSE "no"
             token == IF r.kind = "login" /\ ok THEN logins + 1 ELSE r.token
  <2>1. verdict \in {"yes", "no"}
    OBVIOUS
  <2>2. token \in 0..MaxLogins
    BY <1>2, <1>3, Bounds DEF Request
  <2>3. requests' = (requests \ {r}) \cup {[r EXCEPT !.verdict = verdict, !.token = token]}
    BY <1>2, <1>3 DEF Request
  <2> HIDE DEF verdict, token
  <2> QED
    BY <2>1, <2>2, <2>3
<1>5. PICK new : new = [r EXCEPT !.verdict = verdict, !.token = token]
  OBVIOUS
<1>6. /\ new \in Request /\ new.kind = r.kind /\ new.path = r.path /\ new.view = r.view
      /\ new.send = r.send /\ new.verdict # "none"
  BY <1>3, <1>5 DEF Request
<1> QED
  BY <1>1, <1>4, <1>5, <1>6

-----------------------------------------------------------------------------
(***************************************************************************)
(* What a rendered tab shows: the location agrees with the view, and the   *)
(* last view rendered with a session on /sends is the one last asked for,  *)
(* until its list arrived or failed.                                       *)
(***************************************************************************)
SettledInv == Rendered /\ OnSends => location.search = view

LoadedInv ==
  rendered.status = "authenticated" /\ rendered.location.path = "/sends" =>
    /\ asked = rendered.view
    /\ InFlight({"list"}) \/ list.loaded \/ list.error

LEMMA NextSettled ==
  ASSUME TypeInv, SettledInv, [Next]_vars
  PROVE  SettledInv'
<1> SUFFICES ASSUME Rendered', OnSends' PROVE location'.search = view'
  BY DEF SettledInv
<1>1. rendered'.location = location' /\ rendered'.view = view' /\ rendered'.status = status'
  BY DEF Rendered, Dependencies
<1>2. ASSUME rendered' = rendered, Rendered PROVE location'.search = view'
  <2>1. location' = location /\ view' = view
    BY <1>1, <1>2, RenderedFields
  <2> QED
    BY <1>2, <2>1 DEF SettledInv, OnSends
<1>3. CASE UNCHANGED tab
  BY <1>3 DEF tab, SettledInv, OnSends, Rendered, Dependencies
<1>4. CASE Judged
  <2>1. UNCHANGED <<location, view, status, rendered>>
    BY <1>4 DEF Judged, Judge, browser, app
  <2> QED
    BY <2>1 DEF SettledInv, OnSends, Rendered, Dependencies
<1>5. CASE Answered
  BY <1>2, <1>5 DEF Answered, Answer, Settled, Rendered
<1>6. CASE Effects
  <2>1. rendered'.location = location /\ rendered'.view = view
    BY <1>6 DEF Effects, Dependencies
  <2>2. location' = location /\ view' = view /\ OnSends
    BY <1>1, <2>1 DEF OnSends
  <2>3. location' = [location EXCEPT !.search = view]
    BY <1>6, <2>2 DEF Effects
  <2>4. location \in Locations
    BY DEF TypeInv, BrowserType
  <2>5. location'.search = view
    BY <2>3, <2>4 DEF Locations
  <2> QED
    BY <2>2, <2>5
<1>7. CASE Move
  BY <1>2, <1>7, MoveLeaves DEF ActUnchanged
<1>8. CASE Login \/ Logout
  BY <1>2, <1>8 DEF Login, Logout, Act, Settled, Rendered
<1>9. CASE Toggled
  BY <1>2, <1>9 DEF Toggled, Toggle, Act, Settled, Rendered
<1>10. CASE Reload
  <2>1. rendered'.status = "none" /\ status' = "loading"
    BY <1>10 DEF Reload, Loading
  <2> QED
    BY <1>1, <2>1
<1> QED
  BY <1>3, <1>4, <1>5, <1>6, <1>7, <1>8, <1>9, <1>10, StepKinds

LEMMA NextLoaded ==
  ASSUME TypeInv, LoadedInv, [Next]_vars
  PROVE  LoadedInv'
<1> SUFFICES ASSUME rendered'.status = "authenticated", rendered'.location.path = "/sends"
             PROVE  asked' = rendered'.view /\ (InFlight({"list"})' \/ list'.loaded \/ list'.error)
  BY DEF LoadedInv
<1>1. requests \subseteq Request
  BY DEF TypeInv, RequestsType, RequestType
<1>2. ASSUME UNCHANGED <<rendered, asked, list>>, requests \subseteq requests'
      PROVE  asked' = rendered'.view /\ (InFlight({"list"})' \/ list'.loaded \/ list'.error)
  BY <1>2 DEF LoadedInv, InFlight
<1>3. CASE UNCHANGED tab
  BY <1>2, <1>3 DEF tab
<1>4. CASE Judged
  <2>1. PICK r \in requests : Judge(r)
    BY <1>4 DEF Judged
  <2>2. UNCHANGED <<rendered, asked, list>>
    BY <1>1, <2>1, JudgeKeepsTab
  <2>3. PICK new \in Request : requests' = (requests \ {r}) \cup {new} /\ new.kind = r.kind
    BY <1>1, <2>1, JudgeKeepsTab
  <2>4. InFlight({"list"}) => InFlight({"list"})'
    BY <2>3 DEF InFlight
  <2> QED
    BY <2>2, <2>4 DEF LoadedInv
<1>5. CASE Answered
  <2>1. PICK r \in requests, ok \in BOOLEAN : Answer(r, ok)
    BY <1>5 DEF Answered
  <2>2. UNCHANGED <<rendered, asked>> /\ requests' = requests \ {r}
    BY <2>1 DEF Answer
  <2>3. CASE r.kind = "list"
    <3>1. list' = [list EXCEPT !.error = TRUE] \/ list'.loaded
      BY <2>1, <2>3 DEF Answer, ListAnswer
    <3>2. list'.error \/ list'.loaded
      BY <3>1 DEF TypeInv, ListType
    <3> QED
      BY <2>2, <3>2 DEF LoadedInv
  <2>4. CASE r.kind # "list"
    <3>1. list' = list
      BY <2>1, <2>4
      DEF Answer, SessionAnswer, EventsAnswer, LoginAnswer, LogoutAnswer
    <3>2. InFlight({"list"}) => InFlight({"list"})'
      BY <2>2, <2>4 DEF InFlight
    <3> QED
      BY <2>2, <3>1, <3>2 DEF LoadedInv
  <2> QED
    BY <2>3, <2>4
<1>6. CASE Effects
  <2> DEFINE entered == rendered.status = "none" \/ rendered.location.path # location.path
             loads == /\ OnSends /\ status = "authenticated"
                      /\ entered \/ ViewChanged \/ rendered.status # status
  <2>1. /\ rendered' = Dependencies /\ requests \subseteq requests'
        /\ loads => Asking("list", "/sends", view, 0) \in requests' /\ asked' = view
        /\ ~loads => asked' = asked /\ list' = list
    BY <1>6 DEF Effects
  <2>2. rendered'.view = view /\ status = "authenticated" /\ OnSends
    BY <2>1 DEF Dependencies, OnSends
  <2>3. CASE loads
    <3>1. Asking("list", "/sends", view, 0).kind = "list"
      BY DEF Asking
    <3>2. InFlight({"list"})'
      BY <2>1, <2>3, <3>1 DEF InFlight
    <3> QED
      BY <2>1, <2>2, <2>3, <3>2
  <2>4. CASE ~loads
    <3>1. rendered.status = status /\ rendered.view = view /\ rendered.location.path = "/sends"
      BY <2>2, <2>4 DEF ViewChanged, OnSends
    <3>2. InFlight({"list"}) => InFlight({"list"})'
      BY <2>1 DEF InFlight
    <3> QED
      BY <2>1, <2>2, <2>4, <3>1, <3>2 DEF LoadedInv
  <2> QED
    BY <2>3, <2>4
<1>7. CASE Move
  BY <1>2, <1>7, MoveLeaves DEF ActUnchanged
<1>8. CASE Login \/ Logout
  BY <1>2, <1>8 DEF Login, Logout, Act, app
<1>9. CASE Toggled
  BY <1>2, <1>9 DEF Toggled, Toggle, Act, OpenRow
<1>10. CASE Reload
  BY <1>10 DEF Reload, Loading
<1> QED
  BY <1>3, <1>4, <1>5, <1>6, <1>7, <1>8, <1>9, <1>10, StepKinds

-----------------------------------------------------------------------------
(***************************************************************************)
(* The events of the open row.                                             *)
(***************************************************************************)
EventsInv ==
  "events" \notin crossed /\ selected # 0 =>
    /\ events \in {0, selected}
    /\ \A r \in requests : r.kind = "events" => r.send = selected

LEMMA NextEvents ==
  ASSUME TypeInv, EventsInv, [Next]_vars
  PROVE  EventsInv'
<1> SUFFICES ASSUME "events" \notin crossed', selected' # 0
             PROVE  /\ events' \in {0, selected'}
                    /\ \A r \in requests' : r.kind = "events" => r.send = selected'
  BY DEF EventsInv
<1>1. requests \subseteq Request
  BY DEF TypeInv, RequestsType, RequestType
<1>2. ASSUME crossed \subseteq crossed', selected' = selected, events' = events,
             \A r \in requests' : r.kind = "events" => r \in requests
      PROVE  /\ events' \in {0, selected'}
             /\ \A r \in requests' : r.kind = "events" => r.send = selected'
  BY <1>2 DEF EventsInv
<1>3. CASE UNCHANGED tab
  BY <1>2, <1>3 DEF tab
<1>4. CASE Judged
  <2>1. PICK r \in requests : Judge(r)
    BY <1>4 DEF Judged
  <2>2. UNCHANGED <<crossed, selected, events>>
    BY <1>1, <2>1, JudgeKeepsTab
  <2>3. PICK new \in Request :
          requests' = (requests \ {r}) \cup {new} /\ new.kind = r.kind /\ new.send = r.send
    BY <1>1, <2>1, JudgeKeepsTab
  <2> QED
    BY <2>2, <2>3 DEF EventsInv
<1>5. CASE Answered
  <2>1. PICK r \in requests, ok \in BOOLEAN : Answer(r, ok)
    BY <1>5 DEF Answered
  <2>2. requests' = requests \ {r} /\ UNCHANGED <<selected, crossed>>
    BY <2>1
    DEF Answer, SessionAnswer, ListAnswer, EventsAnswer, LoginAnswer, LogoutAnswer
  <2>3. \/ events' = events
        \/ r.kind = "events" /\ events' = r.send
    BY <2>1
    DEF Answer, SessionAnswer, ListAnswer, EventsAnswer, LoginAnswer, LogoutAnswer
  <2> QED
    BY <2>2, <2>3 DEF EventsInv
<1>6. CASE Effects
  <2>1. /\ selected' = selected \/ selected' = 0
        /\ selected' = selected => events' = events \/ selected = 0
        /\ crossed \subseteq crossed'
    BY <1>6 DEF Effects, Orphaned
  <2>2. selected' = selected /\ events' = events
    BY <2>1
  <2>3. \A r \in requests' : r.kind = "events" => r \in requests
    BY <1>6 DEF Effects, Asking
  <2> QED
    BY <1>2, <2>1, <2>2, <2>3
<1>7. CASE Move
  BY <1>2, <1>7, MoveLeaves
<1>8. CASE Login \/ Logout
  <2>1. crossed \subseteq crossed' /\ selected' = selected /\ events' = events
    BY <1>8 DEF Login, Logout, app
  <2>2. \A r \in requests' : r.kind = "events" => r \in requests
    BY <1>8 DEF Login, Logout, Asking
  <2> QED
    BY <1>2, <2>1, <2>2
<1>9. CASE Toggled
  <2>1. PICK i \in Shown : Toggle(i)
    BY <1>9 DEF Toggled
  <2>2. CASE selected = i
    BY <2>1, <2>2 DEF Toggle
  <2>3. CASE selected # i
    <3>1. /\ selected' = i /\ events' = 0
          /\ crossed' = IF InFlight({"events"}) THEN crossed \cup {"events"} ELSE crossed
          /\ requests' = requests \cup {Asking("events", "/sends", FirstView, i)}
      BY <2>1, <2>3 DEF Toggle, OpenRow
    <3>2. ~InFlight({"events"})
      BY <3>1
    <3>3. \A r \in requests : r.kind # "events"
      BY <3>2 DEF InFlight
    <3>4. Asking("events", "/sends", FirstView, i).send = i
      BY DEF Asking
    <3> QED
      BY <3>1, <3>3, <3>4
  <2> QED
    BY <2>2, <2>3
<1>10. CASE Reload
  BY <1>10 DEF Reload, Loading
<1> QED
  BY <1>3, <1>4, <1>5, <1>6, <1>7, <1>8, <1>9, <1>10, StepKinds

-----------------------------------------------------------------------------
(***************************************************************************)
(* Turning the pages: what the pages up to the current one reach has been  *)
(* seen, and the last page reaches everything.                             *)
(***************************************************************************)
Due(v, i) == Matches(i, v.query) /\ Alone(i) /\ Reached(v, i)

TurnInv ==
  turned.upto > 0 =>
    /\ list.loaded => turned.view = list.view
    /\ \A i \in 1..turned.upto : Due(turned.view, i) => i \in turned.seen

LEMMA DueStays ==
  ASSUME rows' = rows, NEW v, NEW i
  PROVE  /\ Due(v, i)' <=> Due(v, i)
         /\ Matches(i, v.query)' <=> Matches(i, v.query)
         /\ Alone(i)' <=> Alone(i)
<1>1. Matches(i, v.query)' <=> Matches(i, v.query)
  BY DEF Matches
<1>2. Alone(i)' <=> Alone(i)
  BY DEF Alone
<1>3. HistoryPage(v)' = HistoryPage(v)
  BY DEF HistoryPage, PageAfter, PageBehind, Behind, Matches
<1>4. Reached(v, i)' <=> Reached(v, i)
  BY <1>3 DEF Reached
<1> QED
  BY <1>1, <1>2, <1>4 DEF Due

LEMMA AloneShrinks ==
  ASSUME History, Grows, NEW i \in DOMAIN rows
  PROVE  /\ Alone(i)' => Alone(i)
         /\ \A query : Matches(i, query)' <=> Matches(i, query)
<1>1. Alone(i)' => Alone(i)
  BY RowsStay DEF Alone
<1>2. \A query : Matches(i, query)' <=> Matches(i, query)
  BY RowsStay DEF Matches
<1> QED
  BY <1>1, <1>2

LEMMA DueShrinks ==
  ASSUME History, History', Grows, NEW v \in Views, NEW i \in DOMAIN rows, Due(v, i)'
  PROVE  Due(v, i)
<1>1. Matches(i, v.query)' /\ Alone(i)' /\ Reached(v, i)'
  BY DEF Due
<1>2. Matches(i, v.query) /\ Alone(i)
  BY <1>1, AloneShrinks
<1>3. Reached(v, i)
  <2>1. \E query : \E p \in Positive : v = View(query, p)
    <3>1. v.page \in Positive /\ v = View(v.query, v.page)
      BY ViewsAreNumbered
    <3> QED
      BY <3>1
  <2> PICK query : \E p \in Positive : v = View(query, p)
    BY <2>1
  <2> PICK p \in Positive : v = View(query, p)
    OBVIOUS
  <2>2. Reached(View(query, p), i)'
    BY <1>1
  <2> QED
    BY <2>2, ReachShrinks
<1> QED
  BY <1>2, <1>3 DEF Due

(* What a page, loaded after those before it, adds to what has been seen.  *)
LEMMA PageShowsDue ==
  ASSUME History, NEW v \in Views, NEW i \in DOMAIN rows, Due(v, i)
  PROVE  \/ i \in HistoryPage(v).sends
         \/ v.page # 1 /\ Due([v EXCEPT !.page = @ - 1], i)
<1>1. Matches(i, v.query) /\ Alone(i) /\ Reached(v, i)
  BY DEF Due
<1>2. /\ v.page \in Positive /\ v = View(v.query, v.page)
      /\ v.page = 1 \/ v.page - 1 \in Positive
      /\ (v.page - 1) + 1 = v.page
      /\ [v EXCEPT !.page = @ - 1] = View(v.query, v.page - 1)
  BY ViewsAreNumbered
<1>3. CASE v.page = 1
  <2>1. v = View(v.query, 1)
    BY <1>2, <1>3
  <2>2. Reached(View(v.query, 1), i)
    BY <1>1, <2>1
  <2>3. i \in HistoryPage(View(v.query, 1)).sends
    BY <1>1, <2>2, FirstPageShows
  <2> QED
    BY <2>1, <2>3
<1>4. CASE v.page # 1
  <2> PICK p \in Positive : p = v.page - 1
    BY <1>2, <1>4
  <2>1. v = View(v.query, p + 1) /\ [v EXCEPT !.page = @ - 1] = View(v.query, p)
    BY <1>2
  <2>2. Reached(View(v.query, p + 1), i)
    BY <1>1, <2>1
  <2>3. CASE Reached(View(v.query, p), i)
    <3>1. Due(View(v.query, p), i)
      BY <1>1, <2>3 DEF Due, View
    <3> QED
      BY <1>4, <2>1, <3>1
  <2>4. CASE ~Reached(View(v.query, p), i)
    <3>1. i \in HistoryPage(View(v.query, p + 1)).sends
      BY <1>1, <2>2, <2>4, NextPageShows
    <3> QED
      BY <2>1, <3>1
  <2> QED
    BY <2>3, <2>4
<1> QED
  BY <1>3, <1>4

LEMMA TurnsOrGrows ==
  ASSUME [Next]_vars
  PROVE  \/ CreateSend
         \/ rows' = rows /\ UNCHANGED <<turned, list>>
         \/ /\ rows' = rows /\ turned' = turned
            /\ list' = NoList \/ \E error \in BOOLEAN : list' = [list EXCEPT !.error = error]
         \/ /\ rows' = rows
            /\ \E r \in requests :
                 LET page == HistoryPage(r.view) IN
                 /\ Turn(r.view, page)
                 /\ list' = [view |-> r.view, sends |-> page.sends, more |-> page.more,
                             error |-> list.error, loaded |-> TRUE]
<1>1. CASE CreateSend
  BY <1>1
<1>2. CASE EndSession
  BY <1>2 DEF EndSession, app
<1>3. CASE UNCHANGED vars
  BY <1>3 DEF vars
<1>4. CASE Judged
  BY <1>4 DEF Judged, Judge, app
<1>5. CASE Answered
  <2>1. PICK r \in requests, ok \in BOOLEAN : Answer(r, ok)
    BY <1>5 DEF Answered
  <2>2. rows' = rows
    BY <2>1 DEF Answer
  <2>3. CASE ListAnswer(r, ok) /\ ok
    BY <2>2, <2>3 DEF ListAnswer
  <2>4. CASE ListAnswer(r, ok) /\ ~ok
    BY <2>2, <2>4 DEF ListAnswer
  <2>5. CASE SessionAnswer(r, ok) \/ EventsAnswer(r, ok) \/ LoginAnswer(ok) \/ LogoutAnswer
    BY <2>2, <2>5 DEF SessionAnswer, EventsAnswer, LoginAnswer, LogoutAnswer
  <2> QED
    BY <2>1, <2>3, <2>4, <2>5 DEF Answer
<1>6. CASE Effects
  BY <1>6 DEF Effects, server
<1>7. CASE Move
  BY <1>7, MoveLeaves DEF ActUnchanged
<1>8. CASE Login \/ Logout \/ Toggled
  BY <1>8, ActsLeave DEF ActUnchanged, Toggled
<1>9. CASE Reload
  BY <1>9 DEF Reload, Loading, server
<1>10. CASE Network
  BY <1>4, <1>5, <1>10 DEF Network, Arrive, Judged, Answered
<1>11. CASE \E r \in requests : Drop(r)
  BY <1>5, <1>11 DEF Drop, Answered
<1>12. CASE User
  BY <1>7, <1>8, <1>9, <1>12 DEF User, Move, Toggled
<1> QED
  BY <1>1, <1>2, <1>3, <1>6, <1>10, <1>11, <1>12 DEF Next

SkipInv == TurnInv /\ NoSendSkipped

LEMMA NextSkips ==
  ASSUME TypeInv, TypeInv', SkipInv, [Next]_vars
  PROVE  SkipInv'
<1>1. History /\ History' /\ DOMAIN rows = 1..Len(rows) /\ Len(rows) \in Nat
  BY RowsAreNumbered DEF TypeInv, RowsType
<1>2. /\ turned \in [view : Views, upto : 0..Len(rows), seen : SUBSET DOMAIN rows]
      /\ turned.view \in Views /\ 1..turned.upto \subseteq DOMAIN rows
  BY <1>1 DEF TypeInv, GhostType
<1>3. /\ list \in [view : Views, sends : SUBSET DOMAIN rows, more : BOOLEAN, error : BOOLEAN,
                   loaded : BOOLEAN]
  BY DEF TypeInv, ListType
<1>4. PICK v \in Views : v = turned.view
  BY <1>2
<1>5. TurnInv /\ NoSendSkipped
  BY DEF SkipInv
<1>6. CASE CreateSend
  <2>1. Grows /\ UNCHANGED <<list, turned>>
    BY <1>6, CreateSendTypes DEF CreateSend, app
  <2>2. TurnInv'
    <3> SUFFICES ASSUME turned.upto > 0
                 PROVE  /\ list.loaded => turned.view = list.view
                        /\ \A i \in 1..turned.upto : Due(v, i)' => i \in turned.seen
      BY <1>4, <2>1 DEF TurnInv
    <3>1. list.loaded => turned.view = list.view
      BY <1>5 DEF TurnInv
    <3>2. ASSUME NEW i \in 1..turned.upto, Due(v, i)' PROVE i \in turned.seen
      <4>1. i \in DOMAIN rows
        BY <1>2
      <4>2. Due(v, i)
        BY <1>1, <2>1, <3>2, <4>1, DueShrinks
      <4> QED
        BY <1>4, <1>5, <4>2 DEF TurnInv
    <3> QED
      BY <3>1, <3>2
  <2>3. NoSendSkipped'
    <3> SUFFICES ASSUME list.loaded, turned.upto > 0, turned.view = list.view, ~list.more,
                        NEW i \in 1..turned.upto, Matches(i, v.query)', Alone(i)'
                 PROVE  i \in turned.seen
      BY <1>4, <2>1 DEF NoSendSkipped
    <3>1. i \in DOMAIN rows
      BY <1>2
    <3>2. Matches(i, v.query) /\ Alone(i)
      BY <1>1, <2>1, <3>1, AloneShrinks
    <3> QED
      BY <1>4, <1>5, <3>2 DEF NoSendSkipped
  <2> QED
    BY <2>2, <2>3 DEF SkipInv
<1>7. ASSUME rows' = rows, turned' = turned,
             list'.loaded => list.loaded /\ list'.view = list.view /\ list'.more = list.more
      PROVE  SkipInv'
  <2>1. TurnInv'
    <3> SUFFICES ASSUME turned.upto > 0
                 PROVE  /\ list'.loaded => turned.view = list'.view
                        /\ \A i \in 1..turned.upto : Due(v, i)' => i \in turned.seen
      BY <1>4, <1>7 DEF TurnInv
    <3>1. ASSUME NEW i \in 1..turned.upto, Due(v, i)' PROVE i \in turned.seen
      <4>1. Due(v, i)
        BY <1>7, <3>1, DueStays
      <4> QED
        BY <1>4, <1>5, <4>1 DEF TurnInv
    <3>2. list'.loaded => turned.view = list'.view
      BY <1>5, <1>7 DEF TurnInv
    <3> QED
      BY <3>1, <3>2
  <2>2. NoSendSkipped'
    <3> SUFFICES ASSUME list'.loaded, turned.upto > 0, turned.view = list'.view, ~list'.more,
                        NEW i \in 1..turned.upto, Matches(i, v.query)', Alone(i)'
                 PROVE  i \in turned.seen
      BY <1>4, <1>7 DEF NoSendSkipped
    <3>1. Matches(i, v.query) /\ Alone(i)
      BY <1>7, DueStays
    <3>2. list.loaded /\ turned.view = list.view /\ ~list.more
      BY <1>7
    <3> QED
      BY <1>4, <1>5, <3>1, <3>2 DEF NoSendSkipped
  <2> QED
    BY <2>1, <2>2 DEF SkipInv
<1>8. ASSUME rows' = rows, NEW r \in requests,
             Turn(r.view, HistoryPage(r.view)),
             list' = [view |-> r.view, sends |-> HistoryPage(r.view).sends,
                      more |-> HistoryPage(r.view).more, error |-> list.error, loaded |-> TRUE]
      PROVE  SkipInv'
  <2>1. PICK w \in Views : w = r.view
    BY DEF TypeInv, RequestsType, RequestType, Request
  <2> DEFINE page == HistoryPage(w)
  <2>2. list'.loaded /\ list'.view = w /\ list'.more = page.more
    BY <1>8, <2>1
  <2>3. Turn(w, page)
    BY <1>8, <2>1
  <2>4. turned'.upto > 0 =>
          /\ turned'.view = w
          /\ \A i \in 1..turned'.upto : Due(w, i) => i \in turned'.seen
    <3>1. CASE w.page = 1
      <4>1. turned' = [view |-> w, upto |-> Len(rows), seen |-> page.sends]
        BY <2>3, <3>1 DEF Turn
      <4>2. ASSUME NEW i \in 1..Len(rows), Due(w, i) PROVE i \in page.sends
        BY <1>1, <3>1, <4>2, PageShowsDue
      <4> QED
        BY <4>1, <4>2
    <3>2. CASE w.page # 1 /\ turned.view \in {w, [w EXCEPT !.page = @ - 1]} /\ turned.upto > 0
      <4>1. turned' = [turned EXCEPT !.view = w, !.seen = @ \cup page.sends]
        BY <2>3, <3>2 DEF Turn
      <4>2. /\ turned'.view = w /\ turned'.upto = turned.upto
            /\ turned'.seen = turned.seen \cup page.sends
        BY <1>2, <4>1
      <4>3. ASSUME NEW i \in 1..turned.upto, Due(w, i) PROVE i \in turned.seen \cup page.sends
        <5>1. i \in DOMAIN rows
          BY <1>2
        <5>2. i \in page.sends \/ Due([w EXCEPT !.page = @ - 1], i)
          BY <1>1, <4>3, <5>1, PageShowsDue
        <5>3. \/ i \in page.sends
              \/ Due(turned.view, i)
          BY <3>2, <4>3, <5>2
        <5> QED
          BY <1>5, <3>2, <5>3 DEF TurnInv
      <4> QED
        BY <4>2, <4>3
    <3>3. CASE w.page # 1 /\ ~(turned.view \in {w, [w EXCEPT !.page = @ - 1]} /\ turned.upto > 0)
      <4>1. turned' = [turned EXCEPT !.upto = 0]
        BY <2>3, <3>3 DEF Turn
      <4> QED
        BY <1>2, <4>1
    <3> QED
      BY <3>1, <3>2, <3>3
  <2>5. TurnInv'
    <3> SUFFICES ASSUME turned'.upto > 0
                 PROVE  /\ turned'.view = list'.view
                        /\ \A i \in 1..turned'.upto : Due(w, i)' => i \in turned'.seen
      BY <2>4 DEF TurnInv
    <3>1. turned'.view = list'.view
      BY <2>2, <2>4
    <3>2. ASSUME NEW i \in 1..turned'.upto, Due(w, i)' PROVE i \in turned'.seen
      BY <1>8, <2>4, <3>2, DueStays
    <3> QED
      BY <3>1, <3>2
  <2>6. NoSendSkipped'
    <3> SUFFICES ASSUME turned'.upto > 0, turned'.view = list'.view, ~list'.more,
                        NEW i \in 1..turned'.upto, Matches(i, w.query)', Alone(i)'
                 PROVE  i \in turned'.seen
      BY <2>2 DEF NoSendSkipped
    <3>2. Matches(i, w.query) /\ Alone(i)
      BY <1>8, DueStays
    <3>3. Reached(w, i)
      BY <2>2 DEF Reached
    <3> QED
      BY <2>4, <3>2, <3>3 DEF Due
  <2> QED
    BY <2>5, <2>6 DEF SkipInv
<1>9. CASE rows' = rows /\ UNCHANGED <<turned, list>>
  BY <1>7, <1>9
<1>10. CASE /\ rows' = rows /\ turned' = turned
            /\ list' = NoList \/ \E error \in BOOLEAN : list' = [list EXCEPT !.error = error]
  <2>1. list'.loaded => list.loaded /\ list'.view = list.view /\ list'.more = list.more
    BY <1>3, <1>10 DEF NoList
  <2> QED
    BY <1>7, <1>10, <2>1
<1> QED
  BY <1>6, <1>8, <1>9, <1>10, TurnsOrGrows

-----------------------------------------------------------------------------
(***************************************************************************)
(* The session: what the tab believes of it, what its cookie holds and     *)
(* what the server says, as long as no request overlapped a login or a     *)
(* logout.                                                                 *)
(***************************************************************************)
LoadingInv ==
  /\ status = "loading" => ~InFlight({"login", "logout"})
  /\ rendered.status = "none" => requests = {} /\ status = "loading"

Undisturbed == "session" \notin crossed /\ mishaps = 0

LoggingOut == \E r \in requests : r.kind = "logout" /\ r.verdict # "none"

(* A tab that loads waits for the answer to its look at the session.       *)
Waits == status = "loading" /\ rendered.status # "none" => InFlight({"session"})

(* A login is alone; beside a logout only events are loaded.               *)
LoginAlone == \A r \in requests : r.kind = "login" => requests = {r}
LogoutAlone ==
  \A r, q \in requests : r.kind = "logout" => q = r \/ q.kind = "events"

(* The form is there until the login is answered.                          *)
FormStays ==
  InFlight({"login"}) =>
    /\ rendered.status = status
    /\ status = "authenticated" => rendered.location.path = "/login"

LoginTrue(r) == r.kind = "login" /\ r.verdict = "yes" => r.token \in live
LookTrue(r) ==
  r.kind \in {"session", "list"} =>
    /\ r.token = cookie
    /\ r.verdict = "yes" => cookie \in live
    /\ r.verdict = "no" => cookie \notin live
LogoutTrue(r) ==
  r.kind = "logout" =>
    /\ r.token = cookie \/ cookie = 0
    /\ r.verdict # "no"
    /\ r.verdict # "none" => r.token \notin live
EventsTrue(r) ==
  r.kind = "events" =>
    /\ r.token = cookie \/ cookie = 0
    /\ r.verdict = "no" => r.token \notin live
RequestsTrue ==
  \A r \in requests : LoginTrue(r) /\ LookTrue(r) /\ LogoutTrue(r) /\ EventsTrue(r)

CookieTrue == cookie \in live \/ cookie = 0 \/ LoggingOut
StatusTrue ==
  status # "loading" /\ ~LoggingOut => (status = "authenticated" <=> cookie \in live)
SessionsTrue ==
  logins <= 1 =>
    \A l \in live :
      l = cookie \/ \E r \in requests : r.kind = "login" /\ r.verdict = "yes" /\ r.token = l

SessionTruth ==
  /\ Waits /\ LoginAlone /\ LogoutAlone /\ FormStays
  /\ RequestsTrue /\ CookieTrue /\ StatusTrue /\ SessionsTrue

SessionInv == Undisturbed => SessionTruth

LEMMA NextLoading ==
  ASSUME TypeInv, LoadingInv, [Next]_vars
  PROVE  LoadingInv'
<1>1. status \in {"loading", "authenticated", "unauthenticated"}
  BY DEF TypeInv, AppType
<1>2. CASE UNCHANGED tab
  BY <1>2 DEF tab, LoadingInv, InFlight
<1>3. CASE Judged
  <2>1. PICK r \in requests : Judge(r)
    BY <1>3 DEF Judged
  <2>2. UNCHANGED <<status, rendered>>
    BY <2>1, JudgeKeepsTab
  <2>3. PICK new : requests' = (requests \ {r}) \cup {new} /\ new.kind = r.kind
    BY <2>1, JudgeKeepsTab
  <2> QED
    BY <2>2, <2>3 DEF LoadingInv, InFlight
<1>4. CASE Answered
  <2>1. PICK r \in requests, ok \in BOOLEAN : Answer(r, ok)
    BY <1>4 DEF Answered
  <2>2. requests' = requests \ {r} /\ rendered' = rendered /\ Rendered
    BY <2>1 DEF Answer, Settled, Rendered
  <2>3. status' = status \/ status' # "loading"
    BY <2>1
    DEF Answer, SessionAnswer, ListAnswer, EventsAnswer, LoginAnswer, LogoutAnswer
  <2>4. rendered.status # "none"
    BY <1>1, <2>2, RenderedFields
  <2> QED
    BY <2>2, <2>3, <2>4 DEF LoadingInv, InFlight
<1>5. CASE Effects
  <2>1. status' = status /\ rendered'.status = status
    BY <1>5 DEF Effects, Dependencies
  <2>2. \A r \in requests' : r.kind \in {"login", "logout"} => r \in requests
    BY <1>5 DEF Effects, Asking
  <2> QED
    BY <1>1, <2>1, <2>2 DEF LoadingInv, InFlight
<1>6. CASE Move
  BY <1>6, MoveLeaves DEF ActUnchanged, LoadingInv, InFlight
<1>7. CASE Login \/ Logout
  <2>1. status' = status /\ rendered' = rendered /\ Rendered /\ status # "loading"
    BY <1>7 DEF Login, Logout, Act, Settled, Rendered, app, LoginForm, Console
  <2> QED
    BY <1>1, <2>1, RenderedFields DEF LoadingInv
<1>8. CASE Toggled
  <2>1. status' = status /\ rendered' = rendered /\ Rendered /\ status # "loading"
    BY <1>8 DEF Toggled, Toggle, Act, Settled, Rendered, Console
  <2> QED
    BY <1>1, <2>1, RenderedFields DEF LoadingInv
<1>9. CASE Reload
  BY <1>9 DEF Reload, Loading, LoadingInv, InFlight
<1> QED
  BY <1>2, <1>3, <1>4, <1>5, <1>6, <1>7, <1>8, <1>9, StepKinds

(* The numbers of the sessions.                                            *)
LEMMA SessionNumbers ==
  TypeInv =>
    /\ logins \in Nat /\ cookie \in Nat /\ cookie <= logins /\ 0 \notin live
    /\ \A l \in live : l \in Nat /\ l >= 1 /\ l <= logins
BY Bounds DEF TypeInv, SessionsType

(* Nothing but the rows, the list or the view changes, or a request for    *)
(* events is added while no login is under way.                            *)
LEMMA FrameSession ==
  ASSUME SessionTruth, UNCHANGED <<live, logins, cookie, status, rendered, requests>>
  PROVE  SessionTruth'
<1> USE DEF SessionTruth
<1>1. Waits' /\ LoginAlone' /\ LogoutAlone' /\ FormStays'
  BY DEF Waits, LoginAlone, LogoutAlone, FormStays, InFlight
<1>2. RequestsTrue'
  BY DEF RequestsTrue, LoginTrue, LookTrue, LogoutTrue, EventsTrue
<1>3. CookieTrue' /\ StatusTrue' /\ SessionsTrue'
  BY DEF CookieTrue, StatusTrue, SessionsTrue, LoggingOut
<1> QED
  BY <1>1, <1>2, <1>3

LEMMA ToggleSession ==
  ASSUME SessionTruth, Toggled
  PROVE  SessionTruth'
<1> USE DEF SessionTruth
<1>1. PICK i \in Shown : Toggle(i)
  BY DEF Toggled
<1>2. /\ UNCHANGED <<live, logins, cookie, status, rendered>> /\ Rendered
      /\ status = "authenticated" /\ location.path # "/login"
  BY <1>1 DEF Toggle, Act, Settled, Rendered, Console, server, browser
<1>3. CASE requests' = requests
  BY <1>2, <1>3, FrameSession
<1>4. CASE requests' = requests \cup {Asking("events", "/sends", FirstView, i)}
  <2> PICK new : new = Asking("events", "/sends", FirstView, i)
    OBVIOUS
  <2>1. new.kind = "events" /\ new.token = cookie /\ new.verdict = "none"
    BY DEF Asking
  <2>2. requests' = requests \cup {new}
    BY <1>4
  <2>3. \A r \in requests : r.kind # "login"
    BY <1>2, RenderedFields DEF FormStays, InFlight
  <2>4. Waits' /\ FormStays'
    BY <1>2, <2>1, <2>2, <2>3 DEF Waits, FormStays, InFlight
  <2>5. LoginAlone' /\ LogoutAlone'
    BY <2>1, <2>2, <2>3 DEF LoginAlone, LogoutAlone
  <2>6. RequestsTrue'
    BY <1>2, <2>1, <2>2 DEF RequestsTrue, LoginTrue, LookTrue, LogoutTrue, EventsTrue
  <2>7. LoggingOut' <=> LoggingOut
    BY <2>1, <2>2 DEF LoggingOut
  <2>8. CookieTrue' /\ StatusTrue'
    BY <1>2, <2>7 DEF CookieTrue, StatusTrue
  <2>9. SessionsTrue'
    BY <1>2, <2>2 DEF SessionsTrue
  <2> QED
    BY <2>4, <2>5, <2>6, <2>8, <2>9
<1> QED
  BY <1>1, <1>3, <1>4 DEF Toggle, OpenRow

LEMMA AskSession ==
  ASSUME SessionTruth, Login \/ Logout, "session" \notin crossed'
  PROVE  SessionTruth'
<1> USE DEF SessionTruth
<1>1. requests = {}
  BY DEF Login, Logout
<1>2. UNCHANGED <<live, logins, cookie, status, rendered>> /\ Rendered /\ status # "loading"
  BY DEF Login, Logout, Act, Settled, Rendered, LoginForm, Console, server, browser, app
<1>3. PICK new : /\ requests' = {new}
                 /\ new.token = cookie /\ new.verdict = "none"
                 /\ \/ new.kind = "login" /\ LoginForm
                    \/ new.kind = "logout"
  <2>1. CASE Login
    <3> PICK new : new = Asking("login", "/login", FirstView, 0)
      OBVIOUS
    <3>1. new.kind = "login" /\ new.token = cookie /\ new.verdict = "none"
      BY DEF Asking
    <3>2. requests' = {new} /\ LoginForm
      BY <1>1, <2>1 DEF Login
    <3> QED
      BY <3>1, <3>2
  <2>2. CASE Logout
    <3> PICK new : new = Asking("logout", "/login", FirstView, 0)
      OBVIOUS
    <3>1. new.kind = "logout" /\ new.token = cookie /\ new.verdict = "none"
      BY DEF Asking
    <3>2. requests' = {new}
      BY <1>1, <2>2 DEF Logout
    <3> QED
      BY <3>1, <3>2
  <2> QED
    BY <2>1, <2>2
<1>4. Waits' /\ LoginAlone' /\ LogoutAlone'
  BY <1>2, <1>3 DEF Waits, LoginAlone, LogoutAlone
<1>5. FormStays'
  BY <1>2, <1>3, RenderedFields DEF FormStays, InFlight, LoginForm, Console
<1>6. RequestsTrue'
  BY <1>2, <1>3 DEF RequestsTrue, LoginTrue, LookTrue, LogoutTrue, EventsTrue
<1>7. ~LoggingOut /\ ~LoggingOut'
  BY <1>1, <1>3 DEF LoggingOut
<1>8. CookieTrue' /\ StatusTrue' /\ SessionsTrue'
  BY <1>1, <1>2, <1>7 DEF CookieTrue, StatusTrue, SessionsTrue
<1> QED
  BY <1>4, <1>5, <1>6, <1>8

LEMMA ReloadSession ==
  ASSUME SessionTruth, Reload
  PROVE  SessionTruth'
<1> USE DEF SessionTruth
<1>1. /\ UNCHANGED <<live, logins, cookie>> /\ requests' = {} /\ status' = "loading"
      /\ rendered'.status = "none" /\ ~InFlight({"login", "logout"})
  BY DEF Reload, Loading, server
<1>2. ~LoggingOut /\ \A r \in requests : r.kind # "login"
  BY <1>1 DEF LoggingOut, InFlight
<1>3. Waits' /\ LoginAlone' /\ LogoutAlone' /\ FormStays' /\ RequestsTrue' /\ StatusTrue'
  BY <1>1 DEF Waits, LoginAlone, LogoutAlone, FormStays, RequestsTrue, StatusTrue, InFlight
<1>4. CookieTrue' /\ SessionsTrue'
  BY <1>1, <1>2 DEF CookieTrue, SessionsTrue
<1> QED
  BY <1>3, <1>4

LEMMA EffectsSession ==
  ASSUME TypeInv, LoadingInv, SessionTruth, Effects, "session" \notin crossed'
  PROVE  SessionTruth'
<1> USE DEF SessionTruth
<1> DEFINE entered == rendered.status = "none" \/ rendered.location.path # location.path
           loads == /\ OnSends /\ status = "authenticated"
                    /\ entered \/ ViewChanged \/ rendered.status # status
           new == (IF entered THEN {Asking("session", location.path, FirstView, 0)} ELSE {}) \cup
                  (IF loads THEN {Asking("list", "/sends", view, 0)} ELSE {})
<1>1. /\ UNCHANGED <<live, logins, cookie, status>> /\ rendered' = Dependencies
      /\ requests' = requests \cup new
      /\ InFlight({"login", "logout"}) => new = {}
  BY DEF Effects, server
<1>2. /\ rendered'.status = status /\ rendered'.location = location
      /\ status # "none"
  BY <1>1 DEF Dependencies, TypeInv, AppType
<1>3. \A r \in new : r.kind \in {"session", "list"} /\ r.token = cookie /\ r.verdict = "none"
  BY DEF Asking
<1>4. ASSUME entered PROVE \E r \in new : r.kind = "session"
  <2>1. Asking("session", location.path, FirstView, 0) \in new
    BY <1>4
  <2>2. Asking("session", location.path, FirstView, 0).kind = "session"
    BY DEF Asking
  <2> QED
    BY <2>1, <2>2
<1>5. \A r \in requests : r.kind \in {"login", "logout"} => requests' = requests /\ ~entered
  <2> SUFFICES ASSUME NEW r \in requests, r.kind \in {"login", "logout"}
               PROVE  requests' = requests /\ ~entered
    OBVIOUS
  <2>1. new = {}
    BY <1>1 DEF InFlight
  <2>2. ~entered
    BY <1>4, <2>1
  <2> QED
    BY <1>1, <2>1, <2>2
<1> HIDE DEF new
<1>6. Waits'
  BY <1>1, <1>2, <1>4 DEF Waits, InFlight
<1>7. LoginAlone' /\ LogoutAlone'
  BY <1>1, <1>3, <1>5 DEF LoginAlone, LogoutAlone
<1>8. FormStays'
  BY <1>1, <1>2, <1>3, <1>5 DEF FormStays, InFlight
<1>9. RequestsTrue'
  BY <1>1, <1>3 DEF RequestsTrue, LoginTrue, LookTrue, LogoutTrue, EventsTrue
<1>10. LoggingOut' <=> LoggingOut
  BY <1>1, <1>3 DEF LoggingOut
<1>11. CookieTrue' /\ StatusTrue'
  BY <1>1, <1>10 DEF CookieTrue, StatusTrue
<1>12. SessionsTrue'
  BY <1>1 DEF SessionsTrue
<1> QED
  BY <1>6, <1>7, <1>8, <1>9, <1>11, <1>12

LEMMA JudgeSession ==
  ASSUME TypeInv, LoadingInv, SessionTruth, NEW r \in requests, Judge(r)
  PROVE  SessionTruth'
<1> USE DEF SessionTruth
<1>1. PICK ok \in BOOLEAN :
        /\ r.kind \in {"session", "list", "events"} => ok = (r.token \in live)
        /\ r.kind = "logout" => ok
        /\ r.kind = "login" /\ ok => logins < MaxLogins
        /\ logins' = IF r.kind = "login" /\ ok THEN logins + 1 ELSE logins
        /\ live' = IF r.kind = "login" /\ ok THEN live \cup {logins + 1} ELSE Unrevoked(r)
        /\ requests' = (requests \ {r}) \cup
             {[r EXCEPT !.verdict = IF ok THEN "yes" ELSE "no",
                        !.token = IF r.kind = "login" /\ ok THEN logins + 1 ELSE @]}
  BY DEF Judge
<1>2. UNCHANGED <<cookie, status, rendered>> /\ r.verdict = "none"
  BY JudgeKeepsTab
<1>3. PICK new : new = [r EXCEPT !.verdict = IF ok THEN "yes" ELSE "no",
                                 !.token = IF r.kind = "login" /\ ok THEN logins + 1 ELSE @]
  OBVIOUS
<1>4. /\ new.kind = r.kind /\ new.verdict = IF ok THEN "yes" ELSE "no"
      /\ new.token = IF r.kind = "login" /\ ok THEN logins + 1 ELSE r.token
  <2>1. r \in Request
    BY DEF TypeInv, RequestsType, RequestType
  <2> QED
    BY <1>3, <2>1 DEF Request
<1>5. requests' = (requests \ {r}) \cup {new}
  BY <1>1, <1>3
<1>6. r.kind \in {"session", "list", "events", "login", "logout"}
  BY DEF TypeInv, RequestsType, RequestType, Request
<1>7. /\ logins \in Nat /\ cookie \in Nat /\ cookie <= logins
      /\ \A l \in live : l \in Nat /\ l >= 1 /\ l <= logins
  BY SessionNumbers
<1>8. LoginAlone' /\ LogoutAlone'
  BY <1>4, <1>5 DEF LoginAlone, LogoutAlone
<1>9. FormStays'
  BY <1>2, <1>4, <1>5 DEF FormStays, InFlight
<1>10. Waits'
  BY <1>2, <1>4, <1>5 DEF Waits, InFlight
<1>11. CASE r.kind \in {"session", "list", "events"}
  <2>1. live' = live /\ logins' = logins /\ new.token = r.token
    BY <1>1, <1>4, <1>11 DEF Unrevoked
  <2>2. new.verdict = "yes" <=> r.token \in live
    BY <1>1, <1>4, <1>11
  <2>3. new.verdict = "no" <=> r.token \notin live
    BY <1>1, <1>4, <1>11
  <2>4. RequestsTrue'
    <3>1. ASSUME NEW q \in requests
          PROVE  LoginTrue(q)' /\ LookTrue(q)' /\ LogoutTrue(q)' /\ EventsTrue(q)'
      BY <1>2, <2>1 DEF RequestsTrue, LoginTrue, LookTrue, LogoutTrue, EventsTrue
    <3>2. LoginTrue(new)' /\ LookTrue(new)' /\ LogoutTrue(new)' /\ EventsTrue(new)'
      BY <1>2, <1>4, <1>11, <2>1, <2>2, <2>3
      DEF RequestsTrue, LoginTrue, LookTrue, LogoutTrue, EventsTrue
    <3> QED
      BY <1>5, <3>1, <3>2 DEF RequestsTrue
  <2>5. LoggingOut' <=> LoggingOut
    BY <1>4, <1>5, <1>11 DEF LoggingOut
  <2>6. CookieTrue' /\ StatusTrue'
    BY <1>2, <2>1, <2>5 DEF CookieTrue, StatusTrue
  <2>7. SessionsTrue'
    BY <1>2, <1>5, <1>11, <2>1 DEF SessionsTrue
  <2> QED
    BY <1>8, <1>9, <1>10, <2>4, <2>6, <2>7
<1>12. CASE r.kind = "logout"
  <2>1. /\ live' = live \ {r.token} /\ logins' = logins
        /\ new.token = r.token /\ new.verdict = "yes"
    BY <1>1, <1>4, <1>12 DEF Unrevoked
  <2>2. \A q \in requests : q = r \/ q.kind = "events"
    BY <1>12 DEF LogoutAlone
  <2>3. RequestsTrue'
    <3>1. ASSUME NEW q \in requests, q.kind = "events"
          PROVE  LoginTrue(q)' /\ LookTrue(q)' /\ LogoutTrue(q)' /\ EventsTrue(q)'
      BY <1>2, <2>1, <3>1 DEF RequestsTrue, LoginTrue, LookTrue, LogoutTrue, EventsTrue
    <3>2. LoginTrue(new)' /\ LookTrue(new)' /\ LogoutTrue(new)' /\ EventsTrue(new)'
      BY <1>2, <1>4, <1>12, <2>1
      DEF RequestsTrue, LoginTrue, LookTrue, LogoutTrue, EventsTrue
    <3>3. \A q \in requests' : q = new \/ (q \in requests /\ q.kind = "events")
      BY <1>5, <2>2
    <3> QED
      BY <3>1, <3>2, <3>3 DEF RequestsTrue
  <2>4. LoggingOut'
    BY <1>4, <1>5, <1>12, <2>1 DEF LoggingOut
  <2>5. CookieTrue' /\ StatusTrue'
    BY <2>4 DEF CookieTrue, StatusTrue
  <2>6. SessionsTrue'
    BY <1>2, <1>12, <2>1, <2>2 DEF SessionsTrue
  <2> QED
    BY <1>8, <1>9, <1>10, <2>3, <2>5, <2>6
<1>13. CASE r.kind = "login"
  <2>1. requests = {r} /\ requests' = {new} /\ ~LoggingOut /\ ~LoggingOut'
    BY <1>4, <1>5, <1>13 DEF LoginAlone, LoggingOut
  <2>2. CASE ok
    <3>1. /\ live' = live \cup {logins + 1} /\ logins' = logins + 1
          /\ new.token = logins + 1
      BY <1>1, <1>4, <1>13, <2>2
    <3>2. cookie \in live' <=> cookie \in live
      BY <1>7, <3>1
    <3>3. RequestsTrue'
      BY <1>4, <1>13, <2>1, <3>1 DEF RequestsTrue, LoginTrue, LookTrue, LogoutTrue, EventsTrue
    <3>4. CookieTrue' /\ StatusTrue'
      BY <1>2, <2>1, <3>2 DEF CookieTrue, StatusTrue
    <3>5. SessionsTrue'
      <4> SUFFICES ASSUME logins' <= 1, NEW l \in live' PROVE l = new.token
        BY <1>4, <1>13, <2>1, <2>2 DEF SessionsTrue
      <4> QED
        BY <1>7, <3>1
    <3> QED
      BY <1>8, <1>9, <1>10, <3>3, <3>4, <3>5
  <2>3. CASE ~ok
    <3>1. live' = live /\ logins' = logins /\ new.verdict = "no"
      BY <1>1, <1>4, <1>13, <2>3 DEF Unrevoked
    <3>2. RequestsTrue'
      BY <1>4, <1>13, <2>1, <3>1 DEF RequestsTrue, LoginTrue, LookTrue, LogoutTrue, EventsTrue
    <3>3. CookieTrue' /\ StatusTrue'
      BY <1>2, <2>1, <3>1 DEF CookieTrue, StatusTrue
    <3>4. SessionsTrue'
      BY <1>2, <2>1, <3>1 DEF SessionsTrue
    <3> QED
      BY <1>8, <1>9, <1>10, <3>2, <3>3, <3>4
  <2> QED
    BY <2>2, <2>3
<1> QED
  BY <1>6, <1>11, <1>12, <1>13

(* One request less, and nothing that the session is about changes.        *)
LEMMA FewerSession ==
  ASSUME SessionTruth, NEW r \in requests, requests' = requests \ {r},
         UNCHANGED <<live, logins, cookie, rendered, status>>,
         r.kind \in {"session", "list", "events"}, r.kind = "session" => status # "loading"
  PROVE  SessionTruth'
<1> USE DEF SessionTruth
<1>1. Waits' /\ LoginAlone' /\ LogoutAlone' /\ FormStays'
  BY DEF Waits, LoginAlone, LogoutAlone, FormStays, InFlight
<1>2. RequestsTrue'
  BY DEF RequestsTrue, LoginTrue, LookTrue, LogoutTrue, EventsTrue
<1>3. LoggingOut' <=> LoggingOut
  BY DEF LoggingOut
<1>4. CookieTrue' /\ StatusTrue'
  BY <1>3 DEF CookieTrue, StatusTrue
<1>5. SessionsTrue'
  BY DEF SessionsTrue
<1> QED
  BY <1>1, <1>2, <1>4, <1>5

LEMMA ArriveSession ==
  ASSUME TypeInv, LoadingInv, SessionTruth, NEW r \in requests, Arrive(r)
  PROVE  SessionTruth'
<1> USE DEF SessionTruth
<1>1. /\ requests' = requests \ {r} /\ UNCHANGED <<live, logins, rendered>> /\ Rendered
      /\ r.verdict # "none"
      /\ cookie' = CASE r.kind = "login" -> IF r.verdict = "yes" THEN r.token ELSE cookie
                     [] r.kind = "logout" -> 0
                     [] OTHER -> IF r.verdict = "no" THEN 0 ELSE cookie
  BY DEF Arrive, Answer, Settled, Rendered
<1>2. /\ r.kind \in {"session", "list", "events", "login", "logout"}
      /\ r.verdict \in {"none", "yes", "no"}
      /\ r.token \in Nat
  BY Bounds DEF TypeInv, RequestsType, RequestType, Request
<1>3. /\ r.kind = "session" => SessionAnswer(r, r.verdict = "yes")
      /\ r.kind = "list" => ListAnswer(r, r.verdict = "yes")
      /\ r.kind = "events" => EventsAnswer(r, r.verdict = "yes")
      /\ r.kind = "login" => LoginAnswer(r.verdict = "yes")
      /\ r.kind = "logout" => LogoutAnswer
  BY DEF Arrive, Answer
<1>4. LoginTrue(r) /\ LookTrue(r) /\ LogoutTrue(r) /\ EventsTrue(r)
  BY DEF RequestsTrue
<1>5. /\ logins \in Nat /\ cookie \in Nat /\ cookie <= logins /\ 0 \notin live
      /\ \A l \in live : l \in Nat /\ l >= 1 /\ l <= logins
  BY SessionNumbers
<1>6. CASE r.kind \in {"session", "list"}
  <2>1. \A q \in requests : q.kind # "login" /\ q.kind # "logout"
    BY <1>6 DEF LoginAlone, LogoutAlone
  <2>2. ~LoggingOut /\ ~LoggingOut'
    BY <1>1, <2>1 DEF LoggingOut
  <2>3. cookie \in live \/ cookie = 0
    BY <2>2 DEF CookieTrue
  <2>4. cookie' = cookie /\ (r.verdict = "yes" <=> cookie \in live)
    BY <1>1, <1>2, <1>4, <1>6, <2>3 DEF LookTrue
  <2>5. CASE r.kind = "list"
    <3>1. status' = status
      BY <1>3, <2>5 DEF ListAnswer
    <3> QED
      BY <1>1, <2>4, <2>5, <3>1, FewerSession
  <2>6. CASE r.kind = "session"
    <3>1. status' = IF r.verdict = "yes" THEN "authenticated" ELSE "unauthenticated"
      BY <1>3, <2>6 DEF SessionAnswer
    <3>2. Waits' /\ LoginAlone' /\ LogoutAlone' /\ FormStays'
      BY <1>1, <2>1, <3>1 DEF Waits, LoginAlone, LogoutAlone, FormStays, InFlight
    <3>3. RequestsTrue'
      BY <1>1, <2>4 DEF RequestsTrue, LoginTrue, LookTrue, LogoutTrue, EventsTrue
    <3>4. CookieTrue' /\ StatusTrue'
      BY <1>1, <2>2, <2>3, <2>4, <3>1 DEF CookieTrue, StatusTrue
    <3>5. SessionsTrue'
      BY <1>1, <2>1, <2>4 DEF SessionsTrue
    <3> QED
      BY <3>2, <3>3, <3>4, <3>5
  <2> QED
    BY <1>6, <2>5, <2>6
<1>7. CASE r.kind = "events"
  <2>1. status' = status /\ (r.verdict = "yes" => cookie' = cookie)
        /\ (r.verdict = "no" => cookie' = 0)
    BY <1>1, <1>3, <1>7 DEF EventsAnswer
  <2>2. CASE cookie' = cookie
    BY <1>1, <1>7, <2>1, <2>2, FewerSession
  <2>3. CASE cookie' # cookie
    <3>1. r.token = cookie /\ cookie \notin live /\ cookie # 0 /\ cookie' = 0
      BY <1>1, <1>2, <1>4, <1>7, <2>1, <2>3 DEF EventsTrue
    <3>2. PICK out \in requests : out.kind = "logout" /\ out.verdict # "none"
      BY <3>1 DEF CookieTrue, LoggingOut
    <3>3. \A q \in requests : q = out \/ q.kind = "events"
      BY <3>2 DEF LogoutAlone
    <3>4. LoggingOut'
      BY <1>1, <1>7, <3>2 DEF LoggingOut
    <3>5. Waits' /\ LoginAlone' /\ LogoutAlone' /\ FormStays'
      BY <1>1, <1>7, <2>1 DEF Waits, LoginAlone, LogoutAlone, FormStays, InFlight
    <3>6. RequestsTrue'
      <4> SUFFICES ASSUME NEW q \in requests
                   PROVE  LoginTrue(q)' /\ LookTrue(q)' /\ LogoutTrue(q)' /\ EventsTrue(q)'
        BY <1>1 DEF RequestsTrue
      <4>1. LoginTrue(q) /\ LookTrue(q) /\ LogoutTrue(q) /\ EventsTrue(q)
        BY DEF RequestsTrue
      <4>2. q.kind = "logout" \/ q.kind = "events"
        BY <3>2, <3>3
      <4> QED
        BY <1>1, <3>1, <4>1, <4>2 DEF LoginTrue, LookTrue, LogoutTrue, EventsTrue
    <3>7. CookieTrue' /\ StatusTrue'
      BY <3>4 DEF CookieTrue, StatusTrue
    <3>8. SessionsTrue'
      <4>1. logins <= 1 => live = {}
        BY <3>1, <3>2, <3>3 DEF SessionsTrue
      <4> QED
        BY <1>1, <4>1 DEF SessionsTrue
    <3> QED
      BY <3>5, <3>6, <3>7, <3>8
  <2> QED
    BY <2>2, <2>3
<1>8. CASE r.kind = "login"
  <2>1. requests = {r} /\ requests' = {} /\ ~LoggingOut /\ ~LoggingOut'
    BY <1>1, <1>8 DEF LoginAlone, LoggingOut
  <2>2. Waits' /\ LoginAlone' /\ LogoutAlone' /\ FormStays' /\ RequestsTrue'
    <3>1. status' # "loading"
      BY <1>3, <1>8 DEF LoginAnswer, LoadingInv, InFlight
    <3> QED
      BY <2>1, <3>1 DEF Waits, LoginAlone, LogoutAlone, FormStays, RequestsTrue, InFlight
  <2>3. CASE r.verdict = "yes"
    <3>1. cookie' = r.token /\ r.token \in live /\ status' = "authenticated"
      BY <1>1, <1>3, <1>4, <1>8, <2>3 DEF LoginAnswer, LoginTrue
    <3>2. CookieTrue' /\ StatusTrue'
      BY <1>1, <3>1 DEF CookieTrue, StatusTrue
    <3>3. SessionsTrue'
      <4> SUFFICES ASSUME logins <= 1, NEW l \in live PROVE l = r.token
        BY <1>1, <3>1 DEF SessionsTrue
      <4> QED
        BY <1>5, <3>1
    <3> QED
      BY <2>2, <3>2, <3>3
  <2>4. CASE r.verdict = "no"
    <3>1. cookie' = cookie /\ status' = status
      BY <1>1, <1>3, <1>8, <2>4 DEF LoginAnswer
    <3>2. CookieTrue' /\ StatusTrue'
      BY <1>1, <2>1, <3>1 DEF CookieTrue, StatusTrue
    <3>3. SessionsTrue'
      BY <1>1, <2>1, <2>4, <3>1 DEF SessionsTrue
    <3> QED
      BY <2>2, <3>2, <3>3
  <2> QED
    BY <1>1, <1>2, <2>3, <2>4
<1>9. CASE r.kind = "logout"
  <2>1. cookie' = 0 /\ status' = "unauthenticated"
    BY <1>1, <1>3, <1>9 DEF LogoutAnswer
  <2>2. r.token \notin live /\ (r.token = cookie \/ cookie = 0)
    BY <1>1, <1>4, <1>9 DEF LogoutTrue
  <2>3. \A q \in requests : q = r \/ q.kind = "events"
    BY <1>9 DEF LogoutAlone
  <2>4. \A q \in requests' : q \in requests /\ q.kind = "events"
    BY <1>1, <2>3
  <2>5. Waits' /\ LoginAlone' /\ LogoutAlone' /\ FormStays'
    BY <2>1, <2>4 DEF Waits, LoginAlone, LogoutAlone, FormStays, InFlight
  <2>6. RequestsTrue'
    BY <1>1, <2>1, <2>4 DEF RequestsTrue, LoginTrue, LookTrue, LogoutTrue, EventsTrue
  <2>7. CookieTrue' /\ StatusTrue'
    BY <1>1, <1>5, <2>1 DEF CookieTrue, StatusTrue
  <2>8. SessionsTrue'
    <3>1. logins <= 1 => live = {}
      BY <1>5, <1>9, <2>2, <2>3 DEF SessionsTrue
    <3> QED
      BY <1>1, <3>1 DEF SessionsTrue
  <2> QED
    BY <2>5, <2>6, <2>7, <2>8
<1> QED
  BY <1>2, <1>6, <1>7, <1>8, <1>9

LEMMA NextSession ==
  ASSUME TypeInv, LoadingInv, SessionInv, [Next]_vars
  PROVE  SessionInv'
<1> SUFFICES ASSUME Undisturbed' PROVE SessionTruth'
  BY DEF SessionInv
<1>1. "session" \notin crossed' /\ mishaps' = 0 /\ mishaps \in Nat
  BY DEF Undisturbed, TypeInv, GhostType
<1>2. ASSUME "session" \notin crossed, mishaps' = mishaps PROVE SessionTruth
  BY <1>1, <1>2 DEF SessionInv, Undisturbed
<1>3. CASE CreateSend
  <2>1. UNCHANGED <<live, logins, cookie, status, rendered, requests, crossed, mishaps>>
    BY <1>3 DEF CreateSend, browser, app
  <2> QED
    BY <1>1, <1>2, <2>1, FrameSession
<1>4. CASE EndSession
  BY <1>1, <1>4 DEF EndSession
<1>5. CASE UNCHANGED vars
  <2>1. UNCHANGED <<live, logins, cookie, status, rendered, requests, crossed, mishaps>>
    BY <1>5 DEF vars
  <2> QED
    BY <1>1, <1>2, <2>1, FrameSession
<1>6. CASE \E r \in requests : Drop(r)
  BY <1>1, <1>6 DEF Drop
<1>7. ASSUME NEW r \in requests, Judge(r) PROVE SessionTruth'
  BY <1>1, <1>2, <1>7, JudgeKeepsTab, JudgeSession
<1>8. ASSUME NEW r \in requests, Arrive(r) PROVE SessionTruth'
  <2>1. crossed' = crossed /\ mishaps' = mishaps
    BY <1>8
    DEF Arrive, Answer, SessionAnswer, ListAnswer, EventsAnswer, LoginAnswer, LogoutAnswer
  <2> QED
    BY <1>1, <1>2, <1>8, <2>1, ArriveSession
<1>9. CASE Effects
  <2>1. "session" \notin crossed /\ mishaps' = mishaps
    BY <1>1, <1>9 DEF Effects, bounds
  <2> QED
    BY <1>1, <1>2, <1>9, <2>1, EffectsSession
<1>10. CASE Move
  BY <1>1, <1>2, <1>10, MoveLeaves, FrameSession DEF ActUnchanged
<1>11. CASE Login \/ Logout
  <2>1. "session" \notin crossed /\ mishaps' = mishaps
    BY <1>1, <1>11 DEF Login, Logout, Act
  <2> QED
    BY <1>1, <1>2, <1>11, <2>1, AskSession
<1>12. CASE Toggled
  <2>1. "session" \notin crossed /\ mishaps' = mishaps
    BY <1>1, <1>12 DEF Toggled, Toggle, OpenRow, Act
  <2> QED
    BY <1>2, <1>12, <2>1, ToggleSession
<1>13. CASE Reload
  <2>1. "session" \notin crossed /\ mishaps' = mishaps
    BY <1>1, <1>13 DEF Reload
  <2> QED
    BY <1>2, <1>13, <2>1, ReloadSession
<1>14. CASE Network
  BY <1>7, <1>8, <1>14 DEF Network
<1>15. CASE User
  BY <1>10, <1>11, <1>12, <1>13, <1>15 DEF User, Move, Toggled
<1> QED
  BY <1>3, <1>4, <1>5, <1>6, <1>9, <1>14, <1>15 DEF Next

-----------------------------------------------------------------------------
(***************************************************************************)
(* The theorems.                                                           *)
(***************************************************************************)
Inv == TypeInv /\ SettledInv /\ LoadedInv /\ EventsInv /\ SkipInv /\ LoadingInv /\ SessionInv

(* The tab begins with the invariant.                                      *)
THEOREM InitInv == Init => Inv
<1> SUFFICES ASSUME Init PROVE Inv
  OBVIOUS
<1>1. TypeInv
  BY InitTypes
<1>2. SettledInv /\ LoadedInv /\ EventsInv
  BY DEF Init, SettledInv, LoadedInv, EventsInv, Rendered, Dependencies
<1>3. SkipInv
  BY DEF Init, SkipInv, TurnInv, NoSendSkipped, NoList
<1>4. LoadingInv
  BY DEF Init, LoadingInv, InFlight
<1>5. SessionTruth
  <2>1. Waits /\ LoginAlone /\ LogoutAlone /\ FormStays /\ RequestsTrue
    BY DEF Init, Waits, LoginAlone, LogoutAlone, FormStays, RequestsTrue, InFlight
  <2>2. logins \in Nat /\ live = 1..logins /\ cookie = logins
    BY DEF Init
  <2>3. CookieTrue /\ StatusTrue
    BY <2>2 DEF Init, CookieTrue, StatusTrue
  <2>4. SessionsTrue
    BY <2>2 DEF SessionsTrue
  <2> QED
    BY <2>1, <2>3, <2>4 DEF SessionTruth
<1> QED
  BY <1>1, <1>2, <1>3, <1>4, <1>5 DEF Inv, SessionInv

(* Every step of the tab and of the server preserves it.                   *)
THEOREM NextInv ==
  ASSUME Inv, [Next]_vars
  PROVE  Inv'
<1>1. TypeInv'
  BY NextTypes DEF Inv
<1> QED
  BY <1>1, NextSettled, NextLoaded, NextEvents, NextSkips, NextLoading, NextSession DEF Inv

(* The invariant holds throughout.                                         *)
THEOREM Inductive == Spec => []Inv
<1>1. Init => Inv
  BY InitInv
<1>2. Inv /\ [Next]_vars => Inv'
  BY NextInv
<1> QED
  BY <1>1, <1>2, PTL DEF Spec

(* Whatever happens, the tab shows and asks for what exists.               *)
THEOREM TypesHold == Spec => []TypeOK
<1>1. Inv => TypeOK
  BY TypesAreTypes DEF Inv
<1> QED
  BY <1>1, Inductive, PTL

(* A tab at rest shows the page its controls and its location name, unless *)
(* the last load failed or an older one was answered last (App.tsx).       *)
THEOREM RestShowsTheView == Spec => []ShowsWhatItSays
<1>1. Inv => ShowsWhatItSays
  <2> SUFFICES ASSUME Inv, AtRest, Console, OnSends, ~list.error, ~Overtaken
               PROVE  list.loaded /\ list.view = view /\ location.search = view
    BY DEF ShowsWhatItSays
  <2>1. Rendered /\ requests = {}
    BY DEF AtRest, Settled, Rendered
  <2>2. /\ rendered.status = "authenticated" /\ rendered.location.path = "/sends"
        /\ rendered.view = view
    BY <2>1, RenderedFields DEF Console, OnSends
  <2>3. asked = view /\ list.loaded
    BY <2>1, <2>2 DEF Inv, LoadedInv, InFlight
  <2>4. list.view = view
    BY <2>3 DEF Overtaken
  <2>5. location.search = view
    BY <2>1 DEF Inv, SettledInv
  <2> QED
    BY <2>3, <2>4, <2>5
<1> QED
  BY <1>1, Inductive, PTL

(* An open row shows the events of its own send or none, unless two of     *)
(* these requests overlapped (loadSendEvents in App.tsx).                  *)
THEOREM RowsShowTheirEvents == Spec => []EventsAreOfSelected
<1>1. Inv => EventsAreOfSelected
  BY DEF Inv, EventsInv, EventsAreOfSelected
<1> QED
  BY <1>1, Inductive, PTL

(* Turning the pages one by one up to the last shows every matching send   *)
(* there was at the first, whatever is created meanwhile, unless it shares *)
(* its millisecond with another (listAdminHistory and its cursor).         *)
THEOREM PagesSkipNothing == Spec => []NoSendSkipped
<1>1. Inv => NoSendSkipped
  BY DEF Inv, SkipInv
<1> QED
  BY <1>1, Inductive, PTL

(* A tab at rest knows whether its cookie holds a live session, and its    *)
(* logout has ended it, unless another request overlapped a login or a     *)
(* logout (session.status in App.tsx, the routes of admin-session).        *)
THEOREM SessionsAreTrue == Spec => []SessionIsTrue
<1>1. Inv => SessionIsTrue
  <2> SUFFICES ASSUME Inv, AtRest, "session" \notin crossed, mishaps = 0
               PROVE  /\ status = "authenticated" <=> cookie \in live
                      /\ status = "unauthenticated" /\ logins <= 1 => live = {}
    BY DEF SessionIsTrue
  <2>1. Rendered /\ requests = {} /\ rendered.status = status
    BY RenderedFields DEF AtRest, Settled, Rendered
  <2>2. Waits /\ StatusTrue /\ SessionsTrue
    BY DEF Inv, SessionInv, Undisturbed, SessionTruth
  <2>3. status # "loading" /\ ~LoggingOut
    BY <2>1, <2>2 DEF Waits, InFlight, LoggingOut
  <2>4. status = "authenticated" <=> cookie \in live
    BY <2>2, <2>3 DEF StatusTrue
  <2>5. ASSUME status = "unauthenticated", logins <= 1 PROVE live = {}
    BY <2>1, <2>2, <2>4, <2>5 DEF SessionsTrue
  <2> QED
    BY <2>4, <2>5
<1> QED
  BY <1>1, Inductive, PTL

=============================================================================
