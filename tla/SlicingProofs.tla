---------------------------- MODULE SlicingProofs ----------------------------
(***************************************************************************)
(* What the slicing rule guarantees for every text and every block size:   *)
(* slices follow one another without overlapping, none splits a document   *)
(* the delimiter does not occur in, and every document is in one of them.  *)
(* Then facts about bounds, quotients, sums and bags that several proofs   *)
(* use.                                                                    *)
(***************************************************************************)
EXTENDS Slicing, Bags, FiniteSetsExt, WellFoundedInduction, FiniteSetTheorems, TLAPS

\* A nonempty set of naturals has a least element.
LEMMA LeastElement ==
  ASSUME NEW S \in SUBSET Nat, S # {}
  PROVE  \E n \in S : \A m \in S : n <= m
<1> DEFINE R == OpToRel(<, Nat)
<1>1. IsWellFoundedOn(R, Nat)
  BY NatLessThanWellFounded
<1>2. PICK n \in S : \A m \in S : ~ (<<m, n>> \in R)
  BY <1>1, WFMin
<1>3. \A x, y \in Nat : x < y => <<x, y>> \in R
  BY Zenon DEF OpToRel
<1>4. \A m \in S : ~ (m < n)
  BY <1>2, <1>3, Zenon
<1>5. \A m \in S : m \in Nat /\ n \in Nat
  OBVIOUS
<1>6. QED
  BY <1>4, <1>5

\* So a nonempty set of naturals has its Min.
LEMMA MinFacts ==
  ASSUME NEW S \in SUBSET Nat, S # {}
  PROVE  Min(S) \in S /\ \A m \in S : Min(S) <= m
<1>1. \E x \in S : \A y \in S : x =< y
  BY LeastElement
<1>2. QED
  BY <1>1 DEF Min

\* A bounded set of naturals has a greatest element, which is its Max.
LEMMA MaxFacts ==
  ASSUME NEW n \in Nat, NEW S \in SUBSET (0 .. n), S # {}
  PROVE  Max(S) \in S /\ \A m \in S : m <= Max(S)
<1> DEFINE gaps == {n - m : m \in S}
<1>1. gaps \in SUBSET Nat /\ gaps # {}
  <2>1. \A m \in S : n - m \in Nat
    OBVIOUS
  <2>2. QED
    BY <2>1
<1>2. PICK g \in gaps : \A h \in gaps : g <= h
  BY <1>1, LeastElement
<1>3. PICK x \in S : g = n - x
  BY <1>2
<1>4. \A m \in S : x >= m
  <2>1. SUFFICES ASSUME NEW m \in S PROVE x >= m
    OBVIOUS
  <2>2. n - m \in gaps
    OBVIOUS
  <2>3. g <= n - m
    BY <1>2, <2>2
  <2>4. QED
    BY <1>3, <2>3
<1>5. \E y \in S : \A m \in S : y >= m
  BY <1>4
<1>6. Max(S) \in S /\ \A m \in S : Max(S) >= m
  BY <1>5 DEF Max
<1>7. QED
  BY <1>6

\* Where Snap(want) is: just past the first delimiter from `want` on, or at the
\* end of the text.
LEMMA SnapPosition ==
  ASSUME NEW length \in Nat, NEW delims \in SUBSET (0 .. length - 1),
         NEW want \in Nat
  PROVE  LET s == Snap(length, delims, want)
         IN /\ s \in 0 .. length
            /\ want < length => want < s
            /\ want >= length => s = length
            /\ s # length => s - 1 \in delims /\ want <= s - 1
            /\ \A p \in delims : want <= p => s <= p + 1
<1> DEFINE From == {p \in delims : want <= p}
           Least(p) == p \in delims /\ want <= p /\ \A q \in delims : want <= q => p <= q
<1>1. CASE want < length /\ From # {}
  <2>1. \E p \in delims : want <= p
    BY <1>1
  <2>2. From \in SUBSET Nat
    <3>1. \A p \in delims : p \in Nat
      OBVIOUS
    <3>2. QED
      BY <3>1
  <2>3. \E p \in From : \A q \in From : p <= q
    BY <1>1, <2>2, LeastElement
  <2>4. \E p \in delims : want <= p /\ \A q \in delims : want <= q => p <= q
    BY <2>3
  <2> DEFINE least == CHOOSE p \in delims : want <= p /\ \A q \in delims : want <= q => p <= q
  <2>5. Least(least)
    BY <2>4
  <2>6. Snap(length, delims, want) = 1 + least
    BY <1>1, <2>1 DEF Snap
  <2> HIDE DEF least
  <2>7. QED
    BY <2>5, <2>6, <1>1
<1>2. CASE ~ (want < length /\ From # {})
  <2>1. Snap(length, delims, want) = length
    BY <1>2 DEF Snap
  <2>2. \A p \in delims : ~ (want <= p)
    BY <1>2
  <2>3. QED
    BY <2>1, <2>2
<1>3. QED
  BY <1>1, <1>2

\* Snapping keeps the order of positions.
LEMMA SnapMonotone ==
  ASSUME NEW length \in Nat, NEW delims \in SUBSET (0 .. length - 1),
         NEW u \in Nat, NEW v \in Nat, u <= v
  PROVE  Snap(length, delims, u) <= Snap(length, delims, v)
<1> DEFINE s == Snap(length, delims, u)
           t == Snap(length, delims, v)
<1>1. /\ s \in 0 .. length
      /\ u < length => u < s
      /\ \A p \in delims : u <= p => s <= p + 1
  BY SnapPosition
<1>2. /\ t \in 0 .. length
      /\ t # length => t - 1 \in delims /\ v <= t - 1
  BY SnapPosition
<1> HIDE DEF s, t
<1>3. s <= t
  BY <1>1, <1>2
<1>4. QED
  BY <1>3 DEF s, t

-----------------------------------------------------------------------------
\* The position block `index` begins at once it is snapped, and the block
\* before it ends at.
Edge(length, delims, block, index) ==
  IF index = 0 THEN 0 ELSE Snap(length, delims, index * block)

LEMMA Products ==
  ASSUME NEW block \in Nat \ {0}, NEW i \in Nat
  PROVE  /\ i * block \in Nat
         /\ i * block + block = (i + 1) * block
         /\ i * block = 0 <=> i = 0
         /\ \A j \in Nat : i <= j => i * block <= j * block
<1>1. /\ i * block \in Nat
      /\ i * block + block = (i + 1) * block
  OBVIOUS
<1>2. i * block = 0 <=> i = 0
  OBVIOUS
<1>3. ASSUME NEW j \in Nat, i <= j
      PROVE  i * block <= j * block
  <2>1. PICK k \in Nat : j = i + k
    BY <1>3
  <2>2. j * block = i * block + k * block
    BY <2>1
  <2>3. k * block \in Nat
    OBVIOUS
  <2>4. QED
    BY <1>1, <2>2, <2>3
<1>4. QED
  BY <1>1, <1>2, <1>3

LEMMA EdgeMonotone ==
  ASSUME NEW length \in Nat, NEW delims \in SUBSET (0 .. length - 1),
         NEW block \in Nat \ {0}, NEW i \in Nat, NEW j \in Nat, i <= j
  PROVE  /\ Edge(length, delims, block, i) \in 0 .. length
         /\ Edge(length, delims, block, i) <= Edge(length, delims, block, j)
<1>1. /\ i * block \in Nat /\ j * block \in Nat
      /\ i * block <= j * block
  BY Products
<1>2. \A k \in Nat : k * block \in Nat
  BY Products
<1>3. \A k \in Nat : Edge(length, delims, block, k) \in 0 .. length
  BY <1>2, SnapPosition DEF Edge
<1>4. Snap(length, delims, i * block) <= Snap(length, delims, j * block)
  BY <1>1, SnapMonotone
<1>5. CASE i = 0
  BY <1>3, <1>5 DEF Edge
<1>6. CASE i # 0
  BY <1>3, <1>4, <1>6 DEF Edge
<1>7. QED
  BY <1>5, <1>6

\* A slice runs from its block's edge to the next block's edge.
LEMMA SliceBetweenEdges ==
  ASSUME NEW length \in Nat, NEW delims \in SUBSET (0 .. length - 1),
         NEW block \in Nat \ {0}, NEW i \in Nat,
         ~ IsEmpty(SliceAt(length, delims, block, i))
  PROVE  /\ SliceAt(length, delims, block, i).begin = Edge(length, delims, block, i)
         /\ SliceAt(length, delims, block, i).end = Edge(length, delims, block, i + 1)
         /\ SliceAt(length, delims, block, i).begin \in Nat
         /\ SliceAt(length, delims, block, i).end \in Nat
<1>1. i * block + block = (i + 1) * block /\ (i * block = 0 <=> i = 0)
  BY Products
<1>2. IsEmpty(EmptyPiece)
  BY DEF IsEmpty, EmptyPiece
<1>3. i + 1 # 0 /\ i + 1 \in Nat
  OBVIOUS
<1>4. \A k \in Nat : Edge(length, delims, block, k) \in Nat
  BY EdgeMonotone
<1>5. /\ SliceAt(length, delims, block, i).begin = Edge(length, delims, block, i)
      /\ SliceAt(length, delims, block, i).end = Edge(length, delims, block, i + 1)
  BY <1>1, <1>2, <1>3 DEF SliceAt, Edge
<1>6. QED
  BY <1>3, <1>4, <1>5

\* Slices do not overlap, and come in the order of their indices.
LEMMA SlicesInOrder ==
  ASSUME NEW length \in Nat, NEW delims \in SUBSET (0 .. length - 1),
         NEW block \in Nat \ {0}, NEW i \in Nat, NEW j \in Nat, i < j,
         ~ IsEmpty(SliceAt(length, delims, block, i)),
         ~ IsEmpty(SliceAt(length, delims, block, j))
  PROVE  SliceAt(length, delims, block, i).end <= SliceAt(length, delims, block, j).begin
<1>1. i + 1 <= j
  OBVIOUS
<1>2. Edge(length, delims, block, i + 1) <= Edge(length, delims, block, j)
  BY <1>1, EdgeMonotone
<1>3. QED
  BY <1>2, SliceBetweenEdges

\* A slice does not begin or end inside a document, when the delimiter does not
\* occur inside one.
THEOREM SlicesNeverSplit ==
  ASSUME NEW length \in Nat, NEW delims \in SUBSET (0 .. length - 1),
         NEW docs, \A d \in docs : d.first \in 0 .. length - 1 /\ d.last \in 0 .. length - 1,
         DelimiterFree(delims, docs),
         NEW block \in Nat \ {0}, NEW i \in Nat, NEW d \in docs
  PROVE  ~ Splits(SliceAt(length, delims, block, i), d)
<1> DEFINE piece == SliceAt(length, delims, block, i)
<1>1. SUFFICES ASSUME ~ IsEmpty(piece),
                      NEW edge \in {piece.begin, piece.end},
                      d.first < edge, edge <= d.last
               PROVE  FALSE
  BY DEF Splits
<1>2. PICK k \in Nat : edge = Edge(length, delims, block, k)
  BY <1>1, SliceBetweenEdges, i + 1 \in Nat
<1>3. d.first \in 0 .. length - 1 /\ d.last \in 0 .. length - 1
  OBVIOUS
<1>4. k # 0 /\ edge = Snap(length, delims, k * block)
  BY <1>1, <1>2, <1>3 DEF Edge
<1>5. edge # length
  BY <1>1, <1>3
<1>6. k * block \in Nat
  BY Products
<1> HIDE DEF piece
<1>7. edge - 1 \in delims /\ edge \in 0 .. length
  BY <1>4, <1>5, <1>6, SnapPosition
<1>8. d.first <= edge - 1 /\ edge - 1 <= d.last
  BY <1>1, <1>3, <1>7
<1>9. QED
  BY <1>7, <1>8 DEF DelimiterFree
\* A block that begins inside the text, at an edge before the next one, makes a
\* slice of its own.
LEMMA SliceOfBlock ==
  ASSUME NEW length \in Nat, NEW delims \in SUBSET (0 .. length - 1),
         NEW block \in Nat \ {0}, NEW i \in Nat,
         i * block < length,
         Edge(length, delims, block, i) < Edge(length, delims, block, i + 1)
  PROVE  SliceAt(length, delims, block, i) =
           [begin |-> Edge(length, delims, block, i),
            end   |-> Edge(length, delims, block, i + 1)]
<1>1. i * block \in Nat /\ i * block + block = (i + 1) * block /\ (i * block = 0 <=> i = 0)
  BY Products
<1>2. ~ (i > length \div block)
  <2> DEFINE q == length \div block
  <2>1. q \in Nat /\ length < (q + 1) * block
    OBVIOUS
  <2>2. SUFFICES ASSUME i >= q + 1 PROVE FALSE
    BY <2>1
  <2> HIDE DEF q
  <2>3. (q + 1) * block <= i * block
    BY <2>1, <2>2, Products
  <2>4. (q + 1) * block \in Nat
    BY <2>1
  <2>5. QED
    BY <1>1, <2>1, <2>3, <2>4
<1>3. block # 0 /\ ~ (i * block >= length) /\ i + 1 # 0
  BY <1>1
<1>4. Edge(length, delims, block, i) \in Nat /\ Edge(length, delims, block, i + 1) \in Nat
  BY EdgeMonotone
<1>5. QED
  BY <1>1, <1>2, <1>3, <1>4 DEF SliceAt, Edge

\* Every document the delimiter does not occur in lies in a slice: that of the
\* first block whose end, once snapped, is past the document's first byte.
THEOREM EveryDocumentInASlice ==
  ASSUME NEW length \in Nat, NEW delims \in SUBSET (0 .. length - 1),
         NEW docs,
         \A d \in docs : /\ d.first \in 0 .. length - 1 /\ d.last \in 0 .. length - 1
                         /\ d.first <= d.last,
         DelimiterFree(delims, docs),
         NEW block \in Nat \ {0}, NEW d \in docs
  PROVE  \E i \in Nat :
           /\ i * block < length
           /\ ~ IsEmpty(SliceAt(length, delims, block, i))
           /\ d \in DocsIn(docs, SliceAt(length, delims, block, i))
<1> DEFINE edge(i) == Edge(length, delims, block, i)
           Past == {i \in Nat : d.first < edge(i + 1)}
<1>1. /\ d.first \in 0 .. length - 1 /\ d.last \in 0 .. length - 1
      /\ d.first <= d.last
  OBVIOUS
<1>2. \A i \in Nat : edge(i) \in 0 .. length
  BY EdgeMonotone
<1>3. length \in Past
  <2>1. length + 1 \in Nat /\ length + 1 # 0
    OBVIOUS
  <2>2. (length + 1) * block >= length /\ (length + 1) * block \in Nat
    OBVIOUS
  <2>3. edge(length + 1) = length
    BY <2>1, <2>2, SnapPosition DEF Edge
  <2>4. QED
    BY <1>1, <2>3
<1>4. PICK i \in Past : \A j \in Past : i <= j
  BY <1>3, LeastElement
<1>5. i \in Nat /\ d.first < edge(i + 1)
  BY <1>4
<1>6. edge(i) <= d.first
  <2>1. CASE i = 0
    BY <1>1, <2>1 DEF Edge
  <2>2. CASE i # 0
    <3>1. i - 1 \in Nat /\ (i - 1) + 1 = i /\ ~ (i <= i - 1)
      BY <1>5, <2>2
    <3>2. i - 1 \notin Past
      BY <1>4, <3>1
    <3>3. ~ (d.first < edge(i))
      BY <3>1, <3>2
    <3>4. QED
      BY <1>1, <1>2, <1>5, <3>3
  <2>3. QED
    BY <2>1, <2>2
<1>7. i * block < length
  <2>1. i * block \in Nat /\ (i * block = 0 <=> i = 0)
    BY <1>5, Products
  <2>2. SUFFICES ASSUME i * block >= length PROVE FALSE
    BY <2>1
  <2>3. edge(i) = length
    BY <1>1, <2>1, <2>2, SnapPosition DEF Edge
  <2>4. QED
    BY <1>1, <1>6, <2>3
<1>8. /\ edge(i) \in Nat /\ edge(i + 1) \in Nat
      /\ edge(i) < edge(i + 1)
  BY <1>1, <1>2, <1>5, <1>6
<1> HIDE DEF edge, Past
<1> DEFINE piece == SliceAt(length, delims, block, i)
<1>9. piece = [begin |-> edge(i), end |-> edge(i + 1)]
  BY <1>5, <1>7, <1>8, SliceOfBlock DEF edge
<1>10. ~ IsEmpty(piece)
  BY <1>8, <1>9 DEF IsEmpty
<1>11. ~ Splits(piece, d)
  BY <1>5, SlicesNeverSplit
<1>12. d.last < edge(i + 1)
  BY <1>1, <1>5, <1>8, <1>9, <1>10, <1>11 DEF Splits
<1>13. d \in DocsIn(docs, piece)
  BY <1>6, <1>9, <1>12 DEF DocsIn
<1>14. QED
  BY <1>5, <1>7, <1>10, <1>13
-----------------------------------------------------------------------------
(* Counting blocks, and dealing n of them out to k workers in runs.        *)

LEMMA Quotient ==
  ASSUME NEW n \in Nat, NEW k \in Nat \ {0}
  PROVE  /\ n \div k \in Nat
         /\ n < (n \div k + 1) * k
         /\ (n \div k) * k <= n
         /\ (n * k) \div k = n
  OBVIOUS

LEMMA SmallMod ==
  ASSUME NEW n \in Nat, NEW m \in Nat, n < m
  PROVE  n % m = n
  OBVIOUS

\* A block that ends by n is one of the whole blocks of n.
LEMMA BlockCount ==
  ASSUME NEW n \in Nat, NEW k \in Nat \ {0}, NEW i \in Nat, i * k + k <= n
  PROVE  i < n \div k
<1> DEFINE q == n \div k
<1>1. q \in Nat /\ n < (q + 1) * k
  BY Quotient
<1> HIDE DEF q
<1>2. SUFFICES ASSUME q <= i PROVE FALSE
  BY <1>1 DEF q
<1>3. q + 1 \in Nat /\ i + 1 \in Nat /\ q + 1 <= i + 1
  BY <1>1, <1>2
<1>4. (q + 1) * k <= (i + 1) * k /\ (i + 1) * k = i * k + k
  BY <1>3, Products
<1>5. (q + 1) * k \in Nat /\ (i + 1) * k \in Nat
  BY <1>3, Products
<1>6. QED
  BY <1>1, <1>4, <1>5

\* Where the run of worker w begins when n blocks are dealt out to k workers.
Share(n, k, w) == (n * w) \div k

\* The runs follow one another and make up all blocks.
LEMMA Shares ==
  ASSUME NEW n \in Nat, NEW k \in Nat \ {0}
  PROVE  /\ \A v \in Nat : Share(n, k, v) \in Nat
         /\ \A v, w \in Nat : v <= w => n * v <= n * w /\ Share(n, k, v) <= Share(n, k, w)
         /\ Share(n, k, 0) = 0 /\ Share(n, k, k) = n
         /\ \A i \in Nat : i < n =>
              \E v \in 0 .. k - 1 : Share(n, k, v) <= i /\ i < Share(n, k, v + 1)
<1>1. ASSUME NEW v \in Nat PROVE n * v \in Nat /\ Share(n, k, v) \in Nat
  <2>1. n * v \in Nat
    OBVIOUS
  <2>2. QED
    BY <2>1, Quotient DEF Share
<1>2. ASSUME NEW v \in Nat, NEW w \in Nat, v <= w
      PROVE  n * v <= n * w /\ Share(n, k, v) <= Share(n, k, w)
  <2>1. PICK d \in Nat : w = v + d
    BY <1>2
  <2>2. n * w = n * v + n * d /\ n * d \in Nat /\ n * v \in Nat /\ n * w \in Nat
    BY <2>1
  <2>3. n * v <= n * w
    BY <2>2
  <2>4. \A a, b \in Nat : a <= b => a \div k <= b \div k
    OBVIOUS
  <2>5. QED
    BY <2>2, <2>3, <2>4 DEF Share
<1>3. Share(n, k, 0) = 0
  <2>1. n * 0 = 0 /\ 0 \div k = 0
    OBVIOUS
  <2>2. QED
    BY <2>1 DEF Share
<1>4. Share(n, k, k) = n
  BY Quotient DEF Share
<1>5. ASSUME NEW i \in Nat, i < n
      PROVE  \E v \in 0 .. k - 1 : Share(n, k, v) <= i /\ i < Share(n, k, v + 1)
  <2> DEFINE After == {v \in 0 .. k : i < Share(n, k, v)}
  <2>1. k \in After /\ After \in SUBSET Nat
    BY <1>4, <1>5
  <2>2. PICK u \in After : \A v \in After : u <= v
    BY <2>1, LeastElement
  <2>3. u \in 0 .. k /\ i < Share(n, k, u) /\ u # 0
    BY <1>3, <2>2
  <2>4. u - 1 \in 0 .. k - 1 /\ (u - 1) + 1 = u /\ u - 1 \in 0 .. k /\ ~ (u <= u - 1)
    BY <2>3
  <2>5. ~ (i < Share(n, k, u - 1)) /\ Share(n, k, u - 1) \in Nat
    BY <1>1, <2>2, <2>4
  <2>6. QED
    BY <2>3, <2>4, <2>5
<1>6. QED
  BY <1>1, <1>2, <1>3, <1>4, <1>5

-----------------------------------------------------------------------------
(* Sums over a finite set, in whatever order the fold takes its elements.  *)

AnyOf(s) == CHOOSE x \in s : TRUE

\* What the sums of the subsets of S add up.
SumStep(f, g, s) == IF s = {} THEN 0 ELSE f[AnyOf(s)] + g[s \ {AnyOf(s)}]

IsSum(f, S, g) == g = [s \in SUBSET S |-> SumStep(f, g, s)]

LEMMA SumIsFold ==
  ASSUME NEW S, NEW f
  PROVE  SumFunctionOnSet(f, S) = (CHOOSE g : IsSum(f, S, g))[S]
BY DEF SumFunctionOnSet, FoldFunctionOnSet, MapThenFoldSet, IsSum, SumStep, AnyOf

\* A subset without the element that is added first is smaller.
LEMMA RemovedIsSmaller ==
  ASSUME NEW S, IsFiniteSet(S), NEW s \in SUBSET S, NEW x \in s
  PROVE  /\ IsFiniteSet(s) /\ IsFiniteSet(s \ {x}) /\ s \ {x} \in SUBSET S
         /\ Cardinality(s) \in Nat /\ Cardinality(s \ {x}) \in Nat
         /\ Cardinality(s) = Cardinality(s \ {x}) + 1
         /\ Cardinality(s) <= Cardinality(S) /\ Cardinality(S) \in Nat
<1>1. IsFiniteSet(s) /\ Cardinality(s) <= Cardinality(S)
  BY FS_Subset
<1>2. IsFiniteSet(s \ {x}) /\ Cardinality(s \ {x}) = Cardinality(s) - 1
  BY <1>1, FS_RemoveElement
<1>3. Cardinality(s) \in Nat /\ Cardinality(s \ {x}) \in Nat /\ Cardinality(S) \in Nat
  BY <1>1, <1>2, FS_CardinalityType
<1>4. QED
  BY <1>1, <1>2, <1>3

LEMMA EmptyIsSmallest ==
  ASSUME NEW S, IsFiniteSet(S), NEW s \in SUBSET S
  PROVE  /\ Cardinality(s) \in Nat /\ Cardinality(s) <= Cardinality(S)
         /\ Cardinality(s) = 0 <=> s = {}
         /\ s # {} => AnyOf(s) \in s
<1>1. IsFiniteSet(s) /\ Cardinality(s) <= Cardinality(S)
  BY FS_Subset
<1>2. Cardinality(s) \in Nat /\ (Cardinality(s) = 0 <=> s = {})
  BY <1>1, FS_CardinalityType, FS_EmptySet
<1>3. s # {} => AnyOf(s) \in s
  BY DEF AnyOf
<1>4. QED
  BY <1>1, <1>2, <1>3

LEMMA RestIsSmaller ==
  ASSUME NEW S, IsFiniteSet(S), NEW s \in SUBSET S, s # {}
  PROVE  /\ AnyOf(s) \in s
         /\ s \ {AnyOf(s)} \in SUBSET S /\ Cardinality(s \ {AnyOf(s)}) \in Nat
         /\ Cardinality(s) = Cardinality(s \ {AnyOf(s)}) + 1
<1>1. PICK x \in s : x = AnyOf(s)
  BY EmptyIsSmallest
<1>2. /\ s \ {x} \in SUBSET S /\ Cardinality(s \ {x}) \in Nat
      /\ Cardinality(s) = Cardinality(s \ {x}) + 1
  BY RemovedIsSmaller
<1>3. QED
  BY <1>1, <1>2

\* There is such a function: one for the subsets of at most n elements, for each n.
LEMMA SumExists ==
  ASSUME NEW S, IsFiniteSet(S), NEW f, \A x \in S : f[x] \in Nat
  PROVE  \E g \in [SUBSET S -> Nat] : IsSum(f, S, g)
<1> DEFINE UpTo(n, g) == \A s \in SUBSET S : Cardinality(s) <= n => g[s] = SumStep(f, g, s)
           Bad == {n \in Nat : ~ \E g \in [SUBSET S -> Nat] : UpTo(n, g)}
<1>1. \A g \in [SUBSET S -> Nat] : \A s \in SUBSET S : SumStep(f, g, s) \in Nat
  <2>1. SUFFICES ASSUME NEW g \in [SUBSET S -> Nat], NEW s \in SUBSET S
                 PROVE  SumStep(f, g, s) \in Nat
    OBVIOUS
  <2>2. CASE s = {}
    BY <2>2 DEF SumStep
  <2>3. CASE s # {}
    <3>1. AnyOf(s) \in s
      BY <2>3, EmptyIsSmallest
    <3>2. f[AnyOf(s)] \in Nat /\ g[s \ {AnyOf(s)}] \in Nat
      BY <3>1
    <3>3. QED
      BY <2>3, <3>2 DEF SumStep
  <2>4. QED
    BY <2>2, <2>3
<1>2. 0 \notin Bad
  <2>1. [s \in SUBSET S |-> 0] \in [SUBSET S -> Nat]
    OBVIOUS
  <2>2. UpTo(0, [s \in SUBSET S |-> 0])
    <3>1. SUFFICES ASSUME NEW s \in SUBSET S, Cardinality(s) <= 0
                   PROVE  [t \in SUBSET S |-> 0][s] = SumStep(f, [t \in SUBSET S |-> 0], s)
      OBVIOUS
    <3>2. s = {}
      BY <3>1, EmptyIsSmallest
    <3>3. QED
      BY <3>2 DEF SumStep
  <2> HIDE DEF UpTo
  <2>3. QED
    BY <2>1, <2>2
<1>3. ASSUME NEW n \in Nat, NEW g \in [SUBSET S -> Nat], UpTo(n, g)
      PROVE  \E h \in [SUBSET S -> Nat] : UpTo(n + 1, h)
  <2> DEFINE h == [s \in SUBSET S |-> IF Cardinality(s) <= n THEN g[s] ELSE SumStep(f, g, s)]
  <2>1. h \in [SUBSET S -> Nat]
    BY <1>1
  <2>2. \A s \in SUBSET S : h[s] = SumStep(f, g, s)
    BY <1>3
  <2>3. \A s \in SUBSET S : Cardinality(s) <= n => h[s] = g[s]
    OBVIOUS
  <2> HIDE DEF h
  <2>4. UpTo(n + 1, h)
    <3>1. SUFFICES ASSUME NEW s \in SUBSET S, Cardinality(s) <= n + 1
                   PROVE  h[s] = SumStep(f, h, s)
      OBVIOUS
    <3>2. CASE s = {}
      BY <2>2, <3>2 DEF SumStep
    <3>3. CASE s # {}
      <4>1. AnyOf(s) \in s
        BY <3>3, EmptyIsSmallest
      <4>2. s \ {AnyOf(s)} \in SUBSET S /\ Cardinality(s \ {AnyOf(s)}) <= n
        <5>1. /\ s \ {AnyOf(s)} \in SUBSET S /\ Cardinality(s \ {AnyOf(s)}) \in Nat
              /\ Cardinality(s) = Cardinality(s \ {AnyOf(s)}) + 1
          BY <3>3, RestIsSmaller
        <5>2. QED
          BY <3>1, <5>1
      <4>3. h[s \ {AnyOf(s)}] = g[s \ {AnyOf(s)}]
        BY <2>3, <4>2
      <4>4. QED
        BY <2>2, <3>3, <4>3 DEF SumStep
    <3>4. QED
      BY <3>2, <3>3
  <2> HIDE DEF UpTo
  <2>5. QED
    BY <2>1, <2>4
<1> HIDE DEF UpTo
<1>4. Bad = {}
  <2>1. SUFFICES ASSUME Bad # {} PROVE FALSE
    OBVIOUS
  <2>2. PICK n \in Bad : \A m \in Bad : n <= m
    BY <2>1, LeastElement
  <2>3. n # 0 /\ n - 1 \in Nat /\ n - 1 \notin Bad
    <3>1. n \in Nat
      OBVIOUS
    <3> HIDE DEF Bad
    <3>2. QED
      BY <1>2, <2>2, <3>1
  <2>4. PICK g \in [SUBSET S -> Nat] : UpTo(n - 1, g)
    BY <2>3
  <2>5. \E h \in [SUBSET S -> Nat] : UpTo((n - 1) + 1, h)
    BY <1>3, <2>3, <2>4
  <2>6. (n - 1) + 1 = n
    BY <2>2
  <2>7. QED
    BY <2>5, <2>6
<1>5. Cardinality(S) \in Nat
  BY FS_CardinalityType
<1>6. PICK g \in [SUBSET S -> Nat] : UpTo(Cardinality(S), g)
  BY <1>4, <1>5
<1>7. \A s \in SUBSET S : g[s] = SumStep(f, g, s)
  BY <1>6, EmptyIsSmallest DEF UpTo
<1>8. g = [s \in SUBSET S |-> SumStep(f, g, s)]
  BY <1>7
<1>9. QED
  BY <1>8 DEF IsSum

\* The sums of the subsets of a set only depend on what is summed up there.
LEMMA SumIsUnique ==
  ASSUME NEW S, IsFiniteSet(S), NEW R \in SUBSET S, NEW f, NEW h,
         \A x \in R : f[x] = h[x],
         NEW g, IsSum(f, S, g), NEW k, IsSum(h, R, k)
  PROVE  \A s \in SUBSET R : g[s] = k[s]
<1> DEFINE Bad == {n \in Nat : \E s \in SUBSET R : Cardinality(s) = n /\ g[s] # k[s]}
<1>1. /\ \A s \in SUBSET R : g[s] = SumStep(f, g, s) /\ k[s] = SumStep(h, k, s)
      /\ IsFiniteSet(R)
  <2>1. \A s \in SUBSET S : g[s] = SumStep(f, g, s)
    BY DEF IsSum
  <2>2. \A s \in SUBSET R : k[s] = SumStep(h, k, s)
    BY DEF IsSum
  <2>3. QED
    BY <2>1, <2>2, FS_Subset
<1>2. Bad = {}
  <2>1. SUFFICES ASSUME Bad # {} PROVE FALSE
    OBVIOUS
  <2>2. PICK n \in Bad : \A m \in Bad : n <= m
    BY <2>1, LeastElement
  <2>3. PICK s \in SUBSET R : Cardinality(s) = n /\ g[s] # k[s]
    BY <2>2
  <2>4. s # {}
    BY <1>1, <2>3 DEF SumStep
  <2>5. /\ AnyOf(s) \in s
        /\ s \ {AnyOf(s)} \in SUBSET R /\ Cardinality(s \ {AnyOf(s)}) \in Nat
        /\ Cardinality(s) = Cardinality(s \ {AnyOf(s)}) + 1
    BY <1>1, <2>4, RestIsSmaller
  <2>6. /\ s \ {AnyOf(s)} \in SUBSET R /\ Cardinality(s \ {AnyOf(s)}) \in Nat
        /\ Cardinality(s \ {AnyOf(s)}) < n
    BY <2>3, <2>5
  <2>7. g[s \ {AnyOf(s)}] = k[s \ {AnyOf(s)}]
    BY <2>2, <2>6
  <2>8. QED
    BY <1>1, <2>3, <2>4, <2>5, <2>7 DEF SumStep
<1>3. QED
  BY <1>1, <1>2, EmptyIsSmallest

\* A sum is a number, the same for functions that agree, and adds up its first
\* element and the sum of the others.
LEMMA SumFacts ==
  ASSUME NEW S, IsFiniteSet(S), NEW f, \A x \in S : f[x] \in Nat
  PROVE  /\ SumFunctionOnSet(f, S) \in Nat
         /\ S = {} => SumFunctionOnSet(f, S) = 0
         /\ S # {} => /\ AnyOf(S) \in S
                      /\ SumFunctionOnSet(f, S) =
                           f[AnyOf(S)] + SumFunctionOnSet(f, S \ {AnyOf(S)})
         /\ \A h : (\A x \in S : f[x] = h[x]) =>
              SumFunctionOnSet(h, S) = SumFunctionOnSet(f, S)
<1> DEFINE Table(p, T) == CHOOSE g : IsSum(p, T, g)
<1>1. ASSUME NEW T \in SUBSET S, NEW p, \A x \in T : p[x] = f[x]
      PROVE  /\ IsSum(p, T, Table(p, T))
             /\ SumFunctionOnSet(p, T) = Table(p, T)[T]
  <2>1. IsFiniteSet(T) /\ \A x \in T : p[x] \in Nat
    BY <1>1, FS_Subset
  <2>2. \E g : IsSum(p, T, g)
    BY <2>1, SumExists
  <2>3. QED
    BY <2>2, SumIsFold
<1>2. IsSum(f, S, Table(f, S)) /\ SumFunctionOnSet(f, S) = Table(f, S)[S]
  BY <1>1
<1> HIDE DEF Table
<1>3. Table(f, S) \in [SUBSET S -> Nat]
  <2>1. PICK g \in [SUBSET S -> Nat] : IsSum(f, S, g)
    BY SumExists
  <2>2. \A s \in SUBSET S : Table(f, S)[s] = g[s]
    BY <1>2, <2>1, SumIsUnique
  <2>3. Table(f, S) = [s \in SUBSET S |-> SumStep(f, Table(f, S), s)]
    BY <1>2 DEF IsSum
  <2>4. QED
    BY <2>2, <2>3
<1>4. Table(f, S)[S] = SumStep(f, Table(f, S), S)
  BY <1>2 DEF IsSum
<1>5. S # {} => /\ AnyOf(S) \in S
                /\ SumFunctionOnSet(f, S) = f[AnyOf(S)] + SumFunctionOnSet(f, S \ {AnyOf(S)})
  <2>1. SUFFICES ASSUME S # {}
                 PROVE  /\ AnyOf(S) \in S
                        /\ SumFunctionOnSet(f, S) =
                             f[AnyOf(S)] + SumFunctionOnSet(f, S \ {AnyOf(S)})
    OBVIOUS
  <2>2. AnyOf(S) \in S
    BY <2>1, EmptyIsSmallest
  <2> DEFINE R == S \ {AnyOf(S)}
  <2>3. R \in SUBSET S
    OBVIOUS
  <2>4. IsSum(f, R, Table(f, R)) /\ SumFunctionOnSet(f, R) = Table(f, R)[R]
    BY <1>1, <2>3
  <2>5. Table(f, S)[R] = Table(f, R)[R]
    BY <1>2, <2>3, <2>4, SumIsUnique
  <2>6. QED
    BY <1>2, <1>4, <2>1, <2>2, <2>4, <2>5 DEF SumStep
<1>6. \A h : (\A x \in S : f[x] = h[x]) => SumFunctionOnSet(h, S) = SumFunctionOnSet(f, S)
  <2>1. SUFFICES ASSUME NEW h, \A x \in S : f[x] = h[x]
                 PROVE  SumFunctionOnSet(h, S) = SumFunctionOnSet(f, S)
    OBVIOUS
  <2>2. IsSum(h, S, Table(h, S)) /\ SumFunctionOnSet(h, S) = Table(h, S)[S]
    BY <1>1, <2>1
  <2>3. Table(f, S)[S] = Table(h, S)[S]
    BY <1>2, <2>1, <2>2, SumIsUnique
  <2>4. QED
    BY <1>2, <2>2, <2>3
<1>7. QED
  <2>1. SumFunctionOnSet(f, S) \in Nat
    BY <1>2, <1>3
  <2>2. S = {} => SumFunctionOnSet(f, S) = 0
    BY <1>2, <1>4 DEF SumStep
  <2>3. QED
    BY <1>5, <1>6, <2>1, <2>2

\* An element more adds its value, whichever element a sum begins with.
LEMMA SumAdds ==
  ASSUME NEW D, IsFiniteSet(D), NEW f, \A x \in D : f[x] \in Nat
  PROVE  \A S \in SUBSET D : \A x \in D \ S :
           SumFunctionOnSet(f, S \union {x}) = f[x] + SumFunctionOnSet(f, S)
<1> DEFINE Sum(S) == SumFunctionOnSet(f, S)
           Adds(S, x) == Sum(S \union {x}) = f[x] + Sum(S)
           Bad == {n \in Nat : \E S \in SUBSET D : \E x \in D \ S :
                                 Cardinality(S) = n /\ ~ Adds(S, x)}
<1>1. \A S \in SUBSET D :
        /\ Sum(S) \in Nat /\ Cardinality(S) \in Nat
        /\ S # {} => AnyOf(S) \in S /\ Sum(S) = f[AnyOf(S)] + Sum(S \ {AnyOf(S)})
  <2>1. SUFFICES ASSUME NEW S \in SUBSET D
                 PROVE  /\ Sum(S) \in Nat /\ Cardinality(S) \in Nat
                        /\ S # {} => AnyOf(S) \in S /\ Sum(S) = f[AnyOf(S)] + Sum(S \ {AnyOf(S)})
    OBVIOUS
  <2>2. IsFiniteSet(S) /\ \A x \in S : f[x] \in Nat
    BY FS_Subset
  <2>3. QED
    BY <2>2, SumFacts, FS_CardinalityType
<1> HIDE DEF Sum
<1>2. Bad = {}
  <2>1. SUFFICES ASSUME Bad # {} PROVE FALSE
    OBVIOUS
  <2>2. PICK n \in Bad : \A m \in Bad : n <= m
    BY <2>1, LeastElement
  <2>3. PICK S \in SUBSET D : \E x \in D \ S : Cardinality(S) = n /\ ~ Adds(S, x)
    BY <2>2
  <2>4. PICK x \in D \ S : Cardinality(S) = n /\ ~ Adds(S, x)
    BY <2>3
  <2> DEFINE c == AnyOf(S \union {x})
             R == S \ {c}
  <2>5. /\ c \in S \union {x}
        /\ Sum(S \union {x}) = f[c] + Sum((S \union {x}) \ {c})
    BY <1>1
  <2>6. c # x
    <3>1. SUFFICES ASSUME c = x PROVE FALSE
      OBVIOUS
    <3>2. (S \union {x}) \ {c} = S
      BY <2>4, <3>1
    <3>3. QED
      BY <2>4, <2>5, <3>1, <3>2
  <2> HIDE DEF c
  <2>7. /\ c \in S /\ c \in D \ R /\ x \in D \ R /\ R \in SUBSET D
        /\ (S \union {x}) \ {c} = R \union {x} /\ S = R \union {c}
    BY <2>4, <2>5, <2>6
  <2>8. Cardinality(R) \in Nat /\ Cardinality(R) < n
    BY <2>4, <2>7, RemovedIsSmaller
  <2> HIDE DEF R
  <2>9. \A y \in D \ R : Adds(R, y)
    <3>1. Cardinality(R) \notin Bad
      <4>1. n \in Nat
        OBVIOUS
      <4> HIDE DEF Bad
      <4>2. QED
        BY <2>2, <2>8, <4>1
    <3> HIDE DEF Adds
    <3>2. QED
      BY <2>7, <2>8, <3>1
  <2>10. Sum(S) = f[c] + Sum(R) /\ Sum(R \union {x}) = f[x] + Sum(R)
    BY <2>7, <2>9
  <2>11. f[c] \in Nat /\ f[x] \in Nat /\ Sum(R) \in Nat
    BY <1>1, <2>7
  <2>12. Sum(S \union {x}) = f[c] + (f[x] + Sum(R)) /\ Sum(S) = f[c] + Sum(R)
    BY <2>5, <2>7, <2>10
  <2>13. Sum(S \union {x}) = f[x] + Sum(S)
    BY <2>11, <2>12
  <2>14. QED
    BY <2>4, <2>13
<1>3. QED
  BY <1>1, <1>2 DEF Sum

\* Functions that differ at one place, by one.
LEMMA SumOneMore ==
  ASSUME NEW S, IsFiniteSet(S), NEW f \in [S -> Nat], NEW x \in S
  PROVE  SumFunction([f EXCEPT ![x] = @ + 1]) = SumFunction(f) + 1
<1> DEFINE R == S \ {x}
<1>0. PICK h : h = [f EXCEPT ![x] = @ + 1]
  OBVIOUS
<1>1. h \in [S -> Nat] /\ h[x] = f[x] + 1 /\ \A y \in R : h[y] = f[y]
  BY <1>0
<1>2. SumFunction(h) = SumFunctionOnSet(h, S) /\ SumFunction(f) = SumFunctionOnSet(f, S)
  BY <1>1 DEF SumFunction
<1>3. /\ SumFunctionOnSet(f, R \union {x}) = f[x] + SumFunctionOnSet(f, R)
      /\ SumFunctionOnSet(h, R \union {x}) = h[x] + SumFunctionOnSet(h, R)
  BY <1>1, SumAdds
<1>4. SumFunctionOnSet(f, R) \in Nat /\ SumFunctionOnSet(h, R) = SumFunctionOnSet(f, R)
  <2>1. IsFiniteSet(R) /\ \A y \in R : f[y] \in Nat /\ f[y] = h[y]
    BY <1>1, FS_Subset
  <2>2. QED
    BY <2>1, SumFacts
<1>5. R \union {x} = S
  OBVIOUS
<1> HIDE DEF R
<1>6. SumFunction(h) = SumFunction(f) + 1
  <2>1. f[x] \in Nat
    OBVIOUS
  <2>2. SumFunction(f) = f[x] + SumFunctionOnSet(f, R)
    BY <1>2, <1>3, <1>5
  <2>3. SumFunction(h) = (f[x] + 1) + SumFunctionOnSet(f, R)
    BY <1>1, <1>2, <1>3, <1>4, <1>5
  <2>4. QED
    BY <1>4, <2>1, <2>2, <2>3
<1>7. QED
  BY <1>0, <1>6

\* The sum of nothing but zeros.
LEMMA SumOfZeros ==
  ASSUME NEW D, IsFiniteSet(D)
  PROVE  SumFunction([x \in D |-> 0]) = 0
<1> DEFINE z == [x \in D |-> 0]
           Bad == {n \in Nat : \E S \in SUBSET D : Cardinality(S) = n /\ SumFunctionOnSet(z, S) # 0}
<1>1. Bad = {}
  <2>1. SUFFICES ASSUME Bad # {} PROVE FALSE
    OBVIOUS
  <2>2. PICK n \in Bad : \A m \in Bad : n <= m
    BY <2>1, LeastElement
  <2>3. PICK S \in SUBSET D : Cardinality(S) = n /\ SumFunctionOnSet(z, S) # 0
    BY <2>2
  <2>4. IsFiniteSet(S) /\ \A x \in S : z[x] \in Nat /\ z[x] = 0
    BY FS_Subset
  <2> HIDE DEF z
  <2>5. PICK x \in S : SumFunctionOnSet(z, S) = z[x] + SumFunctionOnSet(z, S \ {x})
    BY <2>3, <2>4, SumFacts
  <2>6. S \ {x} \in SUBSET D /\ Cardinality(S \ {x}) \in Nat /\ Cardinality(S \ {x}) < n
    BY <2>3, <2>4, RemovedIsSmaller
  <2>7. Cardinality(S \ {x}) \notin Bad
    <3>1. n \in Nat
      OBVIOUS
    <3> HIDE DEF Bad
    <3>2. QED
      BY <2>2, <2>6, <3>1
  <2>8. SumFunctionOnSet(z, S \ {x}) = 0
    BY <2>6, <2>7
  <2>9. QED
    BY <2>3, <2>4, <2>5, <2>8
<1>2. DOMAIN z = D /\ Cardinality(D) \in Nat
  BY FS_CardinalityType
<1> HIDE DEF z
<1>3. QED
  BY <1>1, <1>2 DEF SumFunction, z

\* The sums over the intervals that begin at a, each from the one before it.
LEMMA IntervalSums ==
  ASSUME NEW a \in Int, NEW n \in Nat, NEW f, \A x \in a .. a + n - 1 : f[x] \in Nat
  PROVE  /\ \A k \in 0 .. n : SumFunctionOnSet(f, a .. a + k - 1) \in Nat
         /\ SumFunctionOnSet(f, a .. a + 0 - 1) = 0
         /\ \A k \in 1 .. n : SumFunctionOnSet(f, a .. a + k - 1) =
                              f[a + k - 1] + SumFunctionOnSet(f, a .. a + (k - 1) - 1)
<1> DEFINE D == a .. a + n - 1
           Sum(k) == SumFunctionOnSet(f, a .. a + k - 1)
<1>1. Sum(0) = 0
  <2>1. a .. a + 0 - 1 = {}
    OBVIOUS
  <2>2. QED
    BY <2>1, FS_EmptySet, SumFacts
<1>2. ASSUME NEW k \in 1 .. n PROVE Sum(k) = f[a + k - 1] + Sum(k - 1)
  <2> DEFINE S == a .. a + (k - 1) - 1
             x == a + k - 1
  <2>1. S \in SUBSET D /\ x \in D \ S /\ S \union {x} = a .. a + k - 1
    OBVIOUS
  <2>2. IsFiniteSet(D)
    <3>1. a + n - 1 \in Int
      OBVIOUS
    <3>2. QED
      BY <3>1, FS_Interval
  <2>3. SumFunctionOnSet(f, S \union {x}) = f[x] + SumFunctionOnSet(f, S)
    <3>1. \A y \in D : f[y] \in Nat
      OBVIOUS
    <3> HIDE DEF D, S, x
    <3>2. QED
      BY <2>1, <2>2, <3>1, SumAdds
  <2>4. QED
    BY <2>1, <2>3
<1>3. ASSUME NEW k \in 0 .. n PROVE Sum(k) \in Nat
  <2>1. a + k - 1 \in Int /\ a .. a + k - 1 \subseteq D
    OBVIOUS
  <2>2. IsFiniteSet(a .. a + k - 1) /\ \A x \in a .. a + k - 1 : f[x] \in Nat
    BY <2>1, FS_Interval
  <2>3. QED
    BY <2>2, SumFacts
<1>4. QED
  BY <1>1, <1>2, <1>3

\* g[k] is what has been added up after k values of f, the first that of a.
AddsUp(f, g, a, n) ==
  /\ \A x \in a .. a + n - 1 : f[x] \in Nat
  /\ g[0] = 0
  /\ \A k \in 1 .. n : g[k] = g[k - 1] + f[a + k - 1]

\* What is added up along an interval is the sum over it.
LEMMA PrefixSums ==
  ASSUME NEW a \in Int, NEW n \in Nat, NEW f, NEW g, AddsUp(f, g, a, n)
  PROVE  \A k \in 0 .. n : SumFunctionOnSet(f, a .. a + k - 1) = g[k] /\ g[k] \in Nat
<1> DEFINE Sum(k) == SumFunctionOnSet(f, a .. a + k - 1)
           Bad == {k \in 0 .. n : ~ (Sum(k) = g[k] /\ g[k] \in Nat)}
<1>0. /\ \A x \in a .. a + n - 1 : f[x] \in Nat
      /\ g[0] = 0
      /\ \A k \in 1 .. n : g[k] = g[k - 1] + f[a + k - 1]
  BY DEF AddsUp
<1>1. Sum(0) = 0 /\ \A k \in 1 .. n : Sum(k) = f[a + k - 1] + Sum(k - 1)
  BY <1>0, IntervalSums
<1> HIDE DEF Sum
<1>2. Bad = {}
  <2>1. SUFFICES ASSUME Bad # {} PROVE FALSE
    OBVIOUS
  <2>2. PICK k \in Bad : \A m \in Bad : k <= m
    <3>1. Bad \in SUBSET Nat
      OBVIOUS
    <3>2. QED
      BY <2>1, <3>1, LeastElement
  <2>3. k \in 1 .. n /\ k - 1 \in 0 .. n /\ ~ (k <= k - 1)
    BY <1>0, <1>1
  <2>4. Sum(k - 1) = g[k - 1] /\ g[k - 1] \in Nat
    BY <2>2, <2>3
  <2>5. a + k - 1 \in a .. a + n - 1 /\ f[a + k - 1] \in Nat
    BY <1>0, <2>3
  <2>6. Sum(k) = f[a + k - 1] + Sum(k - 1) /\ g[k] = g[k - 1] + f[a + k - 1]
    BY <1>0, <1>1, <2>3
  <2>7. QED
    BY <2>4, <2>5, <2>6
<1>3. QED
  BY <1>2 DEF Sum

-----------------------------------------------------------------------------
(* Bags.                                                                   *)

LEMMA BagSum ==
  ASSUME NEW A, IsABag(A), NEW B, IsABag(B)
  PROVE  IsABag(A (+) B) /\ BagToSet(A (+) B) = BagToSet(A) \union BagToSet(B)
<1>1. /\ DOMAIN (A (+) B) = DOMAIN A \union DOMAIN B
      /\ \A e \in DOMAIN A \union DOMAIN B :
           (A (+) B)[e] = (IF e \in DOMAIN A THEN A[e] ELSE 0) + (IF e \in DOMAIN B THEN B[e] ELSE 0)
      /\ A (+) B = [e \in DOMAIN (A (+) B) |-> (A (+) B)[e]]
  BY DEF (+)
<1>2. /\ \A e \in DOMAIN A : A[e] \in Nat /\ A[e] > 0
      /\ \A e \in DOMAIN B : B[e] \in Nat /\ B[e] > 0
  BY DEF IsABag
<1>3. \A e \in DOMAIN (A (+) B) : (A (+) B)[e] \in {n \in Nat : n > 0}
  BY <1>1, <1>2
<1>4. QED
  BY <1>1, <1>3 DEF IsABag, BagToSet

LEMMA BagOfSet ==
  ASSUME NEW S
  PROVE  IsABag(SetToBag(S)) /\ BagToSet(SetToBag(S)) = S /\ DOMAIN SetToBag(S) = S
  BY DEF IsABag, SetToBag, BagToSet

LEMMA SumOfSets ==
  ASSUME NEW S, NEW T, S \intersect T = {}
  PROVE  SetToBag(S) (+) SetToBag(T) = SetToBag(S \union T)
<1>1. DOMAIN SetToBag(S) = S /\ DOMAIN SetToBag(T) = T
  BY DEF SetToBag
<1>2. SetToBag(S) (+) SetToBag(T) =
        [e \in S \union T |-> (IF e \in S THEN SetToBag(S)[e] ELSE 0)
                              + (IF e \in T THEN SetToBag(T)[e] ELSE 0)]
  BY <1>1 DEF (+)
<1>3. \A e \in S \union T :
        (IF e \in S THEN SetToBag(S)[e] ELSE 0) + (IF e \in T THEN SetToBag(T)[e] ELSE 0) = 1
  BY DEF SetToBag
<1>4. SetToBag(S) (+) SetToBag(T) = [e \in S \union T |-> 1]
  BY <1>2, <1>3
<1>5. QED
  BY <1>4 DEF SetToBag
=============================================================================
