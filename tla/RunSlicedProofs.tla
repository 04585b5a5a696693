--------------------------- MODULE RunSlicedProofs ---------------------------
(***************************************************************************)
(* Theorems about run_sliced, for every set of calls, any number of        *)
(* threads and any size of text, slices and machine word: workers are      *)
(* handed whole lines, each line once, and together extract what the       *)
(* serial driver does.                                                     *)
(***************************************************************************)
EXTENDS RunSliced, SlicingProofs, FiniteSetTheorems

-----------------------------------------------------------------------------
(* Lines.                                                                  *)

\* Where a line that begins at s ends: inside the piece, before the next line feed.
LEMMA StopPosition ==
  ASSUME NEW text, IsCorpus(text), NEW end \in 0 .. text.length,
         NEW s \in Nat, s < end
  PROVE  /\ StopOf(text, s, end) \in s .. end
         /\ \A p \in text.lf : s <= p /\ p < end => StopOf(text, s, end) <= p
<1> DEFINE feeds == {p \in text.lf : s <= p /\ p < end}
           eol == IF feeds = {} THEN end ELSE CHOOSE p \in feeds : \A q \in feeds : p <= q
           Ends == {s} \union {p + 1 : p \in {p \in s .. eol - 1 : p \notin text.blank}}
<1>1. text.length \in Nat /\ text.lf \in SUBSET (0 .. text.length - 1)
  BY DEF IsCorpus
<1>2. eol \in s .. end /\ \A q \in feeds : eol <= q
  <2>1. CASE feeds = {}
    BY <2>1
  <2>2. CASE feeds # {}
    <3>1. feeds \in SUBSET Nat
      BY <1>1
    <3>2. \E p \in feeds : \A q \in feeds : p <= q
      BY <2>2, <3>1, LeastElement
    <3>3. eol \in feeds /\ \A q \in feeds : eol <= q
      BY <2>2, <3>2
    <3>4. QED
      BY <1>1, <3>3
  <2>3. QED
    BY <2>1, <2>2
<1>3. StopOf(text, s, end) = Max(Ends)
  BY DEF StopOf
<1> HIDE DEF eol
<1>4. Ends \in SUBSET (s .. eol) /\ s \in Ends
  BY <1>2
<1>5. Ends \in SUBSET (0 .. eol) /\ eol \in Nat
  BY <1>2, <1>4
<1> HIDE DEF Ends
<1>6. Max(Ends) \in s .. eol
  BY <1>4, <1>5, MaxFacts
<1>7. QED
  BY <1>1, <1>2, <1>3, <1>6

\* The end of the piece makes no difference to a line, when the piece ends with the
\* text or just past a line feed.
LEMMA StopSame ==
  ASSUME NEW text, IsCorpus(text), NEW end \in 0 .. text.length,
         NEW s \in Nat, s < end, end = text.length \/ end - 1 \in text.lf
  PROVE  StopOf(text, s, end) = StopOf(text, s, text.length)
<1> DEFINE feeds(e) == {p \in text.lf : s <= p /\ p < e}
           eol(e) == IF feeds(e) = {} THEN e ELSE CHOOSE p \in feeds(e) : \A q \in feeds(e) : p <= q
           length == text.length
<1>1. length \in Nat /\ \A p \in text.lf : p \in 0 .. length - 1
  BY DEF IsCorpus
<1>2. CASE end = length
  BY <1>2
<1>3. CASE end # length
  <2>1. end - 1 \in feeds(end) /\ end - 1 \in feeds(length)
    BY <1>1, <1>3
  <2>2. \A p \in feeds(length) : p \in feeds(end) \/ end - 1 < p
    BY <1>1
  <2>3. feeds(end) \subseteq feeds(length) /\ \A p \in feeds(length) : p \in Nat
    BY <1>1
  <2>4. PICK p \in feeds(end) : \A q \in feeds(end) : p <= q
    <3>1. feeds(end) \in SUBSET Nat
      BY <2>3
    <3>2. QED
      BY <2>1, <3>1, LeastElement
  <2>5. p \in feeds(length) /\ \A q \in feeds(length) : p <= q
    BY <1>1, <2>1, <2>2, <2>3, <2>4
  <2> HIDE DEF feeds
  <2>6. eol(end) = p
    <3>1. \A x \in feeds(end) : (\A q \in feeds(end) : x <= q) => x = p
      BY <2>3, <2>4
    <3>2. QED
      BY <2>1, <2>4, <3>1
  <2>7. eol(length) = p
    <3>1. \A x \in feeds(length) : (\A q \in feeds(length) : x <= q) => x = p
      BY <2>3, <2>5
    <3>2. QED
      BY <2>1, <2>5, <3>1
  <2> HIDE DEF eol, length
  <2>8. eol(end) = eol(length)
    BY <2>6, <2>7
  <2>9. \A e : StopOf(text, s, e) =
                Max({s} \union {q + 1 : q \in {q \in s .. eol(e) - 1 : q \notin text.blank}})
    BY Zenon DEF StopOf, eol, feeds
  <2>10. QED
    BY <2>8, <2>9 DEF length
<1>4. QED
  BY <1>2, <1>3

-----------------------------------------------------------------------------
(* The lines of a corpus.                                                  *)

AllLines(text) == LinesIn(text, 0, text.length)

\* A line begins at the begin of the piece or after a line feed, and has the end of
\* its begin.
LEMMA LineFacts ==
  ASSUME NEW text, IsCorpus(text), NEW begin \in Nat, NEW end \in 0 .. text.length,
         NEW l \in LinesIn(text, begin, end)
  PROVE  /\ l = [first |-> l.first, last |-> StopOf(text, l.first, end) - 1]
         /\ l.first = begin \/ (l.first - 1 \in text.lf /\ l.first - 1 >= begin)
         /\ l.first \in begin .. end - 1 /\ l.last \in begin .. end - 1 /\ l.first <= l.last
         /\ \A p \in text.lf : ~ (l.first <= p /\ p <= l.last)
<1>1. /\ text.length \in Nat
      /\ \A p \in text.lf : p \in Nat
  BY DEF IsCorpus
<1>2. PICK s \in LineStarts(text, begin, end) :
        /\ StopOf(text, s, end) > s
        /\ l = [first |-> s, last |-> StopOf(text, s, end) - 1]
  BY DEF LinesIn
<1>3. /\ s < end /\ s \in Nat /\ s >= begin
      /\ s = begin \/ (s - 1 \in text.lf /\ s - 1 >= begin)
  BY <1>1, <1>2 DEF LineStarts
<1>4. /\ StopOf(text, s, end) \in s .. end
      /\ \A p \in text.lf : s <= p /\ p < end => StopOf(text, s, end) <= p
  BY <1>3, StopPosition
<1>5. l.first = s /\ l.last = StopOf(text, s, end) - 1
  BY <1>2
<1>6. QED
  BY <1>1, <1>2, <1>3, <1>4, <1>5

\* Two lines do not overlap.
LEMMA LinesApart ==
  ASSUME NEW text, IsCorpus(text), NEW l \in AllLines(text), NEW m \in AllLines(text)
  PROVE  l = m \/ l.last < m.first \/ m.last < l.first
<1>1. text.length \in Nat /\ \A p \in text.lf : p \in Nat
  BY DEF IsCorpus
<1>2. \A k \in AllLines(text) :
        /\ k = [first |-> k.first, last |-> StopOf(text, k.first, text.length) - 1]
        /\ k.first = 0 \/ k.first - 1 \in text.lf
        /\ k.first \in Nat /\ k.last \in Nat /\ k.first <= k.last
        /\ \A p \in text.lf : ~ (k.first <= p /\ p <= k.last)
  BY <1>1, LineFacts DEF AllLines
<1>3. ASSUME NEW a \in AllLines(text), NEW b \in AllLines(text), a.first < b.first
      PROVE  a.last < b.first
  <2>1. b.first - 1 \in text.lf /\ a.first <= b.first - 1
    BY <1>2, <1>3
  <2>2. ~ (b.first - 1 <= a.last)
    BY <1>2, <2>1
  <2>3. QED
    BY <1>2, <2>2
<1>4. l.first = m.first => l = m
  BY <1>2
<1>5. QED
  BY <1>2, <1>3, <1>4

\* The lines of a piece whose ends are snapped are those of the text that lie in it.
LEMMA LinesOfPiece ==
  ASSUME NEW text, IsCorpus(text), NEW begin \in Nat, NEW end \in 0 .. text.length,
         begin < end,
         begin = 0 \/ begin - 1 \in text.lf,
         end = text.length \/ end - 1 \in text.lf
  PROVE  LinesIn(text, begin, end) = DocsIn(AllLines(text), [begin |-> begin, end |-> end])
<1>1. text.length \in Nat /\ \A p \in text.lf : p \in 0 .. text.length - 1
  BY DEF IsCorpus
<1>2. \A s \in Nat : s < end => StopOf(text, s, end) = StopOf(text, s, text.length)
  BY StopSame
<1>3. ASSUME NEW l \in LinesIn(text, begin, end)
      PROVE  l \in AllLines(text) /\ begin <= l.first /\ l.last < end
  <2>1. PICK s \in LineStarts(text, begin, end) :
          /\ StopOf(text, s, end) > s
          /\ l = [first |-> s, last |-> StopOf(text, s, end) - 1]
    BY DEF LinesIn
  <2>2. s \in Nat /\ s < end
    BY <1>1, <2>1 DEF LineStarts
  <2>3. s \in LineStarts(text, 0, text.length)
    BY <1>1, <2>1 DEF LineStarts
  <2>4. StopOf(text, s, end) = StopOf(text, s, text.length)
    BY <1>2, <2>2
  <2>5. l \in AllLines(text)
    BY <2>1, <2>3, <2>4 DEF AllLines, LinesIn
  <2>6. QED
    BY <2>5, LineFacts
<1>4. ASSUME NEW l \in AllLines(text), begin <= l.first, l.last < end
      PROVE  l \in LinesIn(text, begin, end)
  <2>1. PICK s \in LineStarts(text, 0, text.length) :
          /\ StopOf(text, s, text.length) > s
          /\ l = [first |-> s, last |-> StopOf(text, s, text.length) - 1]
    BY DEF LinesIn, AllLines
  <2>2. l.first \in Nat /\ l.last \in Nat /\ l.first <= l.last
    BY <1>1, LineFacts DEF AllLines
  <2>3. s \in Nat /\ s < end /\ begin <= s
    BY <1>4, <2>1, <2>2
  <2>4. s \in LineStarts(text, begin, end)
    BY <1>1, <2>1, <2>3 DEF LineStarts
  <2>5. StopOf(text, s, end) = StopOf(text, s, text.length)
    BY <1>2, <2>3
  <2>6. QED
    BY <2>1, <2>4, <2>5 DEF LinesIn
<1>5. QED
  BY <1>3, <1>4 DEF DocsIn

-----------------------------------------------------------------------------
(* Facts about the constants of a call.                                    *)

LEMMA RunFacts ==
  ASSUME NEW r \in Runs
  PROVE  /\ IsCorpus(r.text) /\ r.text.length \in Nat
         /\ r.text.lf \in SUBSET (0 .. r.text.length - 1)
         /\ Threads(r) \in Nat \ {0}
         /\ Workers(r) = 0 .. Threads(r) - 1
         /\ SliceBytes(r) \in Nat \ {0}
         /\ Slices(r) \in Nat
         /\ r.stat \in BOOLEAN
         /\ WordSize \in Nat \ {0}
         /\ \A n \in Nat : Wrap(n) \in 0 .. WordSize - 1
         /\ \A w \in Nat : RunBound(r, w) \in Nat
<1>1. /\ IsCorpus(r.text) /\ r.threads \in Nat /\ r.slice_bytes \in Nat /\ r.stat \in BOOLEAN
      /\ WordSize \in Nat \ {0} /\ DefaultSliceBytes \in Nat \ {0}
  BY RunSlicedAssumption
<1>2. r.text.length \in Nat /\ r.text.lf \in SUBSET (0 .. r.text.length - 1)
  BY <1>1 DEF IsCorpus
<1>3. Threads(r) \in Nat \ {0} /\ Workers(r) = 0 .. Threads(r) - 1
  BY <1>1 DEF Threads, Workers
<1>4. SliceBytes(r) \in Nat \ {0}
  BY <1>1 DEF SliceBytes
<1>5. \A n \in Nat : Wrap(n) \in 0 .. WordSize - 1
  BY <1>1 DEF Wrap
<1>6. Slices(r) \in Nat
  <2>1. r.text.length + SliceBytes(r) - 1 \in Nat
    BY <1>2, <1>4
  <2>2. Wrap(r.text.length + SliceBytes(r) - 1) \in Nat
    BY <1>1, <1>5, <2>1
  <2>3. QED
    BY <1>4, <2>2, Quotient DEF Slices
<1>7. ASSUME NEW w \in Nat PROVE RunBound(r, w) \in Nat
  <2>1. Slices(r) * w \in Nat
    BY <1>6
  <2>2. Wrap(Slices(r) * w) \in Nat
    BY <1>1, <1>5, <2>1
  <2>3. QED
    BY <1>3, <2>2, Quotient DEF RunBound
<1>8. QED
  BY <1>1, <1>2, <1>3, <1>4, <1>5, <1>6, <1>7

\* Every line is a pair of positions of the text, no longer than the longest, and not
\* split by a line feed.
LEMMA AllLinesFacts ==
  ASSUME NEW r \in Runs
  PROVE  /\ AllLines(r.text) \subseteq Extents(r)
         /\ \A l \in AllLines(r.text) : l.first <= l.last /\ Size(l) <= Longest(r.text)
         /\ Longest(r.text) \in Nat
         /\ DelimiterFree(r.text.lf, AllLines(r.text))
<1> DEFINE length == r.text.length
           sizes == {Size(l) : l \in AllLines(r.text)}
<1>1. IsCorpus(r.text) /\ length \in Nat
  BY RunFacts
<1>2. ASSUME NEW l \in AllLines(r.text)
      PROVE  /\ l = [first |-> l.first, last |-> l.last]
             /\ l.first \in 0 .. length - 1 /\ l.last \in 0 .. length - 1 /\ l.first <= l.last
             /\ \A p \in r.text.lf : ~ (l.first <= p /\ p <= l.last)
  <2>1. l \in LinesIn(r.text, 0, length) /\ 0 \in Nat /\ length \in 0 .. length
    BY <1>1 DEF AllLines
  <2>2. l = [first |-> l.first, last |-> StopOf(r.text, l.first, length) - 1]
    BY <1>1, <2>1, LineFacts
  <2>3. QED
    BY <1>1, <2>1, <2>2, LineFacts
<1>3. AllLines(r.text) \subseteq Extents(r)
  BY <1>2 DEF Extents
<1>4. DelimiterFree(r.text.lf, AllLines(r.text))
  BY <1>2 DEF DelimiterFree
<1>5. {0} \union sizes \in SUBSET (0 .. length)
  <2>1. \A l \in AllLines(r.text) : Size(l) \in 0 .. length
    BY <1>1, <1>2 DEF Size
  <2>2. QED
    BY <1>1, <2>1
<1>6. /\ Max({0} \union sizes) \in Nat
      /\ \A n \in {0} \union sizes : n <= Max({0} \union sizes)
  <2> DEFINE all == {0} \union sizes
  <2>1. all \in SUBSET (0 .. length) /\ all # {}
    BY <1>5
  <2> HIDE DEF all
  <2>2. Max(all) \in all /\ \A n \in all : n <= Max(all)
    BY <1>1, <2>1, MaxFacts
  <2>3. QED
    BY <1>1, <2>1, <2>2 DEF all
<1>7. Longest(r.text) = Max({0} \union sizes)
  BY DEF Longest, AllLines
<1>8. QED
  BY <1>2, <1>3, <1>4, <1>6, <1>7

\* The lines a worker is handed are lines of the text, wherever the block begins.
LEMMA LinesOfSlice ==
  ASSUME NEW r \in Runs, NEW raw \in Nat
  PROVE  LinesOf(r, SliceFrom(r, raw)) \subseteq AllLines(r.text)
<1> DEFINE length == r.text.length
           lf == r.text.lf
           piece == SliceFrom(r, raw)
           stop == Wrap(raw + SliceBytes(r))
<1>1. /\ IsCorpus(r.text) /\ length \in Nat /\ lf \in SUBSET (0 .. length - 1)
      /\ stop \in Nat
  <2>1. SliceBytes(r) \in Nat \ {0} /\ WordSize \in Nat \ {0}
    BY RunFacts
  <2>2. raw + SliceBytes(r) \in Nat
    BY <2>1
  <2>3. stop \in Nat
    BY <2>1, <2>2 DEF Wrap
  <2>4. QED
    BY <2>3, RunFacts
<1>2. /\ piece.begin = IF raw = 0 THEN 0 ELSE Snap(length, lf, raw)
      /\ piece.end = Snap(length, lf, stop)
  BY DEF SliceFrom
<1> HIDE DEF piece, stop
<1>3. /\ piece.begin \in 0 .. length
      /\ piece.begin = 0 \/ piece.begin = length \/ piece.begin - 1 \in lf
      /\ piece.end \in 0 .. length
      /\ piece.end = length \/ piece.end - 1 \in lf
  BY <1>1, <1>2, SnapPosition
<1>4. CASE IsEmpty(piece)
  BY <1>4 DEF LinesOf, piece
<1>5. CASE ~ IsEmpty(piece)
  <2>1. piece.begin < piece.end
    BY <1>1, <1>3, <1>5 DEF IsEmpty
  <2>2. piece.begin = 0 \/ piece.begin - 1 \in lf
    BY <1>1, <1>3, <2>1
  <2>3. LinesIn(r.text, piece.begin, piece.end) \subseteq AllLines(r.text)
    BY <1>1, <1>3, <2>1, <2>2, LinesOfPiece DEF DocsIn
  <2>4. QED
    BY <1>5, <2>3 DEF LinesOf, piece
<1>6. QED
  BY <1>4, <1>5

-----------------------------------------------------------------------------
(* Blocks, while the counters do not overflow.                             *)

\* The lines of block i.
Block(r, i) ==
  LET piece == SliceAt(r.text.length, r.text.lf, SliceBytes(r), i)
  IN IF IsEmpty(piece) THEN {} ELSE DocsIn(AllLines(r.text), piece)

LEMMA OneMoreBlockFits ==
  ASSUME NEW r \in Runs, NothingWraps(r)
  PROVE  r.text.length + SliceBytes(r) - 1 < WordSize
<1> DEFINE T == Threads(r)
           S == SliceBytes(r)
<1>1. T \in Nat /\ S \in Nat \ {0} /\ r.text.length \in Nat /\ WordSize \in Nat
  BY RunFacts
<1>2. CASE r.stat
  BY <1>2 DEF NothingWraps
<1>3. CASE ~ r.stat
  <2>1. (T + 1) * S = T * S + S /\ T * S \in Nat
    BY <1>1
  <2>2. r.text.length - 1 + (T + 1) * S < WordSize
    BY <1>3 DEF NothingWraps
  <2> HIDE DEF T, S
  <2>3. r.text.length + S - 1 < WordSize
    BY <1>1, <2>1, <2>2
  <2>4. QED
    BY <2>3 DEF S
<1>4. QED
  BY <1>2, <1>3

\* What a worker makes of the block at byte i * SliceBytes(r).
LEMMA LinesOfBlock ==
  ASSUME NEW r \in Runs, NothingWraps(r), NEW i \in Nat,
         i * SliceBytes(r) < r.text.length
  PROVE  LinesOf(r, SliceFrom(r, i * SliceBytes(r))) = Block(r, i)
<1> DEFINE length == r.text.length
           lf == r.text.lf
           S == SliceBytes(r)
           raw == i * S
           piece == SliceFrom(r, raw)
           slice == SliceAt(length, lf, S, i)
           edge(k) == Edge(length, lf, S, k)
<1>1. /\ IsCorpus(r.text) /\ length \in Nat /\ lf \in SUBSET (0 .. length - 1)
      /\ S \in Nat \ {0} /\ WordSize \in Nat \ {0}
  BY RunFacts
<1>2. raw \in Nat /\ raw + S = (i + 1) * S /\ (raw = 0 <=> i = 0) /\ i + 1 # 0 /\ i + 1 \in Nat
  <2>1. i + 1 # 0 /\ i + 1 \in Nat
    OBVIOUS
  <2> HIDE DEF S
  <2>2. QED
    BY <1>1, <2>1, Products
<1>3. Wrap(raw + S) = raw + S
  <2>1. length + S - 1 < WordSize
    BY OneMoreBlockFits
  <2>2. raw + S \in Nat /\ raw + S < WordSize /\ WordSize \in Nat
    <3> HIDE DEF raw, S
    <3>1. raw < length
      BY DEF raw, S
    <3>2. QED
      BY <1>1, <1>2, <2>1, <3>1
  <2>3. QED
    BY <2>2, SmallMod DEF Wrap
<1>4. piece = [begin |-> edge(i), end |-> edge(i + 1)]
  BY <1>2, <1>3 DEF SliceFrom, Edge
<1>5. edge(i) \in 0 .. length /\ edge(i + 1) \in 0 .. length
  BY <1>1, <1>2, EdgeMonotone
<1>6. \A k \in Nat : edge(k) = 0 \/ edge(k) = length \/ edge(k) - 1 \in lf
  <2>1. \A k \in Nat : k * S \in Nat
    BY <1>1
  <2>2. QED
    BY <1>1, <2>1, SnapPosition DEF Edge
<1>7. CASE IsEmpty(piece)
  <2>1. ~ (edge(i) < edge(i + 1))
    BY <1>4, <1>5, <1>7 DEF IsEmpty
  <2>2. IsEmpty(slice)
    <3>1. SUFFICES ASSUME ~ IsEmpty(slice) PROVE FALSE
      OBVIOUS
    <3>2. slice.begin = edge(i) /\ slice.end = edge(i + 1)
      BY <1>1, <3>1, SliceBetweenEdges
    <3>3. QED
      BY <1>5, <2>1, <3>1, <3>2 DEF IsEmpty
  <2>3. QED
    BY <1>7, <2>2 DEF LinesOf, Block
<1>8. CASE ~ IsEmpty(piece)
  <2>1. edge(i) < edge(i + 1)
    BY <1>4, <1>5, <1>8 DEF IsEmpty
  <2>2. slice = [begin |-> edge(i), end |-> edge(i + 1)]
    BY <1>1, <2>1, SliceOfBlock
  <2>3. edge(i) = 0 \/ edge(i) - 1 \in lf
    BY <1>1, <1>5, <1>6, <2>1
  <2>4. edge(i + 1) = length \/ edge(i + 1) - 1 \in lf
    BY <1>1, <1>2, <1>5, <1>6, <2>1
  <2>5. LinesIn(r.text, edge(i), edge(i + 1)) = DocsIn(AllLines(r.text), slice)
    <3> HIDE DEF edge
    <3>1. edge(i) \in Nat
      BY <1>5
    <3>2. QED
      BY <1>1, <1>5, <2>1, <2>2, <2>3, <2>4, <3>1, LinesOfPiece
  <2>6. ~ IsEmpty(slice)
    BY <1>4, <1>8, <2>2
  <2>7. QED
    BY <1>4, <1>8, <2>5, <2>6 DEF LinesOf, Block
<1>9. QED
  BY <1>7, <1>8

\* Blocks have different lines, and together all of them.
LEMMA BlocksFacts ==
  ASSUME NEW r \in Runs
  PROVE  /\ \A i \in Nat : Block(r, i) \subseteq AllLines(r.text)
         /\ \A i, j \in Nat : i # j => Block(r, i) \intersect Block(r, j) = {}
         /\ \A l \in AllLines(r.text) :
              \E i \in Nat : i * SliceBytes(r) < r.text.length /\ l \in Block(r, i)
<1> DEFINE length == r.text.length
           lf == r.text.lf
           S == SliceBytes(r)
           slice(i) == SliceAt(length, lf, S, i)
<1>1. /\ length \in Nat /\ lf \in SUBSET (0 .. length - 1) /\ S \in Nat \ {0}
  BY RunFacts
<1>2. \A l \in AllLines(r.text) :
        l.first \in 0 .. length - 1 /\ l.last \in 0 .. length - 1 /\ l.first <= l.last
  BY AllLinesFacts DEF Extents
<1>3. \A i \in Nat : Block(r, i) \subseteq AllLines(r.text)
  BY DEF Block, DocsIn
<1>4. ASSUME NEW i \in Nat, NEW j \in Nat, i < j, NEW l \in Block(r, i), l \in Block(r, j)
      PROVE  FALSE
  <2>1. /\ ~ IsEmpty(slice(i)) /\ ~ IsEmpty(slice(j))
        /\ l.last < slice(i).end /\ slice(j).begin <= l.first
    BY <1>4 DEF Block, DocsIn
  <2>2. slice(i).end <= slice(j).begin
    BY <1>1, <1>4, <2>1, SlicesInOrder
  <2>3. slice(i).end \in Nat /\ slice(j).begin \in Nat
    BY <1>1, <2>1, SliceBetweenEdges
  <2> HIDE DEF slice
  <2>4. l.first \in Nat /\ l.last \in Nat /\ l.first <= l.last
    BY <1>1, <1>2, <1>3
  <2>5. QED
    BY <2>1, <2>2, <2>3, <2>4
<1>5. \A i, j \in Nat : i # j => Block(r, i) \intersect Block(r, j) = {}
  <2>1. \A i, j \in Nat : i # j => i < j \/ j < i
    OBVIOUS
  <2>2. QED
    BY <1>4, <2>1
<1>6. ASSUME NEW l \in AllLines(r.text)
      PROVE  \E i \in Nat : i * S < length /\ l \in Block(r, i)
  <2>1. PICK i \in Nat : /\ i * S < length /\ ~ IsEmpty(slice(i))
                         /\ l \in DocsIn(AllLines(r.text), slice(i))
    BY <1>1, <1>2, AllLinesFacts, EveryDocumentInASlice
  <2>2. QED
    BY <2>1 DEF Block
<1>7. QED
  BY <1>3, <1>5, <1>6

\* The runs of a static partition are shares of the slices, and a slice of one begins
\* inside the text.
LEMMA RunBounds ==
  ASSUME NEW r \in Runs, r.stat, NothingWraps(r)
  PROVE  /\ \A v \in 0 .. Threads(r) : RunBound(r, v) = Share(Slices(r), Threads(r), v)
         /\ \A v, w \in 0 .. Threads(r) : v <= w => RunBound(r, v) <= RunBound(r, w)
         /\ \A v \in Workers(r) : \A i \in Nat :
              i < RunBound(r, v + 1) => i * SliceBytes(r) < r.text.length
         /\ \A i \in Nat : i * SliceBytes(r) < r.text.length =>
              \E v \in Workers(r) : RunBound(r, v) <= i /\ i < RunBound(r, v + 1)
<1> DEFINE N == Slices(r)
           T == Threads(r)
           L == r.text.length
           S == SliceBytes(r)
<1>1. /\ L \in Nat /\ S \in Nat \ {0} /\ T \in Nat \ {0} /\ N \in Nat /\ WordSize \in Nat
      /\ Workers(r) = 0 .. T - 1
      /\ L + S - 1 < WordSize /\ N * T < WordSize
  BY RunFacts DEF NothingWraps
<1> HIDE DEF N, T, L, S
<1>2. ASSUME NEW v \in 0 .. T PROVE RunBound(r, v) = Share(N, T, v)
  <2>1. v \in Nat /\ v <= T /\ T \in Nat /\ N * v \in Nat /\ N * T \in Nat
    BY <1>1
  <2>2. N * v <= N * T
    BY <1>1, <2>1, Shares
  <2>3. N * v < WordSize
    BY <1>1, <2>1, <2>2
  <2>4. Wrap(N * v) = N * v
    BY <1>1, <2>1, <2>3, SmallMod DEF Wrap
  <2>5. QED
    BY <2>4 DEF RunBound, Share, N, T
<1>3. ASSUME NEW v \in 0 .. T, NEW w \in 0 .. T, v <= w
      PROVE  RunBound(r, v) <= RunBound(r, w)
  <2>1. v \in Nat /\ w \in Nat
    OBVIOUS
  <2>2. Share(N, T, v) <= Share(N, T, w)
    BY <1>1, <1>3, <2>1, Shares
  <2>3. QED
    BY <1>2, <2>2
<1>4. N = (L + S - 1) \div S /\ L + S - 1 \in Nat
  <2>1. L + S - 1 \in Nat
    BY <1>1
  <2>2. Wrap(L + S - 1) = L + S - 1
    BY <1>1, <2>1, SmallMod DEF Wrap
  <2>3. QED
    BY <2>1, <2>2 DEF Slices, N, L, S
<1>5. RunBound(r, T) = N
  BY <1>1, <1>2, Shares
<1>6. ASSUME NEW i \in Nat, i < N PROVE i * S < L
  <2>1. N * S <= L + S - 1
    BY <1>1, <1>4, Quotient
  <2>2. i * S + S = (i + 1) * S /\ i * S \in Nat /\ i + 1 \in Nat /\ i + 1 <= N
    BY <1>1, <1>6
  <2>3. (i + 1) * S <= N * S
    BY <1>1, <2>2, Products
  <2>4. N * S \in Nat /\ (i + 1) * S \in Nat
    BY <1>1, <2>2
  <2>5. QED
    BY <1>1, <2>1, <2>2, <2>3, <2>4
<1>7. ASSUME NEW v \in Workers(r), NEW i \in Nat, i < RunBound(r, v + 1)
      PROVE  i * S < L
  <2>1. v + 1 \in 0 .. T /\ T \in 0 .. T /\ v + 1 <= T /\ v + 1 \in Nat
    BY <1>1
  <2>2. RunBound(r, v + 1) <= N
    BY <1>3, <1>5, <2>1
  <2>3. RunBound(r, v + 1) \in Nat
    BY <2>1, RunFacts
  <2>4. i < N
    BY <1>1, <1>7, <2>2, <2>3
  <2>5. QED
    BY <1>6, <2>4
<1>8. ASSUME NEW i \in Nat, i * S < L
      PROVE  \E v \in Workers(r) : RunBound(r, v) <= i /\ i < RunBound(r, v + 1)
  <2>1. i * S + S <= L + S - 1
    <3>1. i * S \in Nat
      BY <1>1
    <3>2. QED
      BY <1>1, <1>8, <3>1
  <2>2. i < N
    BY <1>1, <1>4, <2>1, BlockCount
  <2>3. PICK v \in 0 .. T - 1 : Share(N, T, v) <= i /\ i < Share(N, T, v + 1)
    BY <1>1, <2>2, Shares
  <2>4. v \in 0 .. T /\ v + 1 \in 0 .. T
    BY <1>1
  <2>5. QED
    BY <1>1, <1>2, <2>3, <2>4
<1>9. QED
  BY <1>2, <1>3, <1>7, <1>8 DEF N, T, L, S

-----------------------------------------------------------------------------
(* Type correctness, and whole lines.                                      *)

Typed == run \in Runs /\ TypeOK

LEMMA InitTyped == Init => Typed /\ WholeLines
<1>1. SUFFICES ASSUME Init PROVE Typed /\ WholeLines
  OBVIOUS
<1>2. /\ run \in Runs /\ WordSize \in Nat \ {0} /\ Threads(run) \in Nat \ {0}
      /\ Workers(run) = 0 .. Threads(run) - 1
  BY <1>1, RunFacts DEF Init
<1>3. \A w \in Workers(run) : RunBound(run, w) \in Nat
  <2>1. \A w \in Workers(run) : w \in Nat
    BY <1>2
  <2>2. QED
    BY <1>2, <2>1, RunFacts
<1>4. IsABag(EmptyBag) /\ BagToSet(EmptyBag) = {}
  BY BagOfSet DEF EmptyBag
<1>5. QED
  BY <1>1, <1>2, <1>3, <1>4 DEF Init, Typed, TypeOK, WholeLines

\* The first of a nonempty set of lines.
LEMMA FirstLineFacts ==
  ASSUME NEW r \in Runs, NEW S \in SUBSET Extents(r), S # {}
  PROVE  FirstLine(S) \in S
<1> DEFINE starts == {l.first : l \in S}
<1>1. \A l \in S : l.first \in Nat
  BY RunFacts DEF Extents
<1>2. starts \in SUBSET Nat /\ starts # {}
  BY <1>1
<1>3. PICK n \in starts : \A m \in starts : n <= m
  BY <1>2, LeastElement
<1>4. \E l \in S : \A m \in S : l.first <= m.first
  BY <1>3
<1>5. QED
  BY <1>4 DEF FirstLine

\* A line that parses is added to the worker's extraction, for there is room for it.
LEMMA ParseLineFacts ==
  ASSUME Typed, WholeLines, NEW w \in Workers(run), ParseLine(w)
  PROVE  \E l \in lines[w] :
           /\ pc[w] = "running"
           /\ l \in AllLines(run.text)
           /\ lines' = [lines EXCEPT ![w] = @ \ {l}]
           /\ shards' = IF l \in Documents(run)
                          THEN [shards EXCEPT ![w] = @ (+) SetToBag({l})] ELSE shards
           /\ UNCHANGED <<run, cursor, pc, next, merged, total>>
<1>1. lines[w] \in SUBSET Extents(run) /\ lines[w] # {} /\ run \in Runs
  BY DEF ParseLine, Typed, TypeOK
<1>2. PICK l \in lines[w] : l = FirstLine(lines[w])
  BY <1>1, FirstLineFacts
<1>3. l \in AllLines(run.text)
  BY DEF WholeLines, AllLines
<1>4. /\ Size(l) <= Longest(run.text) /\ ~ (Size(l) > Longest(run.text))
  <2>1. Size(l) <= Longest(run.text)
    BY <1>1, <1>3, AllLinesFacts
  <2>2. Size(l) \in Int
    BY <1>1 DEF Size, Extents
  <2>3. Longest(run.text) \in Nat
    BY <1>1, AllLinesFacts
  <2>4. QED
    BY <2>1, <2>2, <2>3
<1>5. l \in Documents(run) <=> ~ Malformed(run.text, l)
  BY <1>3 DEF Documents, AllLines
<1>6. QED
  BY <1>2, <1>3, <1>4, <1>5 DEF ParseLine

\* What the claims have in common.
LEMMA ClaimEffects ==
  ASSUME Typed, NEW w \in Workers(run), ClaimShared(w) \/ ClaimOwn(w)
  PROVE  \E raw \in Nat :
           /\ Idle(w) /\ Process(w, raw) /\ UNCHANGED <<run, shards, merged, total>>
           /\ cursor' \in 0 .. WordSize - 1
           /\ next' \in [Workers(run) -> Nat]
<1>1. /\ run \in Runs /\ cursor \in 0 .. WordSize - 1 /\ WordSize \in Nat \ {0}
      /\ SliceBytes(run) \in Nat \ {0}
      /\ next \in [Workers(run) -> Nat]
  BY RunFacts DEF Typed, TypeOK
<1>2. CASE ClaimShared(w)
  <2>1. cursor \in Nat /\ cursor + SliceBytes(run) \in Nat
    BY <1>1
  <2>2. Wrap(cursor + SliceBytes(run)) \in 0 .. WordSize - 1
    BY <1>1, <2>1 DEF Wrap
  <2>3. QED
    BY <1>1, <1>2, <2>1, <2>2 DEF ClaimShared
<1>3. CASE ClaimOwn(w)
  <2>1. next[w] * SliceBytes(run) \in Nat
    BY <1>1
  <2>2. Wrap(next[w] * SliceBytes(run)) \in Nat
    BY <1>1, <2>1 DEF Wrap
  <2>3. cursor' \in 0 .. WordSize - 1 /\ next' \in [Workers(run) -> Nat]
    BY <1>1, <1>3 DEF ClaimOwn
  <2>4. QED
    BY <1>3, <2>2, <2>3 DEF ClaimOwn
<1>4. QED
  BY <1>2, <1>3

LEMMA NextTyped == Typed /\ WholeLines /\ [Next]_vars => (Typed /\ WholeLines)'
<1>1. SUFFICES ASSUME Typed, WholeLines, [Next]_vars PROVE (Typed /\ WholeLines)'
  OBVIOUS
<1>2. run' = run /\ run \in Runs
  BY <1>1 DEF Next, Caller, Worker, Terminated, vars, Spawn, Merge,
              ClaimShared, ClaimOwn, FinishOwn, ParseLine, Typed
<1>3. /\ Threads(run)' = Threads(run) /\ Workers(run)' = Workers(run)
      /\ Extents(run)' = Extents(run)
      /\ Threads(run) \in Nat \ {0} /\ Workers(run) = 0 .. Threads(run) - 1
  BY <1>2, RunFacts
<1>4. AllLines(run.text) \subseteq Extents(run)
  BY <1>2, AllLinesFacts
<1> DEFINE Good == /\ cursor' \in 0 .. WordSize - 1
                   /\ pc' \in [Workers(run) -> {"unborn", "running", "exited"}]
                   /\ next' \in [Workers(run) -> Nat]
                   /\ lines' \in [Workers(run) -> SUBSET Extents(run)]
                   /\ DOMAIN shards' = Workers(run)
                   /\ \A w \in Workers(run) : /\ IsABag(shards'[w])
                                              /\ BagToSet(shards'[w]) \subseteq Extents(run)
                   /\ merged' \in 0 .. Threads(run)
                   /\ IsABag(total') /\ BagToSet(total') \subseteq Extents(run)
                   /\ \A w \in Workers(run) : lines'[w] \subseteq AllLines(run.text)
<1>5. SUFFICES Good
  BY <1>2, <1>3 DEF Typed, TypeOK, WholeLines, AllLines
<1>6. /\ cursor \in 0 .. WordSize - 1
      /\ pc \in [Workers(run) -> {"unborn", "running", "exited"}]
      /\ next \in [Workers(run) -> Nat]
      /\ lines \in [Workers(run) -> SUBSET Extents(run)]
      /\ DOMAIN shards = Workers(run)
      /\ \A w \in Workers(run) : IsABag(shards[w]) /\ BagToSet(shards[w]) \subseteq Extents(run)
      /\ merged \in 0 .. Threads(run)
      /\ IsABag(total) /\ BagToSet(total) \subseteq Extents(run)
      /\ \A w \in Workers(run) : lines[w] \subseteq AllLines(run.text)
  BY <1>1 DEF Typed, TypeOK, WholeLines, AllLines
<1>7. CASE \/ \E w \in Workers(run) : Spawn(w) \/ FinishOwn(w)
           \/ UNCHANGED vars
  BY <1>6, <1>7 DEF Spawn, FinishOwn, vars
<1>8. CASE Merge
  <2>1. /\ merged \in Workers(run) /\ merged' = merged + 1
        /\ total' = total (+) shards[merged]
        /\ UNCHANGED <<cursor, pc, next, lines, shards>>
    BY <1>8 DEF Merge
  <2>2. IsABag(total') /\ BagToSet(total') \subseteq Extents(run)
    BY <1>6, <2>1, BagSum
  <2>3. merged' \in 0 .. Threads(run)
    BY <1>3, <2>1
  <2>4. QED
    BY <1>6, <2>1, <2>2, <2>3
<1>9. ASSUME NEW w \in Workers(run), ClaimShared(w) \/ ClaimOwn(w) PROVE Good
  <2>1. PICK raw \in Nat : /\ Process(w, raw) /\ UNCHANGED <<shards, merged, total>>
                           /\ cursor' \in 0 .. WordSize - 1
                           /\ next' \in [Workers(run) -> Nat]
    BY <1>1, <1>9, ClaimEffects
  <2>2. LinesOf(run, SliceFrom(run, raw)) \subseteq AllLines(run.text)
    BY <1>2, LinesOfSlice
  <2>3. \/ pc' = [pc EXCEPT ![w] = "exited"] /\ lines' = lines
        \/ pc' = pc /\ lines' = [lines EXCEPT ![w] = LinesOf(run, SliceFrom(run, raw))]
    BY <2>1 DEF Process
  <2>4. /\ pc' \in [Workers(run) -> {"unborn", "running", "exited"}]
        /\ lines' \in [Workers(run) -> SUBSET Extents(run)]
        /\ \A v \in Workers(run) : lines'[v] \subseteq AllLines(run.text)
    BY <1>4, <1>6, <2>2, <2>3
  <2>5. QED
    BY <1>6, <2>1, <2>4
<1>10. ASSUME NEW w \in Workers(run), ParseLine(w) PROVE Good
  <2>1. PICK l \in lines[w] :
          /\ l \in AllLines(run.text)
          /\ lines' = [lines EXCEPT ![w] = @ \ {l}]
          /\ shards' = IF l \in Documents(run)
                         THEN [shards EXCEPT ![w] = @ (+) SetToBag({l})] ELSE shards
          /\ UNCHANGED <<cursor, pc, next, merged, total>>
    BY <1>1, <1>10, ParseLineFacts
  <2>2. \A v \in Workers(run) : IsABag(shards'[v]) /\ BagToSet(shards'[v]) \subseteq Extents(run)
    <3>1. IsABag(SetToBag({l})) /\ BagToSet(SetToBag({l})) = {l}
      BY BagOfSet
    <3>2. IsABag(shards[w] (+) SetToBag({l}))
      BY <1>6, <3>1, BagSum
    <3>3. BagToSet(shards[w] (+) SetToBag({l})) \subseteq Extents(run)
      BY <1>4, <1>6, <2>1, <3>1, BagSum
    <3>4. \A v \in Workers(run) : shards'[v] = shards[v] \/ shards'[v] = shards[w] (+) SetToBag({l})
      BY <2>1
    <3>5. QED
      BY <1>6, <3>2, <3>3, <3>4
  <2>3. QED
    BY <1>6, <2>1, <2>2
<1>11. QED
  BY <1>1, <1>7, <1>8, <1>9, <1>10 DEF Next, Caller, Worker, Terminated

\* Every variable keeps its type, in every execution of every call.
THEOREM TypeCorrect == Spec => []TypeOK
<1>1. Typed /\ WholeLines => TypeOK
  BY DEF Typed
<1>2. QED
  BY <1>1, InitTyped, NextTyped, PTL DEF Spec

\* A worker is only handed whole lines of the corpus, whatever the slices, also
\* should a counter overflow.
THEOREM OnlyWholeLines == Spec => []WholeLines
  BY InitTyped, NextTyped, PTL DEF Spec

\* None of them is too long for the worker's arena.
THEOREM ArenaFitsAll == Spec => []ArenaSuffices
<1>1. Typed /\ WholeLines => ArenaSuffices
  <2>1. SUFFICES ASSUME Typed, WholeLines, NEW w \in Workers(run), NEW l \in lines[w]
                 PROVE  Size(l) <= Longest(run.text)
    BY DEF ArenaSuffices
  <2>2. l \in AllLines(run.text) /\ run \in Runs
    BY <2>1 DEF WholeLines, AllLines, Typed
  <2>3. QED
    BY <2>2, AllLinesFacts
<1>2. QED
  BY <1>1, InitTyped, NextTyped, PTL DEF Spec

-----------------------------------------------------------------------------
(* The inductive invariant: where each line is, and which blocks have been *)
(* claimed.                                                                *)

\* The lines a worker has, and those it has extracted.
Mine(w) == lines[w] \union BagToSet(shards[w])

Exited == {w \in Workers(run) : pc[w] = "exited"}

\* The blocks worker w may have claimed so far: its own run up to `next`, or all those
\* the shared counter has handed out.
Reached(w) ==
  IF run.stat THEN RunBound(run, w) .. next[w] - 1
              ELSE {i \in 0 .. run.text.length : i * SliceBytes(run) < cursor}

RunsInBounds ==
  run.stat => \A w \in Workers(run) : next[w] \in RunBound(run, w) .. RunBound(run, w + 1)

\* A worker claims past the end of the text once, and exits.
CursorInBounds ==
  ~ run.stat => /\ \E k \in 0 .. cursor : cursor = k * SliceBytes(run)
                /\ cursor < run.text.length + (Cardinality(Exited) + 1) * SliceBytes(run)

MineIsReached ==
  \A w \in Workers(run) : \A l \in Mine(w) : \E i \in Reached(w) : l \in Block(run, i)

EachLineOnce ==
  /\ \A w \in Workers(run) : /\ lines[w] \intersect BagToSet(shards[w]) = {}
                             /\ shards[w] = SetToBag(BagToSet(shards[w]))
                             /\ BagToSet(shards[w]) \subseteq Documents(run)
  /\ \A v, w \in Workers(run) : v # w => Mine(v) \intersect Mine(w) = {}

ReachedIsTaken ==
  \A w \in Workers(run) : \A i \in Reached(w) : \A l \in Block(run, i) \intersect Documents(run) :
    \E v \in Workers(run) : l \in Mine(v)

ExitedIsDone ==
  \A w \in Workers(run) : pc[w] = "exited" =>
    /\ lines[w] = {}
    /\ IF run.stat THEN next[w] = RunBound(run, w + 1) ELSE cursor >= run.text.length

MergedLines == UNION {BagToSet(shards[v]) : v \in {v \in Workers(run) : v < merged}}

MergedIsTotal ==
  /\ merged > 0 => Joined
  /\ total = SetToBag(MergedLines)

ClaimInv == RunsInBounds /\ CursorInBounds
LineInv == MineIsReached /\ EachLineOnce
DoneInv == ReachedIsTaken /\ ExitedIsDone /\ MergedIsTotal
IInv == ClaimInv /\ LineInv /\ DoneInv

-----------------------------------------------------------------------------
(* What a claim does.                                                      *)

LEMMA ProductOrder ==
  ASSUME NEW S \in Nat \ {0}, NEW i \in Nat, NEW j \in Nat
  PROVE  i * S < j * S <=> i < j
<1>1. i * S \in Nat /\ j * S \in Nat /\ i * S + S = (i + 1) * S /\ (i + 1) * S \in Nat
  OBVIOUS
<1>2. i < j => (i + 1) * S <= j * S
  <2>1. i + 1 \in Nat /\ (i < j => i + 1 <= j)
    OBVIOUS
  <2>2. QED
    BY <2>1, Products
<1>3. ~ (i < j) => j * S <= i * S
  <2>1. ~ (i < j) => j <= i
    OBVIOUS
  <2>2. QED
    BY <2>1, Products
<1>4. QED
  BY <1>1, <1>2, <1>3

\* Who claims is not among the exited, so the counter does not overflow.
LEMMA ExitedFacts ==
  ASSUME Typed, NEW w \in Workers(run), pc[w] # "exited"
  PROVE  /\ IsFiniteSet(Exited) /\ Cardinality(Exited) \in Nat
         /\ Cardinality(Exited) + 1 <= Threads(run)
         /\ w \notin Exited /\ Cardinality(Exited \union {w}) = Cardinality(Exited) + 1
<1>1. Threads(run) \in Nat \ {0} /\ Workers(run) = 0 .. Threads(run) - 1
  BY RunFacts DEF Typed
<1>2. IsFiniteSet(Workers(run)) /\ Cardinality(Workers(run)) = Threads(run)
  <2>1. 0 \in Int /\ Threads(run) - 1 \in Int
    BY <1>1
  <2>2. IsFiniteSet(0 .. Threads(run) - 1)
    BY <2>1, FS_Interval
  <2>3. Cardinality(0 .. Threads(run) - 1) = IF 0 > Threads(run) - 1 THEN 0 ELSE (Threads(run) - 1) - 0 + 1
    BY <2>1, FS_Interval
  <2>4. QED
    BY <1>1, <2>2, <2>3
<1>3. w \notin Exited /\ Exited \union {w} \subseteq Workers(run) /\ Exited \subseteq Workers(run)
  BY DEF Exited
<1>4. IsFiniteSet(Exited) /\ IsFiniteSet(Exited \union {w})
      /\ Cardinality(Exited \union {w}) <= Threads(run)
  BY <1>2, <1>3, FS_Subset
<1>5. Cardinality(Exited) \in Nat
  BY <1>4, FS_CardinalityType
<1>6. Cardinality(Exited \union {w}) = Cardinality(Exited) + 1
  BY <1>3, <1>4, FS_AddElement
<1>7. QED
  BY <1>3, <1>4, <1>5, <1>6

\* What a worker does with block i.
Takes(w, i) ==
  \/ /\ i * SliceBytes(run) < run.text.length
     /\ lines' = [lines EXCEPT ![w] = Block(run, i)]
     /\ UNCHANGED pc
     /\ i \in Reached(w)'
  \/ /\ i * SliceBytes(run) >= run.text.length
     /\ ~ run.stat
     /\ pc' = [pc EXCEPT ![w] = "exited"]
     /\ UNCHANGED lines
     /\ cursor' >= run.text.length

\* A block nobody has reached is now the worker's.
Grows(i) ==
  \A v \in Workers(run) : /\ i \notin Reached(v)
                          /\ Reached(v) \subseteq Reached(v)'
                          /\ Reached(v)' \subseteq Reached(v) \union {i}

LEMMA ClaimSharedFacts ==
  ASSUME Typed, NothingWraps(run), CursorInBounds, NEW w \in Workers(run), ClaimShared(w)
  PROVE  \E i \in Nat : /\ Takes(w, i) /\ Grows(i)
                        /\ CursorInBounds' /\ cursor' >= cursor
<1> DEFINE L == run.text.length
           S == SliceBytes(run)
           T == Threads(run)
           C == Cardinality(Exited)
<1>1. /\ run \in Runs /\ L \in Nat /\ S \in Nat \ {0} /\ T \in Nat \ {0}
      /\ WordSize \in Nat \ {0} /\ cursor \in Nat
  <2>1. run \in Runs /\ cursor \in 0 .. WordSize - 1
    BY DEF Typed, TypeOK
  <2>2. WordSize \in Nat \ {0} /\ L \in Nat /\ S \in Nat \ {0} /\ T \in Nat \ {0}
    BY <2>1, RunFacts
  <2>3. cursor \in Nat
    BY <2>1, <2>2
  <2>4. QED
    BY <2>1, <2>2, <2>3
<1>2. /\ ~ run.stat /\ pc[w] = "running"
      /\ Process(w, cursor) /\ cursor' = Wrap(cursor + S)
      /\ run' = run
  BY DEF ClaimShared, Idle
<1>3. PICK k \in 0 .. cursor : cursor = k * S
  BY <1>2 DEF CursorInBounds
<1>4. cursor < L + (C + 1) * S
  BY <1>2 DEF CursorInBounds
<1>5. /\ C \in Nat /\ C + 1 <= T
      /\ Cardinality(Exited \union {w}) = C + 1
  BY <1>2, ExitedFacts
<1> HIDE DEF L, S, T, C
<1>6. /\ (C + 1) * S \in Nat /\ (C + 2) * S \in Nat /\ (T + 1) * S \in Nat
      /\ (C + 1) * S + S = (C + 2) * S
      /\ S <= (C + 1) * S
  <2>1. C * S \in Nat /\ (C + 1) * S = C * S + S /\ (C + 2) * S = C * S + S + S
    BY <1>1, <1>5
  <2>2. (T + 1) * S \in Nat
    BY <1>1
  <2>3. QED
    BY <1>1, <2>1, <2>2
<1>7. (C + 2) * S <= (T + 1) * S
  <2>1. C + 2 \in Nat /\ T + 1 \in Nat /\ C + 2 <= T + 1
    BY <1>1, <1>5
  <2>2. QED
    BY <1>1, <2>1, Products
<1>8. cursor + S < WordSize /\ cursor + S \in Nat
  <2>1. L - 1 + (T + 1) * S < WordSize
    BY <1>2 DEF NothingWraps, L, T, S
  <2>2. QED
    BY <1>1, <1>4, <1>6, <1>7, <2>1
<1>9. cursor' = cursor + S
  BY <1>1, <1>2, <1>8, SmallMod DEF Wrap
<1>10. k \in Nat /\ k + 1 \in Nat /\ cursor' = (k + 1) * S /\ k + 1 <= cursor'
  <2>1. k \in Nat /\ k * S + S = (k + 1) * S /\ k + 1 <= (k + 1) * S
    BY <1>1, <1>3
  <2>2. QED
    BY <1>3, <1>9, <2>1
<1>11. Takes(w, k)
  <2>1. CASE cursor >= L
    <3>1. pc' = [pc EXCEPT ![w] = "exited"] /\ lines' = lines
      BY <1>1, <1>2, <2>1 DEF Process, L
    <3>2. cursor' >= L
      BY <1>1, <1>9, <2>1
    <3>3. QED
      BY <1>2, <1>3, <2>1, <3>1, <3>2 DEF Takes, L, S
  <2>2. CASE cursor < L
    <3>1. pc' = pc /\ lines' = [lines EXCEPT ![w] = LinesOf(run, SliceFrom(run, cursor))]
      BY <1>1, <1>2, <2>2 DEF Process, L
    <3>2. LinesOf(run, SliceFrom(run, cursor)) = Block(run, k)
      BY <1>1, <1>3, <1>10, <2>2, LinesOfBlock DEF L, S
    <3>3. k \in Reached(w)'
      <4>1. k * S < cursor' /\ k \in 0 .. L
        BY <1>1, <1>3, <1>9, <2>2
      <4>2. QED
        BY <1>2, <4>1 DEF Reached, L, S
    <3>4. QED
      BY <1>3, <2>2, <3>1, <3>2, <3>3 DEF Takes, L, S
  <2>3. QED
    BY <1>1, <2>1, <2>2
<1>12. Grows(k)
  <2>1. \A i \in 0 .. L : /\ i * S < cursor <=> i < k
                          /\ i * S < cursor' <=> i < k + 1
    <3>1. \A i \in 0 .. L : i \in Nat
      OBVIOUS
    <3>2. QED
      BY <1>1, <1>3, <1>10, <3>1, ProductOrder
  <2>2. \A v : /\ Reached(v) = {i \in 0 .. L : i * S < cursor}
               /\ Reached(v)' = {i \in 0 .. L : i * S < cursor'}
    BY <1>2 DEF Reached, L, S
  <2>3. \A i \in 0 .. L : i < k + 1 <=> (i < k \/ i = k)
    BY <1>10
  <2>4. ~ (k < k)
    BY <1>10
  <2>5. QED
    BY <2>1, <2>2, <2>3, <2>4 DEF Grows
<1>13. CursorInBounds'
  <2>1. \E j \in 0 .. cursor' : cursor' = j * S
    BY <1>10
  <2>2. CASE cursor >= L
    <3>1. pc' = [pc EXCEPT ![w] = "exited"]
      BY <1>1, <1>2, <2>2 DEF Process, L
    <3>2. Exited' = Exited \union {w}
      BY <1>2, <3>1 DEF Exited, Typed, TypeOK
    <3>3. cursor' < L + (C + 1 + 1) * S
      <4>1. C + 1 + 1 = C + 2
        BY <1>5
      <4>2. cursor' < L + (C + 2) * S
        BY <1>1, <1>4, <1>6, <1>9
      <4>3. QED
        BY <4>1, <4>2
    <3>4. QED
      BY <1>2, <1>5, <2>1, <3>2, <3>3 DEF CursorInBounds, L, S
  <2>3. CASE cursor < L
    <3>1. pc' = pc
      BY <1>1, <1>2, <2>3 DEF Process, L
    <3>2. Exited' = Exited
      BY <1>2, <3>1 DEF Exited
    <3>3. cursor' < L + (C + 1) * S
      BY <1>1, <1>6, <1>9, <2>3
    <3>4. QED
      BY <1>2, <2>1, <3>2, <3>3 DEF CursorInBounds, L, S, C
  <2>4. QED
    BY <1>1, <2>2, <2>3
<1>14. cursor' >= cursor
  BY <1>1, <1>9
<1>15. QED
  BY <1>10, <1>11, <1>12, <1>13, <1>14

LEMMA ClaimOwnFacts ==
  ASSUME Typed, NothingWraps(run), RunsInBounds, NEW w \in Workers(run), ClaimOwn(w)
  PROVE  \E i \in Nat : /\ Takes(w, i) /\ Grows(i)
                        /\ RunsInBounds' /\ cursor' = cursor
<1> DEFINE L == run.text.length
           S == SliceBytes(run)
           T == Threads(run)
           B(v) == RunBound(run, v)
           i == next[w]
<1>1. /\ run \in Runs /\ L \in Nat /\ S \in Nat \ {0} /\ T \in Nat \ {0}
      /\ WordSize \in Nat \ {0} /\ next \in [Workers(run) -> Nat] /\ i \in Nat
      /\ Workers(run) = 0 .. T - 1
  <2>1. run \in Runs /\ next \in [Workers(run) -> Nat]
    BY DEF Typed, TypeOK
  <2>2. QED
    BY <2>1, RunFacts
<1>2. /\ run.stat /\ i < B(w + 1) /\ run' = run /\ cursor' = cursor
      /\ Process(w, Wrap(i * S))
      /\ next' = [next EXCEPT ![w] = i + 1]
  BY DEF ClaimOwn
<1>3. \A v \in Workers(run) : next[v] \in B(v) .. B(v + 1)
  BY <1>2 DEF RunsInBounds
<1>4. /\ \A v \in 0 .. T : B(v) \in Nat
      /\ \A v, u \in 0 .. T : v <= u => B(v) <= B(u)
      /\ i * S < L
  <2>1. \A v \in 0 .. T : v \in Nat
    OBVIOUS
  <2>2. QED
    BY <1>1, <1>2, <2>1, RunFacts, RunBounds
<1>5. i * S \in Nat /\ Wrap(i * S) = i * S
  <2>1. i * S \in Nat
    BY <1>1
  <2>2. L + S - 1 < WordSize
    BY <1>1, OneMoreBlockFits
  <2> HIDE DEF L, S
  <2>3. i * S < WordSize
    BY <1>1, <1>4, <2>1, <2>2
  <2>4. QED
    BY <1>1, <2>1, <2>3, SmallMod DEF Wrap
<1> HIDE DEF L, S, T, B, i
<1>6. \A v \in Workers(run) :
        /\ v \in 0 .. T /\ v + 1 \in 0 .. T
        /\ B(v) \in Nat /\ B(v + 1) \in Nat /\ next[v] \in B(v) .. B(v + 1)
        /\ v # w => next'[v] = next[v]
        /\ v = w => next'[v] = i + 1
  <2>1. SUFFICES ASSUME NEW v \in Workers(run)
                 PROVE  /\ v \in 0 .. T /\ v + 1 \in 0 .. T
                        /\ B(v) \in Nat /\ B(v + 1) \in Nat /\ next[v] \in B(v) .. B(v + 1)
                        /\ v # w => next'[v] = next[v]
                        /\ v = w => next'[v] = i + 1
    OBVIOUS
  <2>2. v \in 0 .. T /\ v + 1 \in 0 .. T
    BY <1>1
  <2>3. B(v) \in Nat /\ B(v + 1) \in Nat /\ next[v] \in B(v) .. B(v + 1)
    BY <1>3, <1>4, <2>2
  <2>4. (v # w => next'[v] = next[v]) /\ (v = w => next'[v] = i + 1)
    BY <1>1, <1>2
  <2>5. QED
    BY <2>2, <2>3, <2>4
<1>7. next[w] = i /\ B(w) <= i
  BY <1>6 DEF i
<1>8. Takes(w, i)
  <2>1. pc' = pc /\ lines' = [lines EXCEPT ![w] = LinesOf(run, SliceFrom(run, i * S))]
    BY <1>1, <1>2, <1>4, <1>5 DEF Process, L
  <2>2. LinesOf(run, SliceFrom(run, i * S)) = Block(run, i)
    BY <1>1, <1>4, LinesOfBlock DEF L, S
  <2>3. i \in Reached(w)'
    <3>1. i \in B(w) .. (i + 1) - 1
      BY <1>1, <1>6, <1>7
    <3>2. QED
      BY <1>2, <1>6, <3>1 DEF Reached, B
  <2>4. QED
    BY <1>4, <2>1, <2>2, <2>3 DEF Takes, L, S
<1>9. Grows(i)
  <2>1. \A v : /\ Reached(v) = B(v) .. next[v] - 1
               /\ Reached(v)' = B(v) .. next'[v] - 1
    BY <1>2 DEF Reached, B
  <2>2. SUFFICES ASSUME NEW v \in Workers(run)
                 PROVE  /\ i \notin Reached(v)
                        /\ Reached(v) \subseteq Reached(v)'
                        /\ Reached(v)' \subseteq Reached(v) \union {i}
    BY DEF Grows
  <2>3. i \notin B(v) .. next[v] - 1
    <3>1. /\ v \in Int /\ w \in Int
          /\ B(v) \in Nat /\ B(v + 1) \in Nat /\ next[v] \in B(v) .. B(v + 1)
          /\ i \in B(w) .. B(w + 1) /\ B(w) \in Nat /\ B(w + 1) \in Nat
      BY <1>1, <1>6, <1>7
    <3>2. CASE v = w
      BY <1>7, <3>1, <3>2
    <3>3. CASE v < w
      <4>1. v + 1 \in 0 .. T /\ w \in 0 .. T /\ v + 1 <= w
        BY <1>6, <3>1, <3>3
      <4>2. B(v + 1) <= B(w)
        BY <1>4, <4>1
      <4>3. next[v] <= i
        BY <3>1, <4>2
      <4>4. QED
        BY <3>1, <4>3
    <3>4. CASE w < v
      <4>1. w + 1 \in 0 .. T /\ v \in 0 .. T /\ w + 1 <= v
        BY <1>6, <3>1, <3>4
      <4>2. B(w + 1) <= B(v)
        BY <1>4, <4>1
      <4>3. i < B(v)
        BY <1>1, <1>2, <3>1, <4>2
      <4>4. QED
        BY <3>1, <4>3
    <3>5. QED
      BY <3>1, <3>2, <3>3, <3>4
  <2>4. CASE v # w
    BY <1>6, <2>1, <2>3, <2>4
  <2>5. CASE v = w
    <3>1. Reached(v) = B(v) .. i - 1 /\ Reached(v)' = B(v) .. (i + 1) - 1
      BY <1>6, <1>7, <2>1, <2>5
    <3>2. i \in Nat /\ B(v) \in Nat
      BY <1>1, <1>6
    <3>3. QED
      BY <2>1, <2>3, <3>1, <3>2
  <2>6. QED
    BY <2>4, <2>5
<1>10. RunsInBounds'
  <2>1. \A v \in Workers(run) : next'[v] \in B(v) .. B(v + 1)
    <3>1. i + 1 \in B(w) .. B(w + 1)
      BY <1>1, <1>2, <1>6, <1>7
    <3>2. QED
      BY <1>6, <3>1
  <2>2. QED
    BY <1>2, <2>1 DEF RunsInBounds, B
<1>11. QED
  BY <1>1, <1>2, <1>8, <1>9, <1>10

\* What the two claims have in common, while the counters fit.
LEMMA ClaimFacts ==
  ASSUME Typed, NothingWraps(run), ClaimInv, NEW w \in Workers(run),
         ClaimShared(w) \/ ClaimOwn(w)
  PROVE  /\ Idle(w) /\ UNCHANGED <<run, shards, merged, total>>
         /\ \E i \in Nat : Takes(w, i) /\ Grows(i)
         /\ ClaimInv' /\ cursor' >= cursor
         /\ run.stat => \A v \in Workers(run) : v # w => next'[v] = next[v]
<1>1. Idle(w) /\ UNCHANGED <<run, shards, merged, total>>
  BY DEF ClaimShared, ClaimOwn
<1>2. CASE ClaimShared(w)
  <2>1. ~ run.stat
    BY <1>2 DEF ClaimShared
  <2>2. RunsInBounds'
    BY <1>1, <2>1 DEF RunsInBounds
  <2>3. QED
    BY <1>1, <1>2, <2>1, <2>2, ClaimSharedFacts DEF ClaimInv
<1>3. CASE ClaimOwn(w)
  <2>1. run.stat /\ next' = [next EXCEPT ![w] = next[w] + 1]
    BY <1>3 DEF ClaimOwn
  <2>2. CursorInBounds'
    BY <1>1, <2>1 DEF CursorInBounds
  <2>3. next \in [Workers(run) -> Nat]
    BY DEF Typed, TypeOK
  <2>4. cursor \in Int
    BY DEF Typed, TypeOK
  <2>5. QED
    BY <1>1, <1>3, <2>1, <2>2, <2>3, <2>4, ClaimOwnFacts DEF ClaimInv
<1>4. QED
  BY <1>2, <1>3

-----------------------------------------------------------------------------
(* The invariant is inductive, while the counters fit.                     *)

\* A block past the end of the text has no lines.
LEMMA BlockPastTheEnd ==
  ASSUME NEW r \in Runs, NEW i \in Nat, i * SliceBytes(r) >= r.text.length
  PROVE  Block(r, i) = {}
<1>1. SliceAt(r.text.length, r.text.lf, SliceBytes(r), i) = EmptyPiece
  BY DEF SliceAt
<1>2. IsEmpty(EmptyPiece)
  BY DEF IsEmpty, EmptyPiece
<1>3. QED
  BY <1>1, <1>2 DEF Block

LEMMA ReachedAreIndices ==
  ASSUME Typed, NEW w \in Workers(run)
  PROVE  Reached(w) \subseteq Nat
<1>1. /\ run \in Runs /\ next \in [Workers(run) -> Nat]
      /\ Workers(run) = 0 .. Threads(run) - 1 /\ Threads(run) \in Nat
      /\ run.text.length \in Nat
  BY RunFacts DEF Typed, TypeOK
<1>2. w \in Nat
  BY <1>1
<1>3. RunBound(run, w) \in Nat /\ next[w] \in Nat
  BY <1>1, <1>2, RunFacts
<1>4. QED
  BY <1>1, <1>3 DEF Reached

\* The lines of a block nobody has reached are nobody's.
LEMMA NewLines ==
  ASSUME Typed, MineIsReached, NEW i \in Nat, Grows(i), NEW v \in Workers(run)
  PROVE  Block(run, i) \intersect Mine(v) = {}
<1>1. SUFFICES ASSUME NEW l \in Mine(v), l \in Block(run, i) PROVE FALSE
  OBVIOUS
<1>2. PICK j \in Reached(v) : l \in Block(run, j)
  BY DEF MineIsReached
<1>3. j \in Nat /\ j # i
  BY ReachedAreIndices DEF Grows
<1>4. Block(run, i) \intersect Block(run, j) = {}
  BY <1>3, BlocksFacts DEF Typed
<1>5. QED
  BY <1>1, <1>2, <1>4

LEMMA InitInv == Init /\ NothingWraps(run) => IInv
<1>1. SUFFICES ASSUME Init, NothingWraps(run) PROVE IInv
  OBVIOUS
<1>2. /\ run \in Runs /\ cursor = 0 /\ merged = 0 /\ total = EmptyBag
      /\ \A w \in Workers(run) : /\ pc[w] = "unborn" /\ next[w] = RunBound(run, w)
                                 /\ lines[w] = {} /\ shards[w] = EmptyBag
  BY <1>1 DEF Init
<1>3. /\ run.text.length \in Nat /\ SliceBytes(run) \in Nat \ {0}
      /\ Threads(run) \in Nat \ {0} /\ Workers(run) = 0 .. Threads(run) - 1
  BY <1>2, RunFacts
<1>4. \A w \in Workers(run) : RunBound(run, w) \in Nat /\ RunBound(run, w + 1) \in Nat
  <2>1. \A w \in Workers(run) : w \in Nat /\ w + 1 \in Nat
    BY <1>3
  <2>2. QED
    BY <1>2, <2>1, RunFacts
<1>5. SetToBag({}) = EmptyBag /\ BagToSet(EmptyBag) = {}
  BY BagOfSet DEF EmptyBag
<1>6. \A w \in Workers(run) : Mine(w) = {}
  BY <1>2, <1>5 DEF Mine
<1>7. \A w \in Workers(run) : Reached(w) = {}
  <2>1. SUFFICES ASSUME NEW w \in Workers(run), NEW i \in Reached(w) PROVE FALSE
    OBVIOUS
  <2>2. CASE run.stat
    BY <1>2, <1>4, <2>1, <2>2 DEF Reached
  <2>3. CASE ~ run.stat
    <3>1. i \in Nat /\ i * SliceBytes(run) < 0
      BY <1>2, <1>3, <2>1, <2>3 DEF Reached
    <3>2. i * SliceBytes(run) \in Nat
      BY <1>3, <3>1
    <3>3. QED
      BY <3>1, <3>2
  <2>4. QED
    BY <2>2, <2>3
<1>8. RunsInBounds
  <2>1. SUFFICES ASSUME run.stat, NEW w \in Workers(run)
                 PROVE  RunBound(run, w) <= RunBound(run, w + 1)
    BY <1>2, <1>4 DEF RunsInBounds
  <2>2. w \in 0 .. Threads(run) /\ w + 1 \in 0 .. Threads(run) /\ w <= w + 1
    BY <1>3
  <2>3. QED
    BY <1>1, <1>2, <2>1, <2>2, RunBounds
<1>9. CursorInBounds
  <2>1. Exited = {}
    BY <1>2 DEF Exited
  <2>2. Cardinality(Exited) = 0
    BY <2>1, FS_EmptySet
  <2>3. 0 \in 0 .. 0 /\ 0 = 0 * SliceBytes(run)
    BY <1>3
  <2>4. 0 < run.text.length + (0 + 1) * SliceBytes(run)
    <3>1. (0 + 1) * SliceBytes(run) = SliceBytes(run)
      BY <1>3
    <3>2. QED
      BY <1>3, <3>1
  <2>5. QED
    BY <1>2, <2>2, <2>3, <2>4 DEF CursorInBounds
<1>10. MineIsReached /\ ReachedIsTaken
  BY <1>6, <1>7 DEF MineIsReached, ReachedIsTaken
<1>11. EachLineOnce
  BY <1>2, <1>5, <1>6 DEF EachLineOnce
<1>12. ExitedIsDone
  BY <1>2 DEF ExitedIsDone
<1>13. MergedIsTotal
  <2>1. {v \in Workers(run) : v < merged} = {}
    BY <1>2, <1>3
  <2>2. MergedLines = {}
    BY <2>1 DEF MergedLines
  <2>3. QED
    BY <1>2, <1>5, <2>2 DEF MergedIsTotal
<1>14. QED
  BY <1>8, <1>9, <1>10, <1>11, <1>12, <1>13 DEF IInv, ClaimInv, LineInv, DoneInv

\* Nothing is merged while a worker has not exited, so what its step does to the
\* shards does not matter to the total.
LEMMA NothingMerged ==
  ASSUME Typed, MergedIsTotal, NEW w \in Workers(run), pc[w] # "exited",
         UNCHANGED <<run, merged, total>>
  PROVE  MergedIsTotal'
<1>1. merged = 0
  <2>1. ~ Joined /\ merged \in 0 .. Threads(run)
    BY DEF Joined, Typed, TypeOK
  <2>2. Threads(run) \in Nat
    BY RunFacts DEF Typed
  <2>3. QED
    BY <2>1, <2>2 DEF MergedIsTotal
<1>2. {v \in Workers(run) : v < merged} = {} /\ {v \in Workers(run)' : v < merged'} = {}
  <2>1. Workers(run) = 0 .. Threads(run) - 1
    BY RunFacts DEF Typed
  <2>2. Workers(run)' = Workers(run) /\ merged' = merged
    OBVIOUS
  <2>3. QED
    BY <1>1, <2>1, <2>2
<1>3. MergedLines = {} /\ MergedLines' = {}
  BY <1>2 DEF MergedLines
<1>4. merged' = merged /\ total' = total
  OBVIOUS
<1>5. QED
  BY <1>1, <1>3, <1>4 DEF MergedIsTotal

\* A claim: the new lines are the worker's and nobody else's.
LEMMA ClaimKeepsInv ==
  ASSUME Typed, NothingWraps(run), IInv, NEW w \in Workers(run),
         ClaimShared(w) \/ ClaimOwn(w)
  PROVE  IInv'
<1>1. /\ pc[w] = "running" /\ lines[w] = {}
      /\ UNCHANGED <<run, shards, merged, total>>
      /\ ClaimInv' /\ cursor' >= cursor
      /\ run.stat => \A v \in Workers(run) : v # w => next'[v] = next[v]
  BY ClaimFacts DEF IInv, Idle
<1>2. PICK i \in Nat : Takes(w, i) /\ Grows(i)
  BY ClaimFacts DEF IInv
<1> DEFINE new == Block(run, i)
<1>3. /\ lines \in [Workers(run) -> SUBSET Extents(run)]
      /\ pc \in [Workers(run) -> {"unborn", "running", "exited"}]
      /\ run \in Runs /\ cursor \in Int
  BY DEF Typed, TypeOK
<1>4. /\ Workers(run)' = Workers(run) /\ Documents(run)' = Documents(run)
      /\ \A k : Block(run, k)' = Block(run, k)
      /\ \A v : RunBound(run, v)' = RunBound(run, v)
  BY <1>1
<1>5. \A v \in Workers(run) : new \intersect Mine(v) = {}
  BY <1>2, NewLines DEF IInv, LineInv
<1>6. \/ /\ lines' = [lines EXCEPT ![w] = new] /\ pc' = pc /\ i \in Reached(w)'
      \/ /\ lines' = lines /\ pc' = [pc EXCEPT ![w] = "exited"] /\ new = {}
         /\ ~ run.stat /\ cursor' >= run.text.length
  BY <1>2, <1>3, BlockPastTheEnd DEF Takes
<1> HIDE DEF new
<1>7. \A v \in Workers(run) : /\ v # w => lines'[v] = lines[v] /\ pc'[v] = pc[v]
                              /\ Reached(v)' \subseteq Reached(v) \union {i}
                              /\ Reached(v) \subseteq Reached(v)'
  BY <1>2, <1>3, <1>6 DEF Grows
<1>8. lines'[w] = {} \/ (lines'[w] = new /\ i \in Reached(w)')
  BY <1>1, <1>3, <1>6
<1>9. \A v \in Workers(run) : /\ v # w => Mine(v)' = Mine(v)
                              /\ v = w => Mine(v)' = Mine(v) \union lines'[w]
  BY <1>1, <1>7 DEF Mine
<1>10. MineIsReached'
  <2>1. ASSUME NEW v \in Workers(run), NEW l \in Mine(v)'
        PROVE  \E j \in Reached(v)' : l \in Block(run, j)
    <3>1. CASE l \in Mine(v)
      BY <1>7, <3>1 DEF IInv, LineInv, MineIsReached
    <3>2. CASE l \notin Mine(v)
      BY <1>8, <1>9, <2>1, <3>2 DEF new
    <3>3. QED
      BY <3>1, <3>2
  <2>2. QED
    BY <1>4, <2>1 DEF MineIsReached
<1>11. EachLineOnce'
  <2>1. \A v \in Workers(run) : /\ lines'[v] \intersect BagToSet(shards'[v]) = {}
                                /\ shards'[v] = SetToBag(BagToSet(shards'[v]))
                                /\ BagToSet(shards'[v]) \subseteq Documents(run)
    BY <1>1, <1>5, <1>7, <1>8 DEF IInv, LineInv, EachLineOnce, Mine
  <2>2. \A u, v \in Workers(run) : u # v => Mine(u)' \intersect Mine(v)' = {}
    BY <1>5, <1>8, <1>9 DEF IInv, LineInv, EachLineOnce
  <2>3. QED
    BY <1>4, <2>1, <2>2 DEF EachLineOnce
<1>12. ReachedIsTaken'
  <2>1. ASSUME NEW v \in Workers(run), NEW j \in Reached(v)',
               NEW l \in Block(run, j) \intersect Documents(run)
        PROVE  \E u \in Workers(run) : l \in Mine(u)'
    <3>1. CASE j \in Reached(v)
      BY <1>9, <3>1 DEF IInv, DoneInv, ReachedIsTaken
    <3>2. CASE j = i
      <4>1. l \in new
        BY <3>2 DEF new
      <4>2. lines'[w] = new
        BY <1>3, <1>6, <4>1
      <4>3. QED
        BY <1>9, <4>1, <4>2
    <3>3. QED
      BY <1>7, <3>1, <3>2
  <2>2. QED
    BY <1>4, <2>1 DEF ReachedIsTaken
<1>13. ExitedIsDone'
  <2>1. ASSUME NEW v \in Workers(run), pc'[v] = "exited"
        PROVE  /\ lines'[v] = {}
               /\ IF run.stat THEN next'[v] = RunBound(run, v + 1)
                              ELSE cursor' >= run.text.length
    <3>1. CASE v = w
      BY <1>1, <1>3, <1>6, <2>1, <3>1
    <3>2. CASE v # w
      <4>1. /\ lines[v] = {}
            /\ IF run.stat THEN next[v] = RunBound(run, v + 1) ELSE cursor >= run.text.length
        BY <1>7, <2>1, <3>2 DEF IInv, DoneInv, ExitedIsDone
      <4>2. ~ run.stat => cursor' >= run.text.length
        <5>1. run.text.length \in Int
          <6>1. run.text.length \in Nat
            BY <1>3, RunFacts
          <6>2. QED
            BY <6>1
        <5>2. cursor' \in Int
          BY ClaimEffects
        <5>3. QED
          BY <1>1, <1>3, <4>1, <5>1, <5>2
      <4>3. QED
        BY <1>1, <1>7, <3>2, <4>1, <4>2
    <3>3. QED
      BY <3>1, <3>2
  <2>2. QED
    BY <1>1, <1>4, <2>1 DEF ExitedIsDone
<1>14. MergedIsTotal'
  BY <1>1, NothingMerged DEF IInv, DoneInv
<1>15. QED
  BY <1>1, <1>10, <1>11, <1>12, <1>13, <1>14 DEF IInv, LineInv, DoneInv

\* A line that is parsed moves from the worker's lines to its extraction; one that
\* is not leaves, and is no document.
LEMMA ParseLineKeepsInv ==
  ASSUME Typed, WholeLines, IInv, NEW w \in Workers(run), ParseLine(w)
  PROVE  IInv'
<1>1. PICK l \in lines[w] :
        /\ pc[w] = "running"
        /\ lines' = [lines EXCEPT ![w] = @ \ {l}]
        /\ shards' = IF l \in Documents(run)
                       THEN [shards EXCEPT ![w] = @ (+) SetToBag({l})] ELSE shards
        /\ UNCHANGED <<run, cursor, pc, next, merged, total>>
  BY ParseLineFacts
<1>2. /\ lines \in [Workers(run) -> SUBSET Extents(run)]
      /\ DOMAIN shards = Workers(run)
  BY DEF Typed, TypeOK
<1>3. /\ Workers(run)' = Workers(run) /\ Documents(run)' = Documents(run)
      /\ \A k : Block(run, k)' = Block(run, k)
      /\ \A v : Reached(v)' = Reached(v) /\ RunBound(run, v)' = RunBound(run, v)
      /\ Exited' = Exited
  BY <1>1 DEF Reached, Exited
<1>4. ClaimInv'
  BY <1>1, <1>3 DEF IInv, ClaimInv, RunsInBounds, CursorInBounds
<1>5. /\ lines'[w] = lines[w] \ {l}
      /\ \A v \in Workers(run) : v # w => lines'[v] = lines[v] /\ shards'[v] = shards[v]
  BY <1>1, <1>2
<1> DEFINE D == BagToSet(shards[w])
<1>6. /\ lines[w] \intersect D = {} /\ shards[w] = SetToBag(D) /\ D \subseteq Documents(run)
  BY DEF IInv, LineInv, EachLineOnce
<1>7. /\ shards'[w] = SetToBag(BagToSet(shards'[w]))
      /\ BagToSet(shards'[w]) = IF l \in Documents(run) THEN D \union {l} ELSE D
  <2>1. CASE l \in Documents(run)
    <3>1. shards'[w] = SetToBag(D) (+) SetToBag({l})
      BY <1>1, <1>2, <1>6, <2>1
    <3>2. D \intersect {l} = {}
      BY <1>6
    <3> HIDE DEF D
    <3>3. shards'[w] = SetToBag(D \union {l})
      BY <3>1, <3>2, SumOfSets
    <3>4. BagToSet(shards'[w]) = D \union {l}
      BY <3>3, BagOfSet
    <3>5. QED
      BY <2>1, <3>3, <3>4
  <2>2. CASE l \notin Documents(run)
    BY <1>1, <1>6, <2>2
  <2>3. QED
    BY <2>1, <2>2
<1>8. \A v \in Workers(run) : /\ v # w => Mine(v)' = Mine(v)
                              /\ Mine(v)' \subseteq Mine(v)
                              /\ Mine(v) \intersect Documents(run) \subseteq Mine(v)'
  BY <1>5, <1>7 DEF Mine
<1>9. MineIsReached'
  BY <1>3, <1>8 DEF IInv, LineInv, MineIsReached
<1>10. EachLineOnce'
  <2>1. \A v \in Workers(run) : /\ lines'[v] \intersect BagToSet(shards'[v]) = {}
                                /\ shards'[v] = SetToBag(BagToSet(shards'[v]))
                                /\ BagToSet(shards'[v]) \subseteq Documents(run)
    <3>1. SUFFICES ASSUME NEW v \in Workers(run)
                   PROVE  /\ lines'[v] \intersect BagToSet(shards'[v]) = {}
                          /\ shards'[v] = SetToBag(BagToSet(shards'[v]))
                          /\ BagToSet(shards'[v]) \subseteq Documents(run)
      OBVIOUS
    <3>2. CASE v = w
      BY <1>5, <1>6, <1>7, <3>2
    <3>3. CASE v # w
      BY <1>5, <3>3 DEF IInv, LineInv, EachLineOnce
    <3>4. QED
      BY <3>2, <3>3
  <2>2. \A u, v \in Workers(run) : u # v => Mine(u)' \intersect Mine(v)' = {}
    BY <1>8 DEF IInv, LineInv, EachLineOnce
  <2>3. QED
    BY <1>3, <2>1, <2>2 DEF EachLineOnce
<1>11. ReachedIsTaken'
  <2>1. ASSUME NEW v \in Workers(run), NEW j \in Reached(v),
               NEW m \in Block(run, j) \intersect Documents(run)
        PROVE  \E u \in Workers(run) : m \in Mine(u)'
    <3>1. PICK u \in Workers(run) : m \in Mine(u)
      BY DEF IInv, DoneInv, ReachedIsTaken
    <3>2. QED
      BY <1>8, <3>1
  <2>2. QED
    BY <1>3, <2>1 DEF ReachedIsTaken
<1>12. ExitedIsDone'
  <2>1. ASSUME NEW v \in Workers(run), pc[v] = "exited"
        PROVE  /\ lines'[v] = {}
               /\ IF run.stat THEN next[v] = RunBound(run, v + 1) ELSE cursor >= run.text.length
    <3>1. v # w
      BY <1>1, <2>1
    <3>2. QED
      BY <1>5, <2>1, <3>1 DEF IInv, DoneInv, ExitedIsDone
  <2>2. QED
    BY <1>1, <1>3, <2>1 DEF ExitedIsDone
<1>13. MergedIsTotal'
  BY <1>1, NothingMerged DEF IInv, DoneInv
<1>14. QED
  BY <1>4, <1>9, <1>10, <1>11, <1>12, <1>13 DEF IInv, LineInv, DoneInv

\* Threads that start, and workers that find their own run done.
LEMMA ThreadStepKeepsInv ==
  ASSUME Typed, IInv, NEW w \in Workers(run), Spawn(w) \/ FinishOwn(w)
  PROVE  IInv'
<1>1. /\ UNCHANGED <<run, cursor, next, lines, shards, merged, total>>
      /\ pc[w] # "exited"
      /\ \/ pc' = [pc EXCEPT ![w] = "running"]
         \/ /\ pc' = [pc EXCEPT ![w] = "exited"] /\ run.stat
            /\ next[w] >= RunBound(run, w + 1) /\ lines[w] = {}
  BY DEF Spawn, FinishOwn, Idle
<1>2. pc \in [Workers(run) -> {"unborn", "running", "exited"}]
  BY DEF Typed, TypeOK
<1>3. /\ Workers(run)' = Workers(run) /\ Documents(run)' = Documents(run)
      /\ \A k : Block(run, k)' = Block(run, k)
      /\ \A v : /\ Reached(v)' = Reached(v) /\ RunBound(run, v)' = RunBound(run, v)
                /\ Mine(v)' = Mine(v)
  BY <1>1 DEF Reached, Mine
<1>4. \A v \in Workers(run) : v # w => pc'[v] = pc[v]
  BY <1>1, <1>2
<1>5. RunsInBounds'
  BY <1>1, <1>3 DEF IInv, ClaimInv, RunsInBounds
<1>6. CursorInBounds'
  <2>1. SUFFICES ASSUME ~ run.stat PROVE Exited' = Exited
    BY <1>1 DEF IInv, ClaimInv, CursorInBounds
  <2>2. pc'[w] # "exited"
    BY <1>1, <1>2, <2>1
  <2>3. QED
    BY <1>1, <1>3, <1>4, <2>2 DEF Exited
<1>7. MineIsReached'
  BY <1>1, <1>3 DEF IInv, LineInv, MineIsReached
<1>8. EachLineOnce'
  BY <1>1, <1>3 DEF IInv, LineInv, EachLineOnce
<1>9. ReachedIsTaken'
  BY <1>1, <1>3 DEF IInv, DoneInv, ReachedIsTaken
<1>10. ExitedIsDone'
  <2>1. ASSUME NEW v \in Workers(run), pc'[v] = "exited"
        PROVE  /\ lines[v] = {}
               /\ IF run.stat THEN next[v] = RunBound(run, v + 1) ELSE cursor >= run.text.length
    <3>1. CASE v = w
      <4>1. run.stat /\ next[w] >= RunBound(run, w + 1) /\ lines[w] = {}
        BY <1>1, <1>2, <2>1, <3>1
      <4>2. next[w] \in RunBound(run, w) .. RunBound(run, w + 1)
        BY <4>1 DEF IInv, ClaimInv, RunsInBounds
      <4>3. next[w] = RunBound(run, w + 1)
        <5>1. run \in Runs /\ Workers(run) = 0 .. Threads(run) - 1 /\ Threads(run) \in Nat
          BY RunFacts DEF Typed
        <5>2. w + 1 \in Nat /\ w \in Nat
          BY <5>1
        <5>3. RunBound(run, w + 1) \in Nat /\ RunBound(run, w) \in Nat
          BY <5>1, <5>2, RunFacts
        <5>4. QED
          BY <4>1, <4>2, <5>3
      <4>4. QED
        BY <3>1, <4>1, <4>3
    <3>2. CASE v # w
      BY <1>4, <2>1, <3>2 DEF IInv, DoneInv, ExitedIsDone
    <3>3. QED
      BY <3>1, <3>2
  <2>2. QED
    BY <1>1, <1>3, <2>1 DEF ExitedIsDone
<1>11. MergedIsTotal'
  BY <1>1, NothingMerged DEF IInv, DoneInv
<1>12. QED
  BY <1>5, <1>6, <1>7, <1>8, <1>9, <1>10, <1>11 DEF IInv, ClaimInv, LineInv, DoneInv

\* The caller adds up extractions that have no line in common.
LEMMA MergeKeepsInv ==
  ASSUME Typed, IInv, Merge
  PROVE  IInv'
<1>1. /\ Joined /\ merged \in Workers(run) /\ merged' = merged + 1
      /\ total' = total (+) shards[merged]
      /\ UNCHANGED <<run, cursor, pc, next, lines, shards>>
  BY DEF Merge
<1>2. /\ ClaimInv' /\ LineInv' /\ ReachedIsTaken' /\ ExitedIsDone' /\ Joined'
  <2>1. /\ Workers(run)' = Workers(run) /\ Documents(run)' = Documents(run)
        /\ \A k : Block(run, k)' = Block(run, k)
        /\ \A v : /\ Reached(v)' = Reached(v) /\ RunBound(run, v)' = RunBound(run, v)
                  /\ Mine(v)' = Mine(v)
        /\ Exited' = Exited
    BY <1>1 DEF Reached, Mine, Exited
  <2>2. ClaimInv'
    BY <1>1, <2>1 DEF IInv, ClaimInv, RunsInBounds, CursorInBounds
  <2>3. LineInv'
    BY <1>1, <2>1 DEF IInv, LineInv, MineIsReached, EachLineOnce
  <2>4. ReachedIsTaken'
    BY <1>1, <2>1 DEF IInv, DoneInv, ReachedIsTaken
  <2>5. ExitedIsDone' /\ Joined'
    BY <1>1, <2>1 DEF IInv, DoneInv, ExitedIsDone, Joined
  <2>6. QED
    BY <2>2, <2>3, <2>4, <2>5
<1> DEFINE D == BagToSet(shards[merged])
<1>3. Workers(run) = 0 .. Threads(run) - 1 /\ Threads(run) \in Nat
  BY RunFacts DEF Typed
<1>4. D \intersect MergedLines = {}
  <2>1. ASSUME NEW v \in Workers(run), v < merged PROVE D \intersect BagToSet(shards[v]) = {}
    <3>1. v # merged
      BY <1>1, <1>3, <2>1
    <3>2. QED
      BY <1>1, <3>1 DEF IInv, LineInv, EachLineOnce, Mine
  <2>2. QED
    BY <2>1 DEF MergedLines
<1>5. MergedLines' = MergedLines \union D
  <2>1. {v \in Workers(run) : v < merged'} = {v \in Workers(run) : v < merged} \union {merged}
    BY <1>1, <1>3
  <2>2. MergedLines' = UNION {BagToSet(shards[v]) : v \in {v \in Workers(run) : v < merged'}}
    BY <1>1 DEF MergedLines
  <2>3. QED
    BY <2>1, <2>2 DEF MergedLines
<1>6. total' = SetToBag(MergedLines')
  <2>1. total = SetToBag(MergedLines) /\ shards[merged] = SetToBag(D)
    BY <1>1 DEF IInv, LineInv, EachLineOnce, DoneInv, MergedIsTotal
  <2> HIDE DEF D
  <2>2. QED
    BY <1>1, <1>4, <1>5, <2>1, SumOfSets
<1>7. QED
  BY <1>2, <1>6 DEF IInv, DoneInv, MergedIsTotal

LEMMA NextInv ==
  ASSUME CountersFit, Typed, WholeLines, IInv, [Next]_vars
  PROVE  IInv'
<1>1. run \in Runs /\ NothingWraps(run)
  BY DEF Typed, CountersFit
<1>2. CASE UNCHANGED vars
  <2>1. UNCHANGED <<run, cursor, pc, next, lines, shards, merged, total>>
    BY <1>2 DEF vars
  <2>2. /\ \A v : Reached(v)' = Reached(v) /\ Mine(v)' = Mine(v)
        /\ Exited' = Exited /\ MergedLines' = MergedLines /\ Joined' = Joined
    BY <2>1 DEF Reached, Mine, Exited, MergedLines, Joined
  <2>3. ClaimInv'
    BY <2>1, <2>2 DEF IInv, ClaimInv, RunsInBounds, CursorInBounds
  <2>4. LineInv'
    BY <2>1, <2>2 DEF IInv, LineInv, MineIsReached, EachLineOnce
  <2>5. DoneInv'
    BY <2>1, <2>2 DEF IInv, DoneInv, ReachedIsTaken, ExitedIsDone, MergedIsTotal
  <2>6. QED
    BY <2>3, <2>4, <2>5 DEF IInv
<1>3. CASE Merge
  BY <1>3, MergeKeepsInv
<1>4. ASSUME NEW w \in Workers(run), Spawn(w) \/ Worker(w) PROVE IInv'
  BY <1>1, <1>4, ThreadStepKeepsInv, ClaimKeepsInv, ParseLineKeepsInv DEF Worker
<1>5. QED
  BY <1>2, <1>3, <1>4 DEF Next, Caller, Terminated

\* The inductive invariant holds in every execution whose counters fit: blocks are
\* reached once, every line of a block that is reached is some worker's, and what
\* has been merged is what those workers extracted.
THEOREM SlicedInvariant ==
  ASSUME CountersFit
  PROVE  Spec => [](Typed /\ WholeLines /\ IInv)
<1>1. Init => Typed /\ WholeLines /\ IInv
  <2>1. Init => run \in Runs
    BY DEF Init
  <2>2. QED
    BY <2>1, InitTyped, InitInv DEF CountersFit
<1>2. Typed /\ WholeLines /\ IInv /\ [Next]_vars => (Typed /\ WholeLines /\ IInv)'
  BY NextTyped, NextInv
<1>3. QED
  BY <1>1, <1>2, PTL DEF Spec

\* No worker goes through a line twice, and no two workers through the same byte of
\* a document, whatever the order in which they claim the blocks.
THEOREM EachLineIsOneWorkers ==
  ASSUME CountersFit
  PROVE  Spec => []SlicesAbut
<1>1. Typed /\ WholeLines /\ IInv => SlicesAbut
  <2>1. SUFFICES ASSUME Typed, WholeLines, IInv PROVE SlicesAbut
    OBVIOUS
  <2>2. run \in Runs /\ IsCorpus(run.text)
    BY <2>1, RunFacts DEF Typed
  <2>3. \A w \in Workers(run) : \A l \in BagToSet(shards[w]) : shards[w][l] = 1
    <3>1. \A S : \A l \in S : SetToBag(S)[l] = 1
      BY DEF SetToBag
    <3>2. \A w \in Workers(run) : shards[w] = SetToBag(BagToSet(shards[w]))
      BY <2>1 DEF IInv, LineInv, EachLineOnce
    <3>3. SUFFICES ASSUME NEW w \in Workers(run), NEW l \in BagToSet(shards[w])
                   PROVE  shards[w][l] = 1
      OBVIOUS
    <3> DEFINE S == BagToSet(shards[w])
    <3>4. shards[w] = SetToBag(S) /\ l \in S
      BY <3>2
    <3> HIDE DEF S
    <3>5. QED
      BY <3>1, <3>4
  <2>4. ASSUME NEW v \in Workers(run), NEW w \in Workers(run), v # w,
               NEW l \in Mine(v), NEW m \in Mine(w)
        PROVE  l.last < m.first \/ m.last < l.first
    <3>1. l # m
      BY <2>1, <2>4 DEF IInv, LineInv, EachLineOnce
    <3>2. l \in AllLines(run.text) /\ m \in AllLines(run.text)
      BY <2>1 DEF WholeLines, AllLines, IInv, LineInv, EachLineOnce, Mine, Documents
    <3>3. QED
      BY <2>2, <3>1, <3>2, LinesApart
  <2>5. QED
    BY <2>3, <2>4 DEF SlicesAbut, Mine
<1>2. QED
  BY <1>1, SlicedInvariant, PTL

\* What the call returns is what the serial driver makes of the corpus, whatever
\* the threads, the slices, the partition and the order of their steps.
THEOREM SlicedReproducesSerial ==
  ASSUME CountersFit
  PROVE  Spec => []AgreesWithSerial
<1>1. Typed /\ WholeLines /\ IInv => AgreesWithSerial
  <2>1. SUFFICES ASSUME Typed, WholeLines, IInv, Returned PROVE total = Serial(run)
    BY DEF AgreesWithSerial
  <2>2. /\ run \in Runs /\ NothingWraps(run)
        /\ merged = Threads(run) /\ Threads(run) \in Nat \ {0}
        /\ Workers(run) = 0 .. Threads(run) - 1
        /\ run.text.length \in Nat /\ SliceBytes(run) \in Nat \ {0}
    BY <2>1, RunFacts DEF Typed, Returned, CountersFit
  <2>3. \A w \in Workers(run) :
          /\ pc[w] = "exited" /\ lines[w] = {}
          /\ IF run.stat THEN next[w] = RunBound(run, w + 1) ELSE cursor >= run.text.length
    <3>1. Joined
      BY <2>1, <2>2 DEF IInv, DoneInv, MergedIsTotal
    <3>2. QED
      BY <2>1, <3>1 DEF Joined, IInv, DoneInv, ExitedIsDone
  <2>4. MergedLines = UNION {BagToSet(shards[v]) : v \in Workers(run)}
    <3>1. {v \in Workers(run) : v < merged} = Workers(run)
      BY <2>2
    <3>2. QED
      BY <3>1 DEF MergedLines
  <2>5. MergedLines \subseteq Documents(run)
    BY <2>1, <2>4 DEF IInv, LineInv, EachLineOnce
  <2>6. ASSUME NEW l \in Documents(run) PROVE l \in MergedLines
    <3>1. PICK i \in Nat : i * SliceBytes(run) < run.text.length /\ l \in Block(run, i)
      BY <2>2, BlocksFacts DEF Documents, AllLines
    <3>2. \E w \in Workers(run) : i \in Reached(w)
      <4>1. CASE run.stat
        <5>1. PICK v \in Workers(run) : RunBound(run, v) <= i /\ i < RunBound(run, v + 1)
          BY <2>2, <3>1, <4>1, RunBounds
        <5>2. next[v] = RunBound(run, v + 1)
          BY <2>3, <4>1
        <5>3. RunBound(run, v) \in Nat /\ RunBound(run, v + 1) \in Nat
          <6>1. v \in Nat /\ v + 1 \in Nat
            BY <2>2
          <6>2. QED
            BY <2>2, <6>1, RunFacts
        <5>4. i \in RunBound(run, v) .. next[v] - 1
          BY <5>1, <5>2, <5>3
        <5>5. QED
          BY <4>1, <5>4 DEF Reached
      <4>2. CASE ~ run.stat
        <5> DEFINE S == SliceBytes(run)
                   L == run.text.length
        <5>1. 0 \in Workers(run)
          BY <2>2
        <5>2. cursor >= L /\ cursor \in Int
          BY <2>1, <2>3, <4>2, <5>1 DEF Typed, TypeOK
        <5> HIDE DEF S, L
        <5>3. S \in Nat \ {0} /\ L \in Nat /\ i * S < L
          BY <2>2, <3>1 DEF S, L
        <5>4. i * S \in Nat /\ i <= i * S
          BY <5>3
        <5>5. i * S < cursor /\ i \in 0 .. L
          BY <5>2, <5>3, <5>4
        <5>6. QED
          BY <4>2, <5>1, <5>5 DEF Reached, S, L
      <4>3. QED
        BY <4>1, <4>2
    <3>3. PICK u \in Workers(run) : l \in Mine(u)
      BY <2>1, <2>6, <3>1, <3>2 DEF IInv, DoneInv, ReachedIsTaken
    <3>4. l \in BagToSet(shards[u])
      BY <2>3, <3>3 DEF Mine
    <3>5. QED
      BY <2>4, <3>4
  <2>7. MergedLines = Documents(run)
    BY <2>5, <2>6
  <2>8. QED
    BY <2>1, <2>7 DEF IInv, DoneInv, MergedIsTotal, Serial
<1>2. QED
  BY <1>1, SlicedInvariant, PTL
=============================================================================
