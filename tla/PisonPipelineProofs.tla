------------------------- MODULE PisonPipelineProofs -------------------------
(***************************************************************************)
(* fast_loader makes what reference_loader makes, and run_stream on what   *)
(* it made queries each record of the stream once, for any stream, any     *)
(* number of threads and any order of their steps.                         *)
(*                                                                         *)
(* The threads write to one buffer and one table without a lock, each from *)
(* a place that was summed up before.  So the proof first numbers the      *)
(* records of the whole stream, and shows that the records of chunk t are  *)
(* those from First(t) on, and that what was summed up for chunk t is      *)
(* First(t) and the place the serial loader gives that record.  Then every *)
(* state of the second phase is known from which records are written: the  *)
(* buffer and the table are those of the serial loader, cut down to them.  *)
(***************************************************************************)
EXTENDS PisonPipeline, SlicingProofs, SequenceTheorems, TLAPS

-----------------------------------------------------------------------------
(* Chunks and the lines in them.                                           *)

IsText(text) ==
  /\ text.length \in Nat
  /\ text.lf \in SUBSET (0 .. text.length - 1)
  /\ text.cr \in SUBSET (0 .. text.length - 1)

\* Where a line of the text may begin, or its end.
IsEdge(text, x) ==
  /\ x \in 0 .. text.length
  /\ x = 0 \/ x = text.length \/ x - 1 \in text.lf

LEMMA LoadFacts ==
  ASSUME NEW c \in Loads
  PROVE  /\ IsText(c.text)
         /\ ThreadCount(c) \in Nat \ {0}
         /\ 0 \in Threads(c) /\ Threads(c) = 0 .. ThreadCount(c) - 1
BY FastLoaderAssumption DEF IsText, ThreadCount, Threads

LEMMA SnappedIsEdge ==
  ASSUME NEW c \in Loads, NEW t \in 0 .. ThreadCount(c)
  PROVE  IsEdge(c.text, Snapped(c, t))
<1> DEFINE L == c.text.length
           Feeds == {p \in c.text.lf : Guess(c, t) <= p}
           Ends == {L} \union {p + 1 : p \in Feeds}
<1>1. IsText(c.text)
  BY LoadFacts
<1>2. CASE t = 0
  BY <1>1, <1>2 DEF Snapped, IsEdge, IsText
<1>3. CASE t # 0 /\ t = ThreadCount(c)
  BY <1>1, <1>3 DEF Snapped, IsEdge, IsText
<1>4. CASE t # 0 /\ t # ThreadCount(c)
  <2>1. Ends \in SUBSET Nat /\ Ends # {}
    BY <1>1 DEF IsText
  <2>2. Min(Ends) \in Ends
    BY <2>1, MinFacts
  <2>3. Snapped(c, t) = Min(Ends)
    BY <1>4 DEF Snapped
  <2>4. Min(Ends) = L \/ \E p \in c.text.lf : Min(Ends) = p + 1
    BY <2>2
  <2> HIDE DEF Ends
  <2>5. QED
    BY <1>1, <2>3, <2>4 DEF IsEdge, IsText
<1>5. QED
  BY <1>2, <1>3, <1>4

\* The bounds of the chunks are edges of lines, in order, from 0 to the end.
LEMMA ChunkBounds ==
  ASSUME NEW c \in Loads
  PROVE  /\ \A t \in 0 .. ThreadCount(c) : IsEdge(c.text, ChunkBound(c, t))
         /\ \A t, u \in 0 .. ThreadCount(c) : t <= u => ChunkBound(c, t) <= ChunkBound(c, u)
         /\ ChunkBound(c, 0) = 0
         /\ ChunkBound(c, ThreadCount(c)) = c.text.length
<1> DEFINE n == ThreadCount(c)
           L == c.text.length
           Upto(t) == {Snapped(c, v) : v \in 0 .. t}
<1>1. IsText(c.text) /\ n \in Nat \ {0} /\ L \in Nat
  BY LoadFacts DEF IsText
<1>2. \A v \in 0 .. n : IsEdge(c.text, Snapped(c, v)) /\ Snapped(c, v) \in 0 .. L
  BY SnappedIsEdge DEF IsEdge
<1>3. Snapped(c, 0) = 0 /\ Snapped(c, n) = L
  BY <1>1 DEF Snapped
<1> HIDE DEF n
<1>4. ASSUME NEW t \in 0 .. n
      PROVE  /\ ChunkBound(c, t) = Max(Upto(t))
             /\ ChunkBound(c, t) \in Upto(t)
             /\ \A m \in Upto(t) : m <= ChunkBound(c, t)
  <2>1. t \in 0 .. t /\ \A v \in 0 .. t : v \in 0 .. n
    BY <1>1
  <2>2. Upto(t) \in SUBSET (0 .. L) /\ Upto(t) # {}
    BY <1>2, <2>1
  <2>3. Max(Upto(t)) \in Upto(t) /\ \A m \in Upto(t) : m <= Max(Upto(t))
    <3> HIDE DEF Upto
    <3>1. QED
      BY <1>1, <2>2, MaxFacts
  <2>4. QED
    BY <2>3 DEF ChunkBound
<1>5. ASSUME NEW t \in 0 .. n PROVE IsEdge(c.text, ChunkBound(c, t))
  <2>1. \A v \in 0 .. t : v \in 0 .. n
    BY <1>1
  <2>2. QED
    BY <1>2, <1>4, <2>1
<1>6. ASSUME NEW t \in 0 .. n, NEW u \in 0 .. n, t <= u
      PROVE  ChunkBound(c, t) <= ChunkBound(c, u)
  <2>1. Upto(t) \subseteq Upto(u)
    BY <1>6
  <2>2. QED
    BY <1>4, <2>1
<1>7. ChunkBound(c, 0) = 0
  <2>1. 0 \in 0 .. n /\ \A v \in 0 .. 0 : v = 0
    BY <1>1
  <2>2. ChunkBound(c, 0) \in Upto(0)
    BY <1>4, <2>1
  <2>3. QED
    BY <1>3, <2>1, <2>2
<1>8. ChunkBound(c, n) = L
  <2>1. L \in Upto(n)
    BY <1>1, <1>3
  <2>2. ChunkBound(c, n) \in 0 .. L /\ L <= ChunkBound(c, n)
    <3>1. n \in 0 .. n
      BY <1>1
    <3> HIDE DEF Upto
    <3>2. QED
      BY <1>4, <1>5, <2>1, <3>1 DEF IsEdge
  <2>3. QED
    BY <1>1, <2>2
<1>9. QED
  BY <1>5, <1>6, <1>7, <1>8 DEF n

\* Where the line at s ends, and how long it is without its terminator, when the
\* scan stops at an edge: as in a scan of the whole text.
LEMMA LineEnds ==
  ASSUME NEW text, IsText(text), NEW stop, IsEdge(text, stop),
         NEW s \in Nat, s < stop
  PROVE  /\ LineEnd(text, s, stop) \in s + 1 .. stop
         /\ LineEnd(text, s, stop) = LineEnd(text, s, text.length)
         /\ Trimmed(text, s, stop) = Trimmed(text, s, text.length)
         /\ Trimmed(text, s, stop) \in 0 .. LineEnd(text, s, stop) - s
<1> DEFINE L == text.length
           Ends(e) == {e} \union {p + 1 : p \in {p \in text.lf : s <= p /\ p < e}}
<1>1. /\ L \in Nat /\ stop \in 0 .. L
      /\ text.lf \subseteq 0 .. L - 1
      /\ stop = L \/ stop - 1 \in text.lf
  BY DEF IsText, IsEdge
<1>2. ASSUME NEW e \in {stop, L}
      PROVE  /\ LineEnd(text, s, e) = Min(Ends(e))
             /\ LineEnd(text, s, e) \in Ends(e)
             /\ \A m \in Ends(e) : LineEnd(text, s, e) <= m
             /\ \A m \in Ends(e) : m \in s + 1 .. e
  <2>1. e \in Nat /\ s < e
    BY <1>1
  <2>2. \A m \in Ends(e) : m \in s + 1 .. e
    BY <1>1, <2>1
  <2>3. Ends(e) \in SUBSET Nat /\ Ends(e) # {}
    <3>1. \A m \in s + 1 .. e : m \in Nat
      BY <2>1
    <3>2. QED
      BY <2>2, <3>1
  <2>4. Min(Ends(e)) \in Ends(e) /\ \A m \in Ends(e) : Min(Ends(e)) <= m
    <3> HIDE DEF Ends
    <3>1. QED
      BY <2>3, MinFacts
  <2>5. QED
    BY <2>2, <2>4 DEF LineEnd
<1>3. LineEnd(text, s, stop) \in s + 1 .. stop
  BY <1>2
<1>4. LineEnd(text, s, stop) = LineEnd(text, s, L)
  <2>1. CASE stop = L
    BY <2>1
  <2>2. CASE stop # L
    <3>1. stop \in Ends(L) /\ stop - 1 \in text.lf
      BY <1>1, <2>2
    <3>2. LineEnd(text, s, L) <= stop /\ LineEnd(text, s, L) \in Ends(L)
      BY <1>2, <3>1
    <3>3. LineEnd(text, s, L) \in Ends(stop)
      BY <1>1, <2>2, <3>2
    <3>4. LineEnd(text, s, stop) \in Ends(L)
      <4>1. Ends(stop) \subseteq Ends(L)
        BY <1>1, <3>1
      <4>2. LineEnd(text, s, stop) \in Ends(stop)
        BY <1>2
      <4>3. QED
        BY <4>1, <4>2
    <3>5. /\ LineEnd(text, s, stop) <= LineEnd(text, s, L)
          /\ LineEnd(text, s, L) <= LineEnd(text, s, stop)
          /\ LineEnd(text, s, stop) \in s + 1 .. stop
          /\ LineEnd(text, s, L) \in s + 1 .. L
      BY <1>2, <3>3, <3>4
    <3>6. QED
      BY <1>1, <3>5
  <2>3. QED
    BY <2>1, <2>2
<1> DEFINE e == LineEnd(text, s, stop)
           Lengths == {0} \union {n \in 1 .. e - s : s + n - 1 \notin text.lf \union text.cr}
<1>5. Trimmed(text, s, stop) = Max(Lengths) /\ Trimmed(text, s, L) = Max(Lengths)
  BY <1>4 DEF Trimmed
<1>6. e - s \in Nat
  BY <1>1, <1>3
<1> HIDE DEF e
<1>7. Lengths \in SUBSET (0 .. e - s) /\ Lengths # {}
  BY <1>6
<1>8. Max(Lengths) \in 0 .. e - s
  <2> HIDE DEF Lengths
  <2>1. QED
    BY <1>6, <1>7, MaxFacts
<1>9. QED
  BY <1>3, <1>4, <1>5, <1>8 DEF e

\* The records of a chunk are those of the stream that begin in it.
LEMMA RecordsOfChunk ==
  ASSUME NEW text, IsText(text), NEW b, IsEdge(text, b), NEW e, IsEdge(text, e)
  PROVE  RecordBegins(text, b, e) =
           {s \in RecordBegins(text, 0, text.length) : b <= s /\ s < e}
<1> DEFINE L == text.length
<1>1. /\ L \in Nat /\ b \in 0 .. L /\ e \in 0 .. L
      /\ text.lf \subseteq 0 .. L - 1
      /\ b = 0 \/ b = L \/ b - 1 \in text.lf
  BY DEF IsText, IsEdge
<1>2. LineBegins(text, b, e) = {s \in LineBegins(text, 0, L) : b <= s /\ s < e}
  <2>1. ASSUME NEW s \in LineBegins(text, b, e)
        PROVE  s \in LineBegins(text, 0, L) /\ b <= s /\ s < e
    <3>1. s < e /\ s \in Int /\ (s = b \/ \E p \in text.lf \intersect (b .. e - 1) : s = p + 1)
      BY <1>1, <2>1 DEF LineBegins
    <3>2. CASE s = b
      <4>1. s < L /\ (s = 0 \/ s - 1 \in text.lf \intersect (0 .. L - 1)) /\ s = (s - 1) + 1
        BY <1>1, <3>1, <3>2
      <4>2. QED
        BY <1>1, <3>1, <3>2, <4>1 DEF LineBegins
    <3>3. ASSUME NEW p \in text.lf \intersect (b .. e - 1), s = p + 1
          PROVE  s \in LineBegins(text, 0, L) /\ b <= s /\ s < e
      <4>1. p \in text.lf \intersect (0 .. L - 1) /\ s < L
        BY <1>1, <3>1, <3>3
      <4>2. QED
        BY <1>1, <3>1, <3>3, <4>1 DEF LineBegins
    <3>4. QED
      BY <3>1, <3>2, <3>3
  <2>2. ASSUME NEW s \in LineBegins(text, 0, L), b <= s, s < e
        PROVE  s \in LineBegins(text, b, e)
    <3>1. s = 0 \/ \E p \in text.lf \intersect (0 .. L - 1) : s = p + 1
      BY DEF LineBegins
    <3>2. s = b \/ \E p \in text.lf \intersect (b .. e - 1) : s = p + 1
      BY <1>1, <2>2, <3>1
    <3>3. QED
      BY <2>2, <3>2 DEF LineBegins
  <2>3. QED
    BY <2>1, <2>2
<1>3. ASSUME NEW s \in LineBegins(text, b, e)
      PROVE  Trimmed(text, s, e) = Trimmed(text, s, L)
  <2>1. s \in Nat /\ s < e
    <3>1. b \in Nat /\ s < e /\ (s = b \/ \E p \in text.lf : s = p + 1)
      BY <1>1 DEF LineBegins
    <3>2. QED
      BY <1>1, <3>1
  <2>2. QED
    BY <2>1, LineEnds
<1>4. QED
  BY <1>2, <1>3 DEF RecordBegins

\* What the scan of a piece of the text finds: sequences of records, each a place in
\* the text and a length.
LEMMA RecordBeginsFacts ==
  ASSUME NEW text, IsText(text), NEW b, IsEdge(text, b), NEW e, IsEdge(text, e)
  PROVE  /\ RecordBegins(text, b, e) \in SUBSET (0 .. text.length - 1)
         /\ IsFiniteSet(RecordBegins(text, b, e))
         /\ Cardinality(RecordBegins(text, b, e)) \in Nat
         /\ \A s \in RecordBegins(text, b, e) : Trimmed(text, s, e) \in Nat
<1>1. /\ text.length \in Nat /\ b \in 0 .. text.length /\ e \in 0 .. text.length
      /\ text.lf \subseteq 0 .. text.length - 1
  BY DEF IsText, IsEdge
<1>2. ASSUME NEW s \in RecordBegins(text, b, e) PROVE s \in 0 .. text.length - 1 /\ s < e
  <2>1. s < e /\ (s = b \/ \E p \in text.lf : s = p + 1)
    BY DEF RecordBegins, LineBegins
  <2>2. QED
    BY <1>1, <2>1
<1>3. IsFiniteSet(RecordBegins(text, b, e))
  <2>1. IsFiniteSet(0 .. text.length - 1)
    <3>1. text.length - 1 \in Int
      BY <1>1
    <3>2. QED
      BY <3>1, FS_Interval
  <2>2. RecordBegins(text, b, e) \in SUBSET (0 .. text.length - 1)
    BY <1>2
  <2>3. QED
    BY <2>1, <2>2, FS_Subset
<1>4. ASSUME NEW s \in RecordBegins(text, b, e) PROVE Trimmed(text, s, e) \in Nat
  <2>1. s \in Nat /\ s < e
    BY <1>1, <1>2
  <2>2. /\ LineEnd(text, s, e) \in s + 1 .. e
        /\ Trimmed(text, s, e) \in 0 .. LineEnd(text, s, e) - s
    BY <2>1, LineEnds
  <2>3. QED
    BY <2>2
<1>5. QED
  BY <1>2, <1>3, <1>4, FS_CardinalityType

Below(S, x) == {r \in S : r < x}

\* The elements of a finite set of naturals are numbered by how many are below them.
LEMMA Ranks ==
  ASSUME NEW S \in SUBSET Nat, IsFiniteSet(S)
  PROVE  /\ \A i \in 1 .. Cardinality(S) :
              Ith(S, i) \in S /\ Cardinality(Below(S, Ith(S, i))) = i - 1
         /\ \A s \in S : /\ Cardinality(Below(S, s)) + 1 \in 1 .. Cardinality(S)
                         /\ Ith(S, Cardinality(Below(S, s)) + 1) = s
<1> DEFINE n == Cardinality(S)
           rank == [s \in S |-> Cardinality(Below(S, s))]
<1>1. n \in Nat
  BY FS_CardinalityType
<1>2. \A x : IsFiniteSet(Below(S, x)) /\ Cardinality(Below(S, x)) \in Nat
  <2>1. \A x : Below(S, x) \in SUBSET S
    BY DEF Below
  <2>2. \A x : IsFiniteSet(Below(S, x))
    BY <2>1, FS_Subset
  <2>3. QED
    BY <2>2, FS_CardinalityType
<1>3. ASSUME NEW s \in S, NEW t, Below(S, s) \union {s} \subseteq Below(S, t)
      PROVE  Cardinality(Below(S, s)) < Cardinality(Below(S, t))
  <2>1. s \notin Below(S, s) /\ s \in Below(S, t)
    BY <1>3 DEF Below
  <2>2. Cardinality(Below(S, s) \union {s}) = Cardinality(Below(S, s)) + 1
    BY <1>2, <2>1, FS_AddElement
  <2>3. Cardinality(Below(S, s) \union {s}) <= Cardinality(Below(S, t))
    BY <1>2, <1>3, FS_Subset
  <2>4. QED
    BY <1>2, <2>2, <2>3
<1>4. ASSUME NEW s \in S, NEW t \in S, s < t
      PROVE  Cardinality(Below(S, s)) < Cardinality(Below(S, t))
  <2>1. Below(S, s) \union {s} \subseteq Below(S, t)
    <3>1. s \in Nat /\ t \in Nat /\ \A r \in S : r \in Nat
      OBVIOUS
    <3>2. \A r \in S : r < s => r < t
      BY <1>4, <3>1
    <3>3. QED
      BY <1>4, <3>2 DEF Below
  <2>2. QED
    BY <1>3, <2>1
<1>5. ASSUME NEW s \in S PROVE Cardinality(Below(S, s)) < n
  <2>1. Below(S, s) \in SUBSET (S \ {s})
    BY DEF Below
  <2>2. IsFiniteSet(S \ {s}) /\ Cardinality(S \ {s}) = n - 1
    BY FS_RemoveElement
  <2>3. Cardinality(Below(S, s)) <= n - 1
    BY <2>1, <2>2, FS_Subset
  <2>4. QED
    BY <1>1, <1>2, <2>3
<1>6. rank \in Injection(S, 0 .. n - 1)
  <2>1. rank \in [S -> 0 .. n - 1]
    BY <1>1, <1>2, <1>5
  <2>2. ASSUME NEW s \in S, NEW t \in S, rank[s] = rank[t] PROVE s = t
    <3>1. ~ (s < t) /\ ~ (t < s)
      BY <1>2, <1>4, <2>2
    <3>2. s \in Nat /\ t \in Nat
      OBVIOUS
    <3>3. QED
      BY <3>1, <3>2
  <2> HIDE DEF rank
  <2>3. QED
    BY <2>1, <2>2 DEF Injection, IsInjective
<1>7. \A i \in 0 .. n - 1 : \E s \in S : rank[s] = i
  <2>1. IsFiniteSet(0 .. n - 1) /\ Cardinality(0 .. n - 1) = n
    <3>1. n - 1 \in Int /\ (0 > n - 1 => n = 0) /\ n - 1 - 0 + 1 = n
      BY <1>1
    <3>2. QED
      BY <3>1, FS_Interval
  <2> HIDE DEF rank
  <2>2. rank \in Surjection(S, 0 .. n - 1)
    BY <1>6, <2>1, FS_Injection
  <2>3. QED
    BY <2>2 DEF Surjection
<1>8. ASSUME NEW i \in 1 .. n PROVE Ith(S, i) \in S /\ Cardinality(Below(S, Ith(S, i))) = i - 1
  <2>1. i - 1 \in 0 .. n - 1
    BY <1>1
  <2>2. \E s \in S : Cardinality(Below(S, s)) = i - 1
    BY <1>7, <2>1
  <2>3. QED
    BY <2>2 DEF Ith, Below
<1>9. ASSUME NEW s \in S
      PROVE  /\ Cardinality(Below(S, s)) + 1 \in 1 .. n
             /\ Ith(S, Cardinality(Below(S, s)) + 1) = s
  <2> DEFINE i == Cardinality(Below(S, s)) + 1
  <2>1. i \in 1 .. n /\ Cardinality(Below(S, s)) = i - 1
    BY <1>1, <1>2, <1>5
  <2> HIDE DEF i
  <2>2. Ith(S, i) \in S /\ rank[Ith(S, i)] = rank[s]
    BY <1>8, <2>1
  <2> HIDE DEF rank
  <2>3. Ith(S, i) = s
    BY <1>6, <2>2 DEF Injection, IsInjective
  <2>4. QED
    BY <2>1, <2>3 DEF i
<1>10. QED
  BY <1>8, <1>9

LEMMA SameInterval ==
  ASSUME NEW m \in Nat, NEW n \in Nat, 1 .. m = 1 .. n
  PROVE  m = n
<1>1. (n > 0 => n \in 1 .. m) /\ (m > 0 => m \in 1 .. n)
  OBVIOUS
<1>2. QED
  BY <1>1

LEMMA ScanFacts ==
  ASSUME NEW text, IsText(text), NEW b, IsEdge(text, b), NEW e, IsEdge(text, e)
  PROVE  LET recs == ScanRange(text, b, e)
             begins == RecordBegins(text, b, e)
         IN /\ Len(recs) = Cardinality(begins) /\ Len(recs) \in Nat
            /\ DOMAIN recs = 1 .. Len(recs)
            /\ \A i \in 1 .. Len(recs) :
                 /\ recs[i] = [off |-> Ith(begins, i),
                               len |-> Trimmed(text, Ith(begins, i), e) % LengthSize]
                 /\ recs[i].off \in 0 .. text.length - 1
                 /\ recs[i].len \in 0 .. LengthSize - 1
<1> DEFINE begins == RecordBegins(text, b, e)
           n == Cardinality(begins)
           rec(i) == [off |-> Ith(begins, i), len |-> Trimmed(text, Ith(begins, i), e) % LengthSize]
           recs == [i \in 1 .. n |-> rec(i)]
<1>1. /\ begins \in SUBSET (0 .. text.length - 1) /\ IsFiniteSet(begins) /\ n \in Nat
      /\ \A s \in begins : Trimmed(text, s, e) \in Nat
  BY RecordBeginsFacts
<1>2. ScanRange(text, b, e) = recs
  BY DEF ScanRange
<1>3. ASSUME NEW i \in 1 .. n
      PROVE  rec(i).off \in 0 .. text.length - 1 /\ rec(i).len \in 0 .. LengthSize - 1
  <2>1. begins \in SUBSET Nat
    <3>1. \A s \in 0 .. text.length - 1 : s \in Nat
      OBVIOUS
    <3>2. QED
      BY <1>1, <3>1
  <2>2. Ith(begins, i) \in begins
    BY <1>1, <2>1, Ranks
  <2>3. Trimmed(text, Ith(begins, i), e) \in Nat
    BY <1>1, <2>2
  <2>4. \A l \in Nat : l % LengthSize \in 0 .. LengthSize - 1
    BY FastLoaderAssumption
  <2>5. QED
    BY <1>1, <2>2, <2>3, <2>4
<1> HIDE DEF begins, n
<1>4. recs \in Seq({rec(i) : i \in 1 .. n})
  <2> HIDE DEF rec
  <2>1. recs \in [1 .. n -> {rec(i) : i \in 1 .. n}]
    OBVIOUS
  <2>2. QED
    BY <1>1, <2>1, SeqDef
<1>5. Len(recs) \in Nat /\ DOMAIN recs = 1 .. Len(recs)
  <2> HIDE DEF recs
  <2>1. QED
    BY <1>4
<1>6. Len(recs) = n
  <2>1. DOMAIN recs = 1 .. n
    OBVIOUS
  <2> HIDE DEF recs
  <2>2. 1 .. Len(recs) = 1 .. n
    BY <1>5, <2>1
  <2>3. Len(recs) \in Nat /\ n \in Nat
    BY <1>1, <1>5
  <2>4. QED
    BY <2>2, <2>3, SameInterval
<1>7. QED
  BY <1>1, <1>2, <1>3, <1>5, <1>6 DEF begins, n

-----------------------------------------------------------------------------
(* The records of the stream, and which of them are those of chunk t.       *)

Begins(c) == RecordBegins(c.text, 0, c.text.length)

Recs(c) == ScanRange(c.text, 0, c.text.length)

Found(c, t) == ScanRange(c.text, ChunkBound(c, t), ChunkBound(c, t + 1))

\* How many records begin before chunk t.
First(c, t) == Cardinality(Below(Begins(c), ChunkBound(c, t)))

LEMMA RecsFacts ==
  ASSUME NEW c \in Loads
  PROVE  /\ Begins(c) \in SUBSET Nat /\ IsFiniteSet(Begins(c))
         /\ Len(Recs(c)) = Cardinality(Begins(c)) /\ Len(Recs(c)) \in Nat
         /\ DOMAIN Recs(c) = 1 .. Len(Recs(c))
         /\ \A i \in 1 .. Len(Recs(c)) :
              /\ Recs(c)[i] = [off |-> Ith(Begins(c), i),
                               len |-> Trimmed(c.text, Ith(Begins(c), i), c.text.length) % LengthSize]
              /\ Recs(c)[i].off \in 0 .. c.text.length - 1
              /\ Recs(c)[i].len \in 0 .. LengthSize - 1
         /\ \A s \in Begins(c) : s < c.text.length
<1>1. IsText(c.text) /\ IsEdge(c.text, 0) /\ IsEdge(c.text, c.text.length) /\ c.text.length \in Nat
  BY LoadFacts DEF IsText, IsEdge
<1>2. Begins(c) \in SUBSET (0 .. c.text.length - 1) /\ IsFiniteSet(Begins(c))
  BY <1>1, RecordBeginsFacts DEF Begins
<1>3. \A s \in 0 .. c.text.length - 1 : s \in Nat /\ s < c.text.length
  BY <1>1
<1>4. QED
  BY <1>1, <1>2, <1>3, ScanFacts DEF Begins, Recs

\* The records before the end of chunk t are those before it and those of it.
LEMMA ChunkIsSegment ==
  ASSUME NEW c \in Loads, NEW t \in Threads(c)
  PROVE  /\ First(c, t) \in Nat /\ Len(Found(c, t)) \in Nat
         /\ DOMAIN Found(c, t) = 1 .. Len(Found(c, t))
         /\ First(c, t + 1) = First(c, t) + Len(Found(c, t))
         /\ First(c, t + 1) <= Len(Recs(c))
         /\ \A j \in 1 .. Len(Found(c, t)) :
              /\ First(c, t) + j \in 1 .. Len(Recs(c))
              /\ Found(c, t)[j] = Recs(c)[First(c, t) + j]
<1> DEFINE b == ChunkBound(c, t)
           e == ChunkBound(c, t + 1)
           S == Begins(c)
           C == RecordBegins(c.text, b, e)
<1>1. /\ IsText(c.text) /\ IsEdge(c.text, b) /\ IsEdge(c.text, e) /\ b <= e
      /\ b \in Nat /\ e \in Nat
  <2>1. /\ ThreadCount(c) \in Nat \ {0} /\ IsText(c.text)
        /\ t \in 0 .. ThreadCount(c) /\ t + 1 \in 0 .. ThreadCount(c) /\ t <= t + 1
    BY LoadFacts
  <2>2. IsEdge(c.text, b) /\ IsEdge(c.text, e) /\ b <= e
    BY <2>1, ChunkBounds
  <2>3. QED
    BY <2>1, <2>2 DEF IsEdge, IsText
<1>2. C = {s \in S : b <= s /\ s < e}
  BY <1>1, RecordsOfChunk DEF Begins
<1>3. S \in SUBSET Nat /\ IsFiniteSet(S) /\ Len(Recs(c)) = Cardinality(S) /\ Len(Recs(c)) \in Nat
  BY RecsFacts
<1>4. /\ Len(Found(c, t)) = Cardinality(C) /\ Len(Found(c, t)) \in Nat
      /\ DOMAIN Found(c, t) = 1 .. Len(Found(c, t))
      /\ \A j \in 1 .. Len(Found(c, t)) :
           Found(c, t)[j] = [off |-> Ith(C, j), len |-> Trimmed(c.text, Ith(C, j), e) % LengthSize]
  BY <1>1, ScanFacts DEF Found
<1> HIDE DEF b, e, S, C
<1>5. IsFiniteSet(C) /\ C \in SUBSET Nat /\ C \in SUBSET S
  BY <1>2, <1>3, FS_Subset
<1>6. \A x : IsFiniteSet(Below(S, x)) /\ Cardinality(Below(S, x)) \in Nat
  <2>1. \A x : Below(S, x) \in SUBSET S
    BY DEF Below
  <2>2. QED
    BY <1>3, <2>1, FS_Subset, FS_CardinalityType
<1>7. \A x : IsFiniteSet(Below(C, x)) /\ Cardinality(Below(C, x)) \in Nat
  <2>1. \A x : Below(C, x) \in SUBSET C
    BY DEF Below
  <2>2. QED
    BY <1>5, <2>1, FS_Subset, FS_CardinalityType
<1>8. ASSUME NEW x \in Nat, b <= x, x <= e
      PROVE  Cardinality(Below(S, x)) = Cardinality(Below(S, b)) + Cardinality(Below(C, x))
  <2>1. Below(S, b) \intersect Below(C, x) = {}
    <3>1. \A s \in S : s \in Nat
      BY <1>3
    <3>2. \A s \in S : ~ (s < b /\ b <= s)
      BY <1>1, <3>1
    <3>3. QED
      BY <1>2, <3>2 DEF Below
  <2>2. Below(S, b) \union Below(C, x) = Below(S, x)
    <3>1. \A s \in S : s \in Nat
      BY <1>3
    <3>2. \A s \in S : s < x <=> (s < b \/ (b <= s /\ s < e /\ s < x))
      BY <1>1, <1>8, <3>1
    <3>3. QED
      BY <1>2, <3>2 DEF Below
  <2>3. Cardinality({}) = 0
    BY FS_EmptySet
  <2>4. Cardinality(Below(S, b) \union Below(C, x)) =
          Cardinality(Below(S, b)) + Cardinality(Below(C, x)) - Cardinality(Below(S, b) \intersect Below(C, x))
    BY <1>6, <1>7, FS_Union
  <2>5. Cardinality(Below(S, x)) = Cardinality(Below(S, b)) + Cardinality(Below(C, x)) - 0
    BY <2>1, <2>2, <2>3, <2>4
  <2>6. Cardinality(Below(S, b)) \in Nat /\ Cardinality(Below(C, x)) \in Nat
    BY <1>6, <1>7
  <2>7. QED
    BY <2>5, <2>6
<1>9. Cardinality(Below(S, b)) = First(c, t) /\ Cardinality(Below(S, e)) = First(c, t + 1)
  BY DEF First, S, b, e
<1>10. First(c, t + 1) = First(c, t) + Len(Found(c, t))
  <2>1. Below(C, e) = C
    BY <1>2 DEF Below
  <2>2. e <= e
    BY <1>1
  <2>3. QED
    BY <1>1, <1>4, <1>8, <1>9, <2>1, <2>2
<1>11. First(c, t + 1) <= Len(Recs(c))
  <2>1. Below(S, e) \in SUBSET S
    BY DEF Below
  <2>2. QED
    BY <1>3, <1>9, <2>1, FS_Subset
<1>12. ASSUME NEW j \in 1 .. Len(Found(c, t))
       PROVE  /\ First(c, t) + j \in 1 .. Len(Recs(c))
              /\ Found(c, t)[j] = Recs(c)[First(c, t) + j]
  <2> DEFINE s == Ith(C, j)
  <2>1. s \in C /\ Cardinality(Below(C, s)) = j - 1
    BY <1>4, <1>5, Ranks
  <2> HIDE DEF s
  <2>2. s \in S /\ b <= s /\ s < e /\ s \in Nat
    BY <1>2, <1>3, <2>1
  <2>3. Cardinality(Below(S, s)) + 1 = First(c, t) + j
    <3>1. s <= e
      BY <1>1, <2>2
    <3>2. Cardinality(Below(S, s)) = First(c, t) + (j - 1)
      BY <1>8, <1>9, <2>1, <2>2, <3>1
    <3>3. First(c, t) \in Nat /\ j \in Int
      BY <1>6, <1>9
    <3>4. QED
      BY <3>2, <3>3
  <2>4. First(c, t) + j \in 1 .. Cardinality(S) /\ Ith(S, First(c, t) + j) = s
    BY <1>3, <2>2, <2>3, Ranks
  <2>5. Recs(c)[First(c, t) + j] =
          [off |-> s, len |-> Trimmed(c.text, s, c.text.length) % LengthSize]
    BY <1>3, <2>4, RecsFacts DEF S
  <2>6. Trimmed(c.text, s, e) = Trimmed(c.text, s, c.text.length)
    BY <1>1, <2>2, LineEnds
  <2>7. Found(c, t)[j] = [off |-> s, len |-> Trimmed(c.text, s, e) % LengthSize]
    BY <1>4 DEF s
  <2>8. QED
    BY <1>3, <2>4, <2>5, <2>6, <2>7
<1>13. QED
  BY <1>4, <1>6, <1>9, <1>10, <1>11, <1>12

LEMMA FirstAndLast ==
  ASSUME NEW c \in Loads
  PROVE  First(c, 0) = 0 /\ First(c, ThreadCount(c)) = Len(Recs(c))
<1>1. ChunkBound(c, 0) = 0 /\ ChunkBound(c, ThreadCount(c)) = c.text.length
  BY ChunkBounds
<1>2. Below(Begins(c), 0) = {} /\ Below(Begins(c), c.text.length) = Begins(c)
  <2>1. \A s \in Begins(c) : s \in Nat /\ s < c.text.length
    BY RecsFacts
  <2>2. \A s \in Begins(c) : ~ (s < 0)
    BY <2>1
  <2>3. QED
    BY <2>1, <2>2 DEF Below
<1>3. QED
  BY <1>1, <1>2, RecsFacts, FS_EmptySet DEF First

-----------------------------------------------------------------------------
(* Where the records go.                                                   *)

LEMMA Padding ==
  ASSUME NEW len \in Nat
  PROVE  /\ padded_length(len) \in Nat /\ padded_length(len) > len
         /\ padded_length(len) % PadTo = 0
<1>1. /\ PadTo \in Nat \ {0}
      /\ len % PadTo \in 0 .. PadTo - 1
      /\ len = PadTo * (len \div PadTo) + (len % PadTo) /\ len \div PadTo \in Nat
  BY FastLoaderAssumption
<1> DEFINE q == len \div PadTo
<1>2. padded_length(len) = PadTo * q + PadTo /\ padded_length(len) > len
  BY <1>1 DEF padded_length
<1>3. PadTo * q + PadTo = PadTo * (q + 1) /\ q + 1 \in Nat
  BY <1>1
<1>4. PadTo * (q + 1) \in Nat /\ (PadTo * (q + 1)) % PadTo = 0
  BY <1>1
<1>5. QED
  BY <1>2, <1>3, <1>4

LEMMA MultipleMod ==
  ASSUME NEW p \in Nat \ {0}, NEW k \in Nat
  PROVE  (p * k) % p = 0
  OBVIOUS

LEMMA WholeBlocks ==
  ASSUME NEW m \in Nat, NEW n \in Nat, m % PadTo = 0, n % PadTo = 0
  PROVE  (m + n) % PadTo = 0
<1>1. /\ PadTo \in Nat \ {0}
      /\ m = PadTo * (m \div PadTo) /\ m \div PadTo \in Nat
      /\ n = PadTo * (n \div PadTo) /\ n \div PadTo \in Nat
  BY FastLoaderAssumption
<1> DEFINE k == m \div PadTo + n \div PadTo
<1>2. m + n = PadTo * k /\ k \in Nat
  BY <1>1
<1> HIDE DEF k
<1>3. (PadTo * k) % PadTo = 0
  BY <1>1, <1>2, MultipleMod
<1>4. QED
  BY <1>2, <1>3

\* Where the record after the first i of the stream goes.
Place(c, i) == BytesOf(Recs(c), i)

\* The bytes record i takes.
Padded(c, i) == padded_length(Recs(c)[i].len)

LEMMA Places ==
  ASSUME NEW c \in Loads
  PROVE  /\ Place(c, 0) = 0
         /\ \A i \in 0 .. Len(Recs(c)) : Place(c, i) \in Nat /\ Place(c, i) % PadTo = 0
         /\ \A i \in 1 .. Len(Recs(c)) : /\ Place(c, i) = Place(c, i - 1) + Padded(c, i)
                                         /\ Padded(c, i) \in Nat
                                         /\ Padded(c, i) > Recs(c)[i].len
                                         /\ Padded(c, i) % PadTo = 0
<1> DEFINE N == Len(Recs(c))
           f == [i \in DOMAIN Recs(c) |-> padded_length(Recs(c)[i].len)]
           Bad == {i \in 0 .. N : Place(c, i) % PadTo # 0}
<1>1. N \in Nat /\ DOMAIN f = 1 .. N /\ \A i \in 1 .. N : Recs(c)[i].len \in Nat
  <2>1. \A i \in 1 .. N : Recs(c)[i].len \in 0 .. LengthSize - 1
    BY RecsFacts
  <2>2. QED
    BY <2>1, RecsFacts
<1>2. \A i \in 1 .. N : /\ f[i] = Padded(c, i) /\ Padded(c, i) \in Nat
                        /\ Padded(c, i) > Recs(c)[i].len /\ Padded(c, i) % PadTo = 0
  BY <1>1, Padding DEF Padded
<1>3. \A i : Place(c, i) = SumFunctionOnSet(f, 1 .. i)
  BY DEF Place, BytesOf
<1> HIDE DEF f, N
<1>4. /\ \A k \in 0 .. N : SumFunctionOnSet(f, 1 .. 1 + k - 1) \in Nat
      /\ SumFunctionOnSet(f, 1 .. 1 + 0 - 1) = 0
      /\ \A k \in 1 .. N : SumFunctionOnSet(f, 1 .. 1 + k - 1) =
                             f[1 + k - 1] + SumFunctionOnSet(f, 1 .. 1 + (k - 1) - 1)
  <2>1. \A x \in 1 .. 1 + N - 1 : f[x] \in Nat
    BY <1>1, <1>2
  <2>2. 1 \in Int /\ N \in Nat
    BY <1>1
  <2>3. QED
    BY <2>1, <2>2, IntervalSums, Zenon
<1>5. \A k \in Int : 1 + k - 1 = k
  OBVIOUS
<1>6. Place(c, 0) = 0 /\ \A k \in 0 .. N : Place(c, k) \in Nat
  BY <1>1, <1>3, <1>4, <1>5
<1>7. ASSUME NEW i \in 1 .. N PROVE Place(c, i) = Place(c, i - 1) + Padded(c, i)
  <2>1. 1 + i - 1 = i /\ 1 + (i - 1) - 1 = i - 1 /\ i - 1 \in 0 .. N
    BY <1>1
  <2>2. Place(c, i) = f[i] + Place(c, i - 1)
    BY <1>3, <1>4, <2>1
  <2>3. QED
    BY <1>2, <1>6, <2>1, <2>2
<1>8. Bad = {}
  <2>1. SUFFICES ASSUME Bad # {} PROVE FALSE
    OBVIOUS
  <2>2. PICK i \in Bad : \A m \in Bad : i <= m
    <3>1. Bad \in SUBSET Nat
      BY <1>1
    <3>2. QED
      BY <2>1, <3>1, LeastElement
  <2>3. 0 % PadTo = 0
    BY FastLoaderAssumption
  <2>4. i \in 1 .. N /\ i - 1 \in 0 .. N /\ ~ (i <= i - 1)
    BY <1>1, <1>6, <2>3
  <2>5. Place(c, i - 1) % PadTo = 0
    BY <2>2, <2>4
  <2>6. (Place(c, i - 1) + Padded(c, i)) % PadTo = 0
    BY <1>2, <1>6, <2>4, <2>5, WholeBlocks
  <2>7. QED
    BY <1>7, <2>4, <2>6
<1>9. QED
  BY <1>2, <1>6, <1>7, <1>8 DEF N

LEMMA PlacesInOrder ==
  ASSUME NEW c \in Loads, NEW i \in 0 .. Len(Recs(c))
  PROVE  \A j \in i .. Len(Recs(c)) : Place(c, i) <= Place(c, j)
<1> DEFINE N == Len(Recs(c))
           Bad == {j \in i .. N : ~ (Place(c, i) <= Place(c, j))}
<1>1. N \in Nat
  BY RecsFacts
<1>2. SUFFICES ASSUME Bad # {} PROVE FALSE
  OBVIOUS
<1>3. PICK j \in Bad : \A m \in Bad : j <= m
  <2>1. Bad \in SUBSET Nat
    BY <1>1
  <2>2. QED
    BY <1>2, <2>1, LeastElement
<1>4. /\ \A k \in 0 .. N : Place(c, k) \in Nat
      /\ \A k \in 1 .. N : Place(c, k) = Place(c, k - 1) + Padded(c, k) /\ Padded(c, k) \in Nat
  BY Places
<1> HIDE DEF N
<1>5. j # i
  BY <1>1, <1>4
<1>6. j \in 1 .. N /\ j - 1 \in i .. N /\ ~ (j <= j - 1) /\ j - 1 \in 0 .. N /\ j \in 0 .. N
  BY <1>1, <1>5 DEF N
<1>7. Place(c, i) <= Place(c, j - 1)
  BY <1>3, <1>6
<1>8. Place(c, j) = Place(c, j - 1) + Padded(c, j) /\ Padded(c, j) \in Nat
  BY <1>4, <1>6
<1>9. Place(c, i) \in Nat /\ Place(c, j - 1) \in Nat
  BY <1>4, <1>6 DEF N
<1>10. QED
  BY <1>3, <1>7, <1>8, <1>9

\* What a thread adds up along its chunk, and what the caller adds up chunk by chunk,
\* are the places of the serial loader.
LEMMA PlacesOfChunk ==
  ASSUME NEW c \in Loads, NEW t \in Threads(c), NEW j \in 0 .. Len(Found(c, t))
  PROVE  /\ First(c, t) + j \in 0 .. Len(Recs(c))
         /\ BytesOf(Found(c, t), j) \in Nat
         /\ Place(c, First(c, t)) + BytesOf(Found(c, t), j) = Place(c, First(c, t) + j)
<1> DEFINE n == Len(Found(c, t))
           o == First(c, t)
           N == Len(Recs(c))
           f == [i \in DOMAIN Found(c, t) |-> padded_length(Found(c, t)[i].len)]
           g == [i \in 0 .. n |-> Place(c, o + i) - Place(c, o)]
<1>1. /\ o \in Nat /\ n \in Nat /\ N \in Nat /\ o + n <= N
      /\ DOMAIN Found(c, t) = 1 .. n
      /\ \A i \in 1 .. n : Found(c, t)[i] = Recs(c)[o + i]
  BY ChunkIsSegment, RecsFacts
<1>2. \A i \in 1 .. n : f[i] = Padded(c, o + i)
  BY <1>1 DEF Padded
<1>3. \A i \in 0 .. n : g[i] = Place(c, o + i) - Place(c, o)
  OBVIOUS
<1>4. /\ \A i \in 0 .. N : Place(c, i) \in Nat
      /\ \A i \in 1 .. N : Place(c, i) = Place(c, i - 1) + Padded(c, i) /\ Padded(c, i) \in Nat
  BY Places
<1>5. \A i : BytesOf(Found(c, t), i) = SumFunctionOnSet(f, 1 .. i)
  BY DEF BytesOf
<1>6. j \in 0 .. n
  OBVIOUS
<1> HIDE DEF f, g, n, o, N
<1>7. g[0] = 0
  <2>1. 0 \in 0 .. n /\ o + 0 = o /\ o \in 0 .. N
    BY <1>1
  <2>2. g[0] = Place(c, o) - Place(c, o) /\ Place(c, o) \in Nat
    BY <1>3, <1>4, <2>1
  <2>3. QED
    BY <2>2
<1>8. ASSUME NEW k \in 1 .. n PROVE g[k] = g[k - 1] + f[1 + k - 1]
  <2>1. /\ k - 1 \in 0 .. n /\ k \in 0 .. n /\ 1 + k - 1 = k
        /\ o + k \in 1 .. N /\ (o + k) - 1 = o + (k - 1) /\ o + (k - 1) \in 0 .. N /\ o \in 0 .. N
    BY <1>1
  <2>2. Place(c, o + k) = Place(c, o + (k - 1)) + f[k] /\ f[k] \in Nat
    BY <1>2, <1>4, <2>1
  <2>3. g[k] = Place(c, o + k) - Place(c, o) /\ g[k - 1] = Place(c, o + (k - 1)) - Place(c, o)
    BY <1>3, <2>1
  <2>4. Place(c, o) \in Nat /\ Place(c, o + (k - 1)) \in Nat
    BY <1>4, <2>1
  <2>5. QED
    BY <2>1, <2>2, <2>3, <2>4
<1>9. \A x \in 1 .. 1 + n - 1 : f[x] \in Nat
  <2>1. \A x \in 1 .. n : o + x \in 1 .. N
    BY <1>1
  <2>2. 1 + n - 1 = n
    BY <1>1
  <2>3. QED
    BY <1>2, <1>4, <2>1, <2>2
<1>10. \A k \in 0 .. n : SumFunctionOnSet(f, 1 .. 1 + k - 1) = g[k] /\ g[k] \in Nat
  <2>1. 1 \in Int /\ n \in Nat
    BY <1>1
  <2>2. AddsUp(f, g, 1, n)
    BY <1>7, <1>8, <1>9 DEF AddsUp
  <2>3. QED
    BY <2>1, <2>2, PrefixSums
<1>11. 1 + j - 1 = j /\ o + j \in 0 .. N /\ o \in 0 .. N
  BY <1>1, <1>6
<1>12. BytesOf(Found(c, t), j) = Place(c, o + j) - Place(c, o) /\ BytesOf(Found(c, t), j) \in Nat
  BY <1>3, <1>5, <1>6, <1>10, <1>11
<1>13. Place(c, o) \in Nat /\ Place(c, o + j) \in Nat
  BY <1>4, <1>11
<1>14. Place(c, o) + BytesOf(Found(c, t), j) = Place(c, o + j)
  BY <1>12, <1>13
<1>15. QED
  BY <1>11, <1>12, <1>14 DEF o, N

LEMMA SumsOfChunks ==
  ASSUME NEW c \in Loads
  PROVE  \A t \in 0 .. ThreadCount(c) :
           /\ First(c, t) \in 0 .. Len(Recs(c))
           /\ SumFunctionOnSet([v \in Threads(c) |-> Len(Found(c, v))], 0 .. t - 1) = First(c, t)
           /\ SumFunctionOnSet([v \in Threads(c) |-> BytesOf(Found(c, v), Len(Found(c, v)))],
                               0 .. t - 1) = Place(c, First(c, t))
<1> DEFINE n == ThreadCount(c)
           N == Len(Recs(c))
           lens == [v \in Threads(c) |-> Len(Found(c, v))]
           sizes == [v \in Threads(c) |-> BytesOf(Found(c, v), Len(Found(c, v)))]
           firsts == [t \in 0 .. n |-> First(c, t)]
           places == [t \in 0 .. n |-> Place(c, First(c, t))]
<1>1. n \in Nat \ {0} /\ Threads(c) = 0 .. n - 1 /\ N \in Nat
  BY LoadFacts, RecsFacts
<1>2. \A v \in 0 .. n - 1 : /\ First(c, v) \in Nat /\ Len(Found(c, v)) \in Nat
                            /\ First(c, v + 1) = First(c, v) + Len(Found(c, v))
                            /\ First(c, v + 1) <= N
  BY <1>1, ChunkIsSegment
<1>3. First(c, 0) = 0 /\ Place(c, 0) = 0
  BY FirstAndLast, Places
<1>4. \A v \in 0 .. n - 1 :
        /\ BytesOf(Found(c, v), Len(Found(c, v))) \in Nat
        /\ Place(c, First(c, v)) + BytesOf(Found(c, v), Len(Found(c, v))) = Place(c, First(c, v + 1))
  <2>1. SUFFICES ASSUME NEW v \in 0 .. n - 1
                 PROVE  /\ BytesOf(Found(c, v), Len(Found(c, v))) \in Nat
                        /\ Place(c, First(c, v)) + BytesOf(Found(c, v), Len(Found(c, v))) =
                             Place(c, First(c, v + 1))
    OBVIOUS
  <2>2. Len(Found(c, v)) \in 0 .. Len(Found(c, v)) /\ v \in Threads(c)
    BY <1>1, <1>2
  <2>3. QED
    BY <1>2, <2>2, PlacesOfChunk
<1>5. \A v \in 0 .. n - 1 : /\ lens[v] = Len(Found(c, v))
                            /\ sizes[v] = BytesOf(Found(c, v), Len(Found(c, v)))
  BY <1>1
<1>6. \A t \in 0 .. n : firsts[t] = First(c, t) /\ places[t] = Place(c, First(c, t))
  OBVIOUS
<1> HIDE DEF n, N, lens, sizes, firsts, places
<1>7. \A k \in 1 .. n : /\ k \in 0 .. n /\ k - 1 \in 0 .. n /\ k - 1 \in 0 .. n - 1
                        /\ (k - 1) + 1 = k /\ 0 + k - 1 = k - 1
  BY <1>1
<1>8. 0 \in Int /\ n \in Nat /\ 0 \in 0 .. n /\ 0 + n - 1 = n - 1
  BY <1>1
<1>9. AddsUp(lens, firsts, 0, n)
  <2>1. ASSUME NEW k \in 1 .. n PROVE firsts[k] = firsts[k - 1] + lens[0 + k - 1]
    BY <1>2, <1>5, <1>6, <1>7
  <2>2. firsts[0] = 0 /\ \A x \in 0 .. 0 + n - 1 : lens[x] \in Nat
    BY <1>2, <1>3, <1>5, <1>6, <1>8
  <2>3. QED
    BY <2>1, <2>2 DEF AddsUp
<1>10. AddsUp(sizes, places, 0, n)
  <2>1. ASSUME NEW k \in 1 .. n PROVE places[k] = places[k - 1] + sizes[0 + k - 1]
    BY <1>4, <1>5, <1>6, <1>7
  <2>2. places[0] = 0 /\ \A x \in 0 .. 0 + n - 1 : sizes[x] \in Nat
    BY <1>3, <1>4, <1>5, <1>6, <1>8
  <2>3. QED
    BY <2>1, <2>2 DEF AddsUp
<1>11. ASSUME NEW t \in 0 .. n
       PROVE  /\ First(c, t) \in 0 .. N
              /\ SumFunctionOnSet(lens, 0 .. t - 1) = First(c, t)
              /\ SumFunctionOnSet(sizes, 0 .. t - 1) = Place(c, First(c, t))
  <2>1. 0 .. 0 + t - 1 = 0 .. t - 1
    BY <1>1
  <2>2. SumFunctionOnSet(lens, 0 .. t - 1) = firsts[t]
    BY <1>8, <1>9, <2>1, PrefixSums
  <2>3. SumFunctionOnSet(sizes, 0 .. t - 1) = places[t]
    BY <1>8, <1>10, <2>1, PrefixSums
  <2>4. First(c, t) \in 0 .. N
    <3>1. t = 0 \/ t \in 1 .. n
      BY <1>1
    <3>2. QED
      BY <1>1, <1>2, <1>3, <1>7, <3>1
  <2>5. QED
    BY <1>6, <2>2, <2>3, <2>4
<1>12. QED
  BY <1>11 DEF lens, sizes, n, N

\* No record is in two chunks, and every record is in one.
LEMMA EachRecordInAChunk ==
  ASSUME NEW c \in Loads
  PROVE  /\ \A t, u \in Threads(c) : \A i \in Nat :
              /\ First(c, t) < i /\ i <= First(c, t) + Len(Found(c, t))
              /\ First(c, u) < i /\ i <= First(c, u) + Len(Found(c, u))
              => t = u
         /\ \A i \in 1 .. Len(Recs(c)) : \E t \in Threads(c) :
              First(c, t) < i /\ i <= First(c, t) + Len(Found(c, t))
<1> DEFINE n == ThreadCount(c)
<1>1. n \in Nat \ {0} /\ Threads(c) = 0 .. n - 1 /\ Len(Recs(c)) \in Nat
  BY LoadFacts, RecsFacts
<1>2. \A v \in 0 .. n - 1 : /\ First(c, v) \in Nat /\ Len(Found(c, v)) \in Nat
                            /\ First(c, v + 1) = First(c, v) + Len(Found(c, v))
  BY <1>1, ChunkIsSegment
<1> HIDE DEF n
<1>3. ASSUME NEW t \in 0 .. n, NEW u \in 0 .. n, t <= u PROVE First(c, t) <= First(c, u)
  <2>1. ChunkBound(c, t) <= ChunkBound(c, u) /\ ChunkBound(c, t) \in Nat /\ ChunkBound(c, u) \in Nat
    BY <1>3, ChunkBounds, LoadFacts DEF IsEdge, IsText, n
  <2>2. \A s \in Begins(c) : s \in Nat
    BY RecsFacts
  <2>3. \A s \in Begins(c) : s < ChunkBound(c, t) => s < ChunkBound(c, u)
    BY <2>1, <2>2
  <2>4. Below(Begins(c), ChunkBound(c, t)) \in SUBSET Below(Begins(c), ChunkBound(c, u))
    BY <2>3 DEF Below
  <2>5. IsFiniteSet(Below(Begins(c), ChunkBound(c, u)))
    <3>1. Below(Begins(c), ChunkBound(c, u)) \in SUBSET Begins(c)
      BY DEF Below
    <3>2. QED
      BY <3>1, RecsFacts, FS_Subset
  <2>6. QED
    BY <2>4, <2>5, FS_Subset DEF First
<1>4. ASSUME NEW t \in 0 .. n - 1, NEW u \in 0 .. n - 1, NEW i \in Nat, t < u,
             i <= First(c, t) + Len(Found(c, t)), First(c, u) < i
      PROVE  FALSE
  <2>1. t + 1 \in 0 .. n /\ u \in 0 .. n /\ t + 1 <= u
    BY <1>1, <1>4
  <2>2. First(c, t + 1) <= First(c, u)
    BY <1>3, <2>1
  <2>3. QED
    BY <1>2, <1>4, <2>2
<1>5. ASSUME NEW t \in Threads(c), NEW u \in Threads(c), NEW i \in Nat,
             First(c, t) < i, i <= First(c, t) + Len(Found(c, t)),
             First(c, u) < i, i <= First(c, u) + Len(Found(c, u))
      PROVE  t = u
  <2>1. ~ (t < u) /\ ~ (u < t)
    BY <1>1, <1>4, <1>5
  <2>2. t \in Int /\ u \in Int
    BY <1>1
  <2>3. QED
    BY <2>1, <2>2
<1>6. ASSUME NEW i \in 1 .. Len(Recs(c))
      PROVE  \E t \in Threads(c) : First(c, t) < i /\ i <= First(c, t) + Len(Found(c, t))
  <2> DEFINE After == {u \in 0 .. n : i <= First(c, u)}
  <2>1. First(c, 0) = 0 /\ First(c, n) = Len(Recs(c))
    BY FirstAndLast DEF n
  <2>2. After \in SUBSET Nat /\ n \in After
    BY <1>1, <2>1
  <2>3. PICK u \in After : \A v \in After : u <= v
    BY <2>2, LeastElement
  <2>4. u # 0
    BY <1>1, <2>1
  <2>5. u - 1 \in 0 .. n - 1 /\ (u - 1) + 1 = u /\ u - 1 \in 0 .. n /\ ~ (u <= u - 1)
    BY <1>1, <2>4
  <2>6. ~ (i <= First(c, u - 1))
    BY <2>3, <2>5
  <2>7. First(c, u - 1) < i /\ i <= First(c, u - 1) + Len(Found(c, u - 1))
    BY <1>2, <2>5, <2>6
  <2>8. QED
    BY <1>1, <2>5, <2>7
<1>7. QED
  BY <1>5, <1>6

-----------------------------------------------------------------------------
(* The buffer and the table, with the records of a set written.            *)

\* What the serial loader writes for record i.
SlotAt(c, i) == Slot(Recs(c)[i], Place(c, i - 1))

Entry(c, i) == [offset |-> Place(c, i - 1), length |-> Padded(c, i) % LengthSize]

\* The record to which byte b of the buffer belongs.
Holder(c, b) == CHOOSE i \in 1 .. Len(Recs(c)) : b \in DOMAIN SlotAt(c, i)

Held(c, W) == {b \in 0 .. Place(c, Len(Recs(c))) - 1 : Holder(c, b) \in W}

Image(c, W) == [b \in Held(c, W) |-> SlotAt(c, Holder(c, b))[b]]

Entries(c, W) == [i \in 1 .. Len(Recs(c)) |-> IF i \in W THEN Entry(c, i) ELSE Unset]

\* What the serial loader writes for a record: its bytes, and padding up to where the
\* next one begins.
LEMMA SlotFacts ==
  ASSUME NEW c \in Loads, NEW i \in 1 .. Len(Recs(c))
  PROVE  /\ Place(c, i - 1) \in Nat /\ Place(c, i) \in Nat
         /\ Place(c, i - 1) < Place(c, i) /\ Place(c, i) <= Place(c, Len(Recs(c)))
         /\ DOMAIN SlotAt(c, i) = Place(c, i - 1) .. Place(c, i) - 1
         /\ \A b \in DOMAIN SlotAt(c, i) :
              /\ SlotAt(c, i)[b] \in Nat \union {Filler}
              /\ b \in 0 .. Place(c, Len(Recs(c))) - 1
         /\ SlotAt(c, i)[Place(c, i) - 1] = Filler
<1> DEFINE N == Len(Recs(c))
           p == Place(c, i - 1)
           q == Place(c, i)
           rec == Recs(c)[i]
<1>1. /\ N \in Nat /\ i - 1 \in 0 .. N /\ i \in 0 .. N /\ N \in i .. N
      /\ rec.off \in Nat /\ rec.len \in Nat
  <2>1. rec.off \in 0 .. c.text.length - 1 /\ rec.len \in 0 .. LengthSize - 1 /\ N \in Nat
    BY RecsFacts
  <2>2. QED
    BY <2>1
<1>2. /\ p \in Nat /\ q \in Nat /\ q = p + padded_length(rec.len)
      /\ padded_length(rec.len) \in Nat /\ padded_length(rec.len) > rec.len
  BY <1>1, Places DEF Padded
<1>3. q <= Place(c, N) /\ Place(c, N) \in Nat
  <2>1. N \in 0 .. N
    BY <1>1
  <2>2. QED
    BY <1>1, <2>1, PlacesInOrder, Places
<1>4. /\ DOMAIN SlotAt(c, i) = p .. p + padded_length(rec.len) - 1
      /\ \A b \in p .. p + padded_length(rec.len) - 1 :
           SlotAt(c, i)[b] = IF b < p + rec.len THEN rec.off + (b - p) ELSE Filler
  BY DEF SlotAt, Slot
<1> HIDE DEF p, q, rec, N
<1>5. DOMAIN SlotAt(c, i) = p .. q - 1
  BY <1>2, <1>4
<1>6. ASSUME NEW b \in DOMAIN SlotAt(c, i)
      PROVE  SlotAt(c, i)[b] \in Nat \union {Filler} /\ b \in 0 .. Place(c, N) - 1
  <2>1. b \in p .. p + padded_length(rec.len) - 1
    BY <1>4
  <2>2. rec.off + (b - p) \in Nat
    BY <1>1, <1>2, <2>1
  <2>3. b \in 0 .. Place(c, N) - 1
    BY <1>2, <1>3, <2>1
  <2>4. QED
    BY <1>4, <2>1, <2>2, <2>3
<1>7. SlotAt(c, i)[q - 1] = Filler
  <2>1. q - 1 \in p .. p + padded_length(rec.len) - 1 /\ ~ (q - 1 < p + rec.len)
    BY <1>1, <1>2
  <2>2. QED
    BY <1>4, <2>1
<1>8. p < q
  BY <1>1, <1>2
<1>9. QED
  BY <1>2, <1>3, <1>5, <1>6, <1>7, <1>8 DEF p, q, N

\* Each byte of the buffer belongs to one record.
LEMMA Holders ==
  ASSUME NEW c \in Loads
  PROVE  /\ \A i \in 1 .. Len(Recs(c)) : \A b \in DOMAIN SlotAt(c, i) : Holder(c, b) = i
         /\ \A b \in 0 .. Place(c, Len(Recs(c))) - 1 :
              /\ Holder(c, b) \in 1 .. Len(Recs(c))
              /\ b \in DOMAIN SlotAt(c, Holder(c, b))
<1> DEFINE N == Len(Recs(c))
<1>1. /\ N \in Nat /\ Place(c, 0) = 0
      /\ \A i \in 0 .. N : Place(c, i) \in Nat
  BY RecsFacts, Places
<1>2. \A i \in 1 .. N : DOMAIN SlotAt(c, i) = Place(c, i - 1) .. Place(c, i) - 1
  BY SlotFacts
<1> HIDE DEF N
<1>3. ASSUME NEW i \in 1 .. N, NEW j \in 1 .. N, NEW b \in DOMAIN SlotAt(c, i), i < j
      PROVE  b \notin DOMAIN SlotAt(c, j)
  <2>1. i \in 0 .. N /\ j - 1 \in i .. N /\ j - 1 \in 0 .. N
    BY <1>1, <1>3
  <2>2. Place(c, i) <= Place(c, j - 1)
    BY <2>1, PlacesInOrder DEF N
  <2>3. b \in Place(c, i - 1) .. Place(c, i) - 1
    BY <1>2
  <2>4. Place(c, i) \in Nat /\ Place(c, j - 1) \in Nat /\ i - 1 \in 0 .. N
    BY <1>1, <2>1
  <2>5. Place(c, i - 1) \in Nat
    BY <1>1, <2>4
  <2>6. ~ (b >= Place(c, j - 1))
    BY <2>2, <2>3, <2>4, <2>5
  <2>7. \A x \in Place(c, j - 1) .. Place(c, j) - 1 : x >= Place(c, j - 1)
    BY <2>4
  <2>8. QED
    BY <1>2, <2>6, <2>7
<1>4. ASSUME NEW b, \E i \in 1 .. N : b \in DOMAIN SlotAt(c, i)
      PROVE  Holder(c, b) \in 1 .. N /\ b \in DOMAIN SlotAt(c, Holder(c, b))
  BY <1>4 DEF Holder, N
<1>5. ASSUME NEW i \in 1 .. N, NEW b \in DOMAIN SlotAt(c, i) PROVE Holder(c, b) = i
  <2>1. Holder(c, b) \in 1 .. N /\ b \in DOMAIN SlotAt(c, Holder(c, b))
    BY <1>4
  <2>2. ~ (Holder(c, b) < i) /\ ~ (i < Holder(c, b))
    BY <1>3, <2>1
  <2>3. QED
    BY <1>1, <2>1, <2>2
<1>6. ASSUME NEW b \in 0 .. Place(c, N) - 1
      PROVE  Holder(c, b) \in 1 .. N /\ b \in DOMAIN SlotAt(c, Holder(c, b))
  <2> DEFINE After == {i \in 0 .. N : b < Place(c, i)}
  <2>1. After \in SUBSET Nat /\ N \in After
    BY <1>1
  <2>2. PICK i \in After : \A j \in After : i <= j
    BY <2>1, LeastElement
  <2>3. i # 0
    BY <1>1
  <2>4. i \in 1 .. N /\ i - 1 \in 0 .. N /\ ~ (i <= i - 1)
    BY <1>1, <2>3
  <2>5. ~ (b < Place(c, i - 1)) /\ Place(c, i - 1) \in Nat /\ Place(c, i) \in Nat
    BY <1>1, <2>2, <2>4
  <2>6. b \in Place(c, i - 1) .. Place(c, i) - 1
    BY <2>5
  <2>7. QED
    BY <1>2, <1>4, <2>4, <2>6
<1>7. QED
  BY <1>5, <1>6 DEF N

LEMMA NothingWritten ==
  ASSUME NEW c \in Loads
  PROVE  /\ Image(c, {}) = <<>>
         /\ Entries(c, {}) = [i \in 1 .. Len(Recs(c)) |-> Unset]
<1>1. Held(c, {}) = {}
  BY DEF Held
<1>2. DOMAIN Image(c, {}) = {} /\ Image(c, {}) = [b \in {} |-> SlotAt(c, Holder(c, b))[b]]
  BY <1>1 DEF Image
<1>3. <<>> = [b \in {} |-> SlotAt(c, Holder(c, b))[b]]
  OBVIOUS
<1>4. QED
  BY <1>2, <1>3 DEF Entries

\* What is not written yet is untouched.
LEMMA NotWrittenYet ==
  ASSUME NEW c \in Loads, NEW W \in SUBSET (1 .. Len(Recs(c))),
         NEW k \in (1 .. Len(Recs(c))) \ W
  PROVE  /\ DOMAIN SlotAt(c, k) \intersect DOMAIN Image(c, W) = {}
         /\ Entries(c, W)[k] = Unset
<1>1. \A b \in DOMAIN SlotAt(c, k) : Holder(c, b) = k
  BY Holders
<1>2. \A b \in DOMAIN Image(c, W) : Holder(c, b) \in W
  BY DEF Image, Held
<1>3. Entries(c, W)[k] = Unset
  BY DEF Entries
<1>4. QED
  BY <1>1, <1>2, <1>3

\* One record more.
LEMMA OneMoreWritten ==
  ASSUME NEW c \in Loads, NEW W \in SUBSET (1 .. Len(Recs(c))),
         NEW k \in (1 .. Len(Recs(c))) \ W
  PROVE  /\ Image(c, W \union {k}) =
              [b \in DOMAIN Image(c, W) \union DOMAIN SlotAt(c, k) |->
                 IF b \in DOMAIN SlotAt(c, k) THEN SlotAt(c, k)[b] ELSE Image(c, W)[b]]
         /\ Entries(c, W \union {k}) = [Entries(c, W) EXCEPT ![k] = Entry(c, k)]
<1> DEFINE D == DOMAIN SlotAt(c, k)
<1>1. /\ \A b \in D : Holder(c, b) = k /\ b \in 0 .. Place(c, Len(Recs(c))) - 1
      /\ \A b \in 0 .. Place(c, Len(Recs(c))) - 1 : Holder(c, b) = k => b \in D
  BY Holders, SlotFacts
<1>2. \A V : DOMAIN Image(c, V) = Held(c, V)
             /\ \A b \in Held(c, V) : Image(c, V)[b] = SlotAt(c, Holder(c, b))[b]
  BY DEF Image
<1>3. Held(c, W \union {k}) = Held(c, W) \union D
  BY <1>1 DEF Held
<1> HIDE DEF D
<1>4. \A b \in Held(c, W) \union D :
        SlotAt(c, Holder(c, b))[b] = IF b \in D THEN SlotAt(c, k)[b] ELSE Image(c, W)[b]
  BY <1>1, <1>2
<1>5. Image(c, W \union {k}) = [b \in Held(c, W) \union D |-> SlotAt(c, Holder(c, b))[b]]
  BY <1>3 DEF Image
<1>6. Image(c, W \union {k}) =
        [b \in Held(c, W) \union D |-> IF b \in D THEN SlotAt(c, k)[b] ELSE Image(c, W)[b]]
  BY <1>4, <1>5
<1>7. Entries(c, W \union {k}) = [Entries(c, W) EXCEPT ![k] = Entry(c, k)]
  BY DEF Entries
<1>8. QED
  BY <1>2, <1>6, <1>7 DEF D

-----------------------------------------------------------------------------
(* The invariant of the loader.                                            *)

\* f is a function with domain S.
Table(f, S) == f = [x \in S |-> f[x]]

\* The records written so far.
Written ==
  {i \in 1 .. Len(Recs(load)) :
     \E t \in Threads(load) : First(load, t) < i /\ i <= First(load, t) + written[t]}

\* The first phase: nothing is planned yet.
Scanning ==
  /\ \A t \in Threads(load) :
       /\ phase[t] \in {"scan", "scanned"}
       /\ found[t] = IF phase[t] = "scan" THEN <<>> ELSE Found(load, t)
       /\ chunk_start[t] = 0 /\ index_start[t] = 0 /\ written[t] = 0
  /\ size = 0 /\ bytes = <<>> /\ table = <<>>

\* The second phase: the plan is that of the serial loader, and what is written of
\* the buffer and the table is what the serial loader writes there.
Filling ==
  /\ \A t \in Threads(load) :
       /\ phase[t] \in {"fill", "filled"}
       /\ found[t] = Found(load, t)
       /\ chunk_start[t] = Place(load, First(load, t))
       /\ index_start[t] = First(load, t)
       /\ written[t] \in 0 .. Len(Found(load, t))
       /\ phase[t] = "filled" => written[t] = Len(Found(load, t))
  /\ size = AlignedSize(Place(load, Len(Recs(load))) + PadTo)
  /\ bytes = Image(load, Written)
  /\ table = Entries(load, Written)

LoaderInv ==
  /\ load \in Loads
  /\ Table(phase, Threads(load)) /\ Table(found, Threads(load)) /\ Table(written, Threads(load))
  /\ Table(chunk_start, Threads(load)) /\ Table(index_start, Threads(load))
  /\ Scanning \/ Filling

-----------------------------------------------------------------------------
(* The invariant of the query.                                             *)

\* The padded bytes of record i, wherever in the buffer they are.
Content(c, i) == Slot(Recs(c)[i], 0)

Good(c) == {i \in 1 .. Len(Recs(c)) : Range(Content(c, i)) \intersect Broken = {}}

\* The extraction of the records of D.
BagFor(c, D) ==
  [s \in {Content(c, i) : i \in D \intersect Good(c)} |->
     Cardinality({i \in D \intersect Good(c) : Content(c, i) = s})]

Pool == Stream!Pool

\* Of n records, those up to `at` are dealt out to threads: done[t] are those thread
\* t has queried, left[t] those left in its chunk, which are numbered from 0.
Dealt(n, done, at, left) ==
  /\ \A i \in 1 .. n : i <= at <=> \E t \in DOMAIN done : i \in done[t] \/ i - 1 \in left[t]
  /\ \A t, u \in DOMAIN done : \A i \in 1 .. n :
       /\ ~ (i \in done[t] /\ i - 1 \in left[u])
       /\ i \in done[t] /\ i \in done[u] => t = u
       /\ i - 1 \in left[t] /\ i - 1 \in left[u] => t = u

\* The shard of a thread is the extraction of what it has queried, and what the
\* caller has merged that of the first threads.
DealtOut(done) ==
  /\ Dealt(Len(Recs(load)), done, cursor, todo)
  /\ \A t \in Pool : shards[t] = BagFor(load, done[t])
  /\ \A t \in Pool : pc[t] = "exited" => todo[t] = {} /\ cursor >= Len(Recs(load))
  /\ merged > 0 => \A t \in Pool : pc[t] = "exited"
  /\ total = BagFor(load, UNION {done[t] : t \in 0 .. merged - 1})

\* The query does not begin before the stream is loaded.
StreamInv ==
  /\ Stream!TypeOK
  /\ Table(shards, Pool)
  /\ ~ Loaded => Stream!InitState

QueryInv ==
  /\ Loaded /\ load.threads <= 1 =>
       cursor <= Len(Recs(load)) /\ total = BagFor(load, 1 .. cursor)
  /\ Loaded /\ load.threads > 1 =>
       \E done \in [Pool -> SUBSET (1 .. Len(Recs(load)))] : DealtOut(done)

LEMMA LoaderInvInit ==
  Init => LoaderInv
<1>1. SUFFICES ASSUME Init PROVE LoaderInv
  OBVIOUS
<1>2. load \in Loads
  BY <1>1 DEF Init
<1>3. /\ Table(phase, Threads(load)) /\ Table(found, Threads(load))
      /\ Table(written, Threads(load))
      /\ Table(chunk_start, Threads(load)) /\ Table(index_start, Threads(load))
  BY <1>1 DEF Init, Table
<1>4. Scanning
  BY <1>1 DEF Init, Scanning
<1>5. QED
  BY <1>2, <1>3, <1>4 DEF LoaderInv

LEMMA LoaderInvScan ==
  ASSUME LoaderInv, NEW t \in Threads(load), Scan(t)
  PROVE  LoaderInv'
<1>1. phase[t] = "scan"
  BY DEF Scan
<1>2. Scanning
  BY <1>1 DEF LoaderInv, Filling
<1>3. /\ phase' = [phase EXCEPT ![t] = "scanned"]
      /\ found' = [found EXCEPT ![t] = Found(load, t)]
      /\ UNCHANGED <<load, chunk_start, index_start, size, written, bytes, table>>
  BY DEF Scan, Found
<1>4. /\ Table(phase, Threads(load)) /\ Table(found, Threads(load))
      /\ Table(written, Threads(load)) /\ load \in Loads
      /\ Table(chunk_start, Threads(load)) /\ Table(index_start, Threads(load))
  BY DEF LoaderInv
<1>5. /\ Table(phase, Threads(load))' /\ Table(found, Threads(load))'
      /\ Table(written, Threads(load))'
      /\ Table(chunk_start, Threads(load))' /\ Table(index_start, Threads(load))'
  BY <1>3, <1>4 DEF Table
<1>6. ASSUME NEW u \in Threads(load)
      PROVE  /\ phase'[u] \in {"scan", "scanned"}
             /\ found'[u] = IF phase'[u] = "scan" THEN <<>> ELSE Found(load, u)
  <2>1. phase'[u] = IF u = t THEN "scanned" ELSE phase[u]
    BY <1>3, <1>4 DEF Table
  <2>2. found'[u] = IF u = t THEN Found(load, t) ELSE found[u]
    BY <1>3, <1>4 DEF Table
  <2>3. QED
    BY <1>2, <2>1, <2>2 DEF Scanning
<1>7. Scanning'
  BY <1>2, <1>3, <1>6 DEF Scanning
<1>8. QED
  BY <1>3, <1>4, <1>5, <1>7 DEF LoaderInv

\* Before a thread has written, nothing is.
LEMMA NoneWritten ==
  ASSUME load \in Loads, \A t \in Threads(load) : written[t] = 0
  PROVE  Written = {}
<1>1. ASSUME NEW i \in Written PROVE FALSE
  <2>1. PICK t \in Threads(load) : First(load, t) < i /\ i <= First(load, t) + 0
    BY DEF Written
  <2>2. First(load, t) \in Nat /\ i \in Nat
    BY ChunkIsSegment, RecsFacts DEF Written
  <2>3. QED
    BY <2>1, <2>2
<1>2. QED
  BY <1>1

\* Once every thread has written its records, all are.
LEMMA AllWritten ==
  ASSUME load \in Loads, \A t \in Threads(load) : written[t] = Len(Found(load, t))
  PROVE  Written = 1 .. Len(Recs(load))
BY EachRecordInAChunk DEF Written

LEMMA LoaderInvPlan ==
  ASSUME LoaderInv, Plan
  PROVE  LoaderInv'
<1> DEFINE N == Len(Recs(load))
<1>1. /\ load \in Loads
      /\ Table(found, Threads(load)) /\ Table(written, Threads(load))
  BY DEF LoaderInv
<1>2. ThreadCount(load) \in Nat \ {0} /\ 0 \in Threads(load) /\ Threads(load) = 0 .. ThreadCount(load) - 1
  BY <1>1, LoadFacts
<1>3. \A t \in Threads(load) : phase[t] = "scanned"
  BY DEF Plan, ScansJoined
<1>4. Scanning
  BY <1>2, <1>3 DEF LoaderInv, Filling
<1>5. /\ \A t \in Threads(load) : found[t] = Found(load, t) /\ written[t] = 0
      /\ bytes = <<>>
  BY <1>3, <1>4 DEF Scanning
<1>6. /\ [v \in Threads(load) |-> Len(found[v])] = [v \in Threads(load) |-> Len(Found(load, v))]
      /\ [v \in Threads(load) |-> BytesOf(found[v], Len(found[v]))] =
           [v \in Threads(load) |-> BytesOf(Found(load, v), Len(Found(load, v)))]
  BY <1>5
<1>7. \A t \in 0 .. ThreadCount(load) :
        RecordsBefore(t) = First(load, t) /\ BytesBefore(t) = Place(load, First(load, t))
  BY <1>1, <1>6, SumsOfChunks DEF RecordsBefore, BytesBefore
<1>8. /\ RecordsBefore(ThreadCount(load)) = N
      /\ BytesBefore(ThreadCount(load)) = Place(load, N)
  <2>1. ThreadCount(load) \in 0 .. ThreadCount(load) /\ First(load, ThreadCount(load)) = N
    BY <1>1, <1>2, FirstAndLast
  <2>2. QED
    BY <1>7, <2>1
<1>9. \A t \in Threads(load) : t \in 0 .. ThreadCount(load)
  BY <1>2
<1>10. /\ chunk_start' = [t \in Threads(load) |-> BytesBefore(t)]
       /\ index_start' = [t \in Threads(load) |-> RecordsBefore(t)]
       /\ size' = AlignedSize(BytesBefore(ThreadCount(load)) + PadTo)
       /\ table' = [i \in 1 .. RecordsBefore(ThreadCount(load)) |-> Unset]
       /\ phase' = [t \in Threads(load) |-> "fill"]
       /\ UNCHANGED <<load, found, written, bytes>>
  BY DEF Plan
<1>11. /\ Table(phase, Threads(load))' /\ Table(found, Threads(load))'
       /\ Table(written, Threads(load))'
       /\ Table(chunk_start, Threads(load))' /\ Table(index_start, Threads(load))'
  BY <1>1, <1>10 DEF Table
<1>12. Written' = {}
  <2>1. (load \in Loads)' /\ (\A t \in Threads(load) : written[t] = 0)'
    BY <1>1, <1>5, <1>10
  <2>2. Written = {}
    BY <1>1, <1>5, NoneWritten
  <2>3. QED
    BY <1>10, <2>2 DEF Written
<1>13. ASSUME NEW t \in Threads(load)
       PROVE  /\ phase'[t] = "fill"
              /\ found'[t] = Found(load, t)
              /\ chunk_start'[t] = Place(load, First(load, t))
              /\ index_start'[t] = First(load, t)
              /\ written'[t] \in 0 .. Len(Found(load, t))
  <2>1. Len(Found(load, t)) \in Nat
    BY <1>1, ChunkIsSegment
  <2>2. written'[t] = 0 /\ 0 \in 0 .. Len(Found(load, t))
    BY <1>5, <1>10, <2>1
  <2>3. QED
    BY <1>5, <1>7, <1>9, <1>10, <2>2
<1>14. /\ size' = AlignedSize(Place(load, N) + PadTo)
       /\ bytes' = Image(load, {})
       /\ table' = Entries(load, {})
  BY <1>1, <1>5, <1>8, <1>10, NothingWritten
<1>15. Filling'
  BY <1>10, <1>12, <1>13, <1>14 DEF Filling
<1>16. QED
  BY <1>1, <1>10, <1>11, <1>15 DEF LoaderInv

\* The record a thread is about to write: record k of the stream, where the serial
\* loader writes it, and not written yet.
NextRecord(t) == First(load, t) + written[t] + 1

LEMMA AboutToWrite ==
  ASSUME LoaderInv, NEW t \in Threads(load), Fill(t)
  PROVE  /\ Filling
         /\ NextRecord(t) \in (1 .. Len(Recs(load))) \ Written
         /\ Index(t) = NextRecord(t)
         /\ NextSlot(t) = SlotAt(load, NextRecord(t))
         /\ [offset |-> Cursor(t),
             length |-> padded_length(found[t][written[t] + 1].len) % LengthSize] =
              Entry(load, NextRecord(t))
         /\ Written \union {NextRecord(t)} =
              {i \in 1 .. Len(Recs(load)) :
                 \E u \in Threads(load) :
                   First(load, u) < i /\ i <= First(load, u) + written'[u]}
<1> DEFINE k == NextRecord(t)
           F(u) == First(load, u)
           w == written[t]
           N == Len(Recs(load))
<1>1. load \in Loads /\ Filling
  BY DEF LoaderInv, Fill, Scanning
<1>2. /\ found[t] = Found(load, t) /\ chunk_start[t] = Place(load, F(t))
      /\ index_start[t] = F(t) /\ w \in 0 .. Len(Found(load, t)) /\ w < Len(Found(load, t))
  BY <1>1 DEF Filling, Fill
<1>3. /\ F(t) \in Nat /\ Len(Found(load, t)) \in Nat
      /\ \A j \in 1 .. Len(Found(load, t)) :
           F(t) + j \in 1 .. N /\ Found(load, t)[j] = Recs(load)[F(t) + j]
      /\ \A u \in Threads(load) : /\ F(u) \in Nat /\ Len(Found(load, u)) \in Nat
                                  /\ written[u] \in 0 .. Len(Found(load, u))
  BY <1>1, ChunkIsSegment DEF Filling
<1>4. /\ w \in Nat /\ w + 1 \in 1 .. Len(Found(load, t))
      /\ k = F(t) + (w + 1) /\ k - 1 = F(t) + w /\ k = F(t) + w + 1
  BY <1>2, <1>3 DEF NextRecord
<1>5. k \in 1 .. N /\ found[t][w + 1] = Recs(load)[k]
  BY <1>2, <1>3, <1>4
<1> HIDE DEF k, F, w, N
<1>6. k \notin Written
  <2>1. ASSUME NEW u \in Threads(load), F(u) < k, k <= F(u) + written[u] PROVE FALSE
    <3>1. k \in Nat /\ F(u) < k /\ k <= F(u) + Len(Found(load, u))
      BY <1>3, <1>4, <2>1
    <3>2. F(t) < k /\ k <= F(t) + Len(Found(load, t))
      BY <1>3, <1>4
    <3>3. u = t
      BY <1>1, <3>1, <3>2, EachRecordInAChunk DEF F
    <3>4. k <= F(t) + w
      BY <2>1, <3>3 DEF w
    <3>5. QED
      BY <1>3, <1>4, <3>4
  <2>2. QED
    BY <2>1 DEF Written, F
<1>7. Cursor(t) = Place(load, k - 1)
  <2>1. Place(load, F(t)) + BytesOf(Found(load, t), w) = Place(load, F(t) + w)
    BY <1>1, <1>2, PlacesOfChunk DEF F
  <2>2. QED
    BY <1>2, <1>4, <2>1 DEF Cursor, w
<1>8. Index(t) = k
  BY <1>2, <1>4 DEF Index, w
<1>9. NextSlot(t) = SlotAt(load, k)
  BY <1>5, <1>7 DEF NextSlot, SlotAt, w
<1>10. [offset |-> Cursor(t), length |-> padded_length(found[t][w + 1].len) % LengthSize] =
         Entry(load, k)
  BY <1>5, <1>7 DEF Entry, Padded
<1>11. \A u \in Threads(load) : written'[u] = IF u = t THEN w + 1 ELSE written[u]
  <2>1. Table(written, Threads(load)) /\ written' = [written EXCEPT ![t] = @ + 1]
    BY DEF LoaderInv, Fill
  <2>2. QED
    BY <2>1 DEF Table, w
<1>12. Written \union {k} =
         {i \in 1 .. N : \E u \in Threads(load) : F(u) < i /\ i <= F(u) + written'[u]}
  <2>1. ASSUME NEW i \in 1 .. N, NEW u \in Threads(load), F(u) < i, i <= F(u) + written[u]
        PROVE  i <= F(u) + written'[u]
    <3>1. written[u] \in Nat /\ i \in Nat /\ F(u) \in Nat
      BY <1>3
    <3>2. written'[u] = written[u] \/ written'[u] = written[u] + 1
      BY <1>11 DEF w
    <3>3. QED
      BY <2>1, <3>1, <3>2
  <2>2. ASSUME NEW i \in 1 .. N, NEW u \in Threads(load), F(u) < i, i <= F(u) + written'[u]
        PROVE  i = k \/ i <= F(u) + written[u]
    <3>1. CASE u = t
      <4>1. i <= F(t) + (w + 1) /\ i \in Nat
        BY <1>11, <2>2, <3>1
      <4>2. i = k \/ i <= F(t) + w
        BY <1>3, <1>4, <4>1
      <4>3. QED
        BY <3>1, <4>2 DEF w
    <3>2. CASE u # t
      BY <1>11, <2>2, <3>2
    <3>3. QED
      BY <3>1, <3>2
  <2>3. F(t) < k /\ k <= F(t) + written'[t]
    BY <1>3, <1>4, <1>11
  <2>4. Written = {i \in 1 .. N : \E u \in Threads(load) : F(u) < i /\ i <= F(u) + written[u]}
    BY DEF Written, F, N
  <2>5. \A i \in Written : \E u \in Threads(load) : F(u) < i /\ i <= F(u) + written'[u]
    BY <2>1, <2>4
  <2>6. \A i \in 1 .. N : (\E u \in Threads(load) : F(u) < i /\ i <= F(u) + written'[u])
                            => i \in Written \union {k}
    BY <2>2, <2>4
  <2>7. QED
    BY <1>5, <2>3, <2>4, <2>5, <2>6
<1>13. QED
  BY <1>1, <1>5, <1>6, <1>8, <1>9, <1>10, <1>12 DEF k, w, N, F

LEMMA LoaderInvFill ==
  ASSUME LoaderInv, NEW t \in Threads(load), Fill(t)
  PROVE  LoaderInv'
<1> DEFINE k == NextRecord(t)
<1>1. /\ load \in Loads
      /\ Table(phase, Threads(load)) /\ Table(found, Threads(load))
      /\ Table(written, Threads(load))
      /\ Table(chunk_start, Threads(load)) /\ Table(index_start, Threads(load))
  BY DEF LoaderInv
<1>2. /\ Filling /\ k \in (1 .. Len(Recs(load))) \ Written
      /\ Index(t) = k /\ NextSlot(t) = SlotAt(load, k)
      /\ [offset |-> Cursor(t),
          length |-> padded_length(found[t][written[t] + 1].len) % LengthSize] = Entry(load, k)
      /\ Written \union {k} =
           {i \in 1 .. Len(Recs(load)) :
              \E u \in Threads(load) : First(load, u) < i /\ i <= First(load, u) + written'[u]}
  BY AboutToWrite
<1>3. /\ phase[t] = "fill" /\ written[t] < Len(found[t])
      /\ bytes' = [b \in DOMAIN bytes \union DOMAIN NextSlot(t) |->
                     IF b \in DOMAIN NextSlot(t) THEN NextSlot(t)[b] ELSE bytes[b]]
      /\ table' = [table EXCEPT ![Index(t)] =
                     [offset |-> Cursor(t),
                      length |-> padded_length(found[t][written[t] + 1].len) % LengthSize]]
      /\ written' = [written EXCEPT ![t] = @ + 1]
      /\ UNCHANGED <<load, phase, found, chunk_start, index_start, size>>
  BY DEF Fill
<1> HIDE DEF k
<1>4. Written' = Written \union {k}
  BY <1>2, <1>3 DEF Written
<1>5. bytes = Image(load, Written) /\ table = Entries(load, Written)
  BY <1>2 DEF Filling
<1>6. bytes' = Image(load, Written \union {k}) /\ table' = Entries(load, Written \union {k})
  <2>1. Written \in SUBSET (1 .. Len(Recs(load)))
    BY DEF Written
  <2>2. /\ Image(load, Written \union {k}) =
             [b \in DOMAIN Image(load, Written) \union DOMAIN SlotAt(load, k) |->
                IF b \in DOMAIN SlotAt(load, k) THEN SlotAt(load, k)[b] ELSE Image(load, Written)[b]]
        /\ Entries(load, Written \union {k}) = [Entries(load, Written) EXCEPT ![k] = Entry(load, k)]
    <3>1. load \in Loads /\ k \in (1 .. Len(Recs(load))) \ Written
      BY <1>1, <1>2
    <3>2. QED
      BY <2>1, <3>1, OneMoreWritten, Zenon
  <2>3. QED
    BY <1>2, <1>3, <1>5, <2>2
<1>7. ASSUME NEW u \in Threads(load)
      PROVE  /\ written'[u] \in 0 .. Len(Found(load, u))
             /\ phase[u] = "filled" => written'[u] = Len(Found(load, u))
  <2>1. written'[u] = IF u = t THEN written[t] + 1 ELSE written[u]
    BY <1>1, <1>3 DEF Table
  <2>2. /\ written[u] \in 0 .. Len(Found(load, u)) /\ found[u] = Found(load, u)
        /\ phase[u] = "filled" => written[u] = Len(Found(load, u))
        /\ Len(Found(load, u)) \in Nat
    BY <1>1, <1>2, ChunkIsSegment DEF Filling
  <2>3. CASE u = t
    BY <1>3, <2>1, <2>2, <2>3
  <2>4. CASE u # t
    BY <2>1, <2>2, <2>4
  <2>5. QED
    BY <2>3, <2>4
<1>8. Filling'
  BY <1>2, <1>3, <1>4, <1>6, <1>7 DEF Filling
<1>9. /\ Table(phase, Threads(load))' /\ Table(found, Threads(load))'
      /\ Table(written, Threads(load))'
      /\ Table(chunk_start, Threads(load))' /\ Table(index_start, Threads(load))'
  BY <1>1, <1>3 DEF Table
<1>10. QED
  BY <1>1, <1>3, <1>8, <1>9 DEF LoaderInv

LEMMA LoaderInvFillEnd ==
  ASSUME LoaderInv, NEW t \in Threads(load), FillEnd(t)
  PROVE  LoaderInv'
<1>1. /\ load \in Loads
      /\ Table(phase, Threads(load)) /\ Table(found, Threads(load))
      /\ Table(written, Threads(load))
      /\ Table(chunk_start, Threads(load)) /\ Table(index_start, Threads(load))
  BY DEF LoaderInv
<1>2. /\ phase[t] = "fill" /\ written[t] = Len(found[t])
      /\ phase' = [phase EXCEPT ![t] = "filled"]
      /\ UNCHANGED <<load, found, chunk_start, index_start, size, written, bytes, table>>
  BY DEF FillEnd
<1>3. Filling
  BY <1>2 DEF LoaderInv, Scanning
<1>4. Written' = Written
  BY <1>2 DEF Written
<1>5. \A u \in Threads(load) : phase'[u] = IF u = t THEN "filled" ELSE phase[u]
  BY <1>1, <1>2 DEF Table
<1>6. Filling'
  BY <1>2, <1>3, <1>4, <1>5 DEF Filling
<1>7. /\ Table(phase, Threads(load))' /\ Table(found, Threads(load))'
      /\ Table(written, Threads(load))'
      /\ Table(chunk_start, Threads(load))' /\ Table(index_start, Threads(load))'
  BY <1>1, <1>2 DEF Table
<1>8. QED
  BY <1>1, <1>2, <1>6, <1>7 DEF LoaderInv

LEMMA LoaderInvSame ==
  ASSUME LoaderInv, UNCHANGED vars
  PROVE  LoaderInv'
<1>1. Written' = Written
  BY DEF Written, vars
<1>2. QED
  BY <1>1 DEF LoaderInv, Table, Scanning, Filling, vars

LEMMA LoaderInvNext ==
  LoaderInv /\ [PipelineNext]_pipelineVars => LoaderInv'
<1>1. SUFFICES ASSUME LoaderInv, [PipelineNext]_pipelineVars PROVE LoaderInv'
  OBVIOUS
<1>2. ASSUME NEW t \in ThreadIds, LoaderThread(t) PROVE LoaderInv'
  BY <1>1, <1>2, LoaderInvScan, LoaderInvFill, LoaderInvFillEnd DEF LoaderThread
<1>3. CASE MainThread
  BY <1>1, <1>3, LoaderInvPlan, LoaderInvSame DEF MainThread
<1>4. ASSUME NEW t \in ThreadIds, QueryThread(t) PROVE LoaderInv'
  BY <1>1, <1>4, LoaderInvSame DEF QueryThread
<1>5. CASE UNCHANGED pipelineVars
  BY <1>1, <1>5, LoaderInvSame DEF pipelineVars
<1>6. QED
  BY <1>1, <1>2, <1>3, <1>4, <1>5 DEF PipelineNext

LEMMA LoaderInvariant ==
  PipelineSpec => []LoaderInv
<1>1. PipelineInit => LoaderInv
  BY LoaderInvInit DEF PipelineInit
<1>2. QED
  BY <1>1, LoaderInvNext, PTL DEF PipelineSpec

-----------------------------------------------------------------------------
(* What the loader has made.                                               *)

\* The buffer and the table once all threads of the loader have returned.
LEMMA WhenLoaded ==
  ASSUME LoaderInv, Loaded
  PROVE  /\ load \in Loads
         /\ size = AlignedSize(Place(load, Len(Recs(load))) + PadTo)
         /\ DOMAIN bytes = 0 .. Place(load, Len(Recs(load))) - 1
         /\ bytes = [b \in 0 .. Place(load, Len(Recs(load))) - 1 |->
                       SlotAt(load, Holder(load, b))[b]]
         /\ \A i \in 1 .. Len(Recs(load)) : \A b \in DOMAIN SlotAt(load, i) :
              bytes[b] = SlotAt(load, i)[b]
         /\ table = [i \in 1 .. Len(Recs(load)) |-> Entry(load, i)]
<1> DEFINE N == Len(Recs(load))
<1>1. load \in Loads /\ 0 \in Threads(load)
  BY LoadFacts DEF LoaderInv
<1>2. Filling
  BY <1>1 DEF LoaderInv, Scanning, Loaded
<1>3. \A t \in Threads(load) : written[t] = Len(Found(load, t))
  BY <1>2 DEF Filling, Loaded
<1>4. Written = 1 .. N
  BY <1>1, <1>3, AllWritten
<1>5. bytes = Image(load, 1 .. N) /\ table = Entries(load, 1 .. N)
  BY <1>2, <1>4 DEF Filling
<1>6. Held(load, 1 .. N) = 0 .. Place(load, N) - 1
  BY <1>1, Holders DEF Held
<1>7. bytes = [b \in 0 .. Place(load, N) - 1 |-> SlotAt(load, Holder(load, b))[b]]
  BY <1>5, <1>6 DEF Image
<1>8. \A i \in 1 .. N : \A b \in DOMAIN SlotAt(load, i) :
        Holder(load, b) = i /\ b \in 0 .. Place(load, N) - 1
  BY <1>1, Holders, SlotFacts
<1>9. table = [i \in 1 .. N |-> Entry(load, i)]
  BY <1>5 DEF Entries
<1>10. QED
  BY <1>1, <1>2, <1>7, <1>8, <1>9 DEF Filling

LEMMA AlignedFacts ==
  ASSUME NEW n \in Nat
  PROVE  AlignedSize(n) \in Nat /\ AlignedSize(n) >= n
<1>1. PadTo \in Nat \ {0} /\ n % PadTo \in 0 .. PadTo - 1
  BY FastLoaderAssumption
<1> DEFINE gap == PadTo - (n % PadTo)
<1>2. gap \in Nat
  BY <1>1
<1> HIDE DEF gap
<1>3. gap % PadTo \in Nat
  BY <1>1, <1>2
<1>4. AlignedSize(n) = n + (gap % PadTo)
  BY DEF AlignedSize, gap
<1>5. QED
  BY <1>3, <1>4

\* The size of the buffer, and that every record of the stream is inside of it.
LEMMA InTheBuffer ==
  ASSUME LoaderInv, Filling
  PROVE  /\ size \in Nat /\ size >= Place(load, Len(Recs(load))) + PadTo
         /\ \A i \in 1 .. Len(Recs(load)) : DOMAIN SlotAt(load, i) \in SUBSET (0 .. size - 1)
<1> DEFINE N == Len(Recs(load))
           end == Place(load, N)
<1>1. load \in Loads /\ PadTo \in Nat
  BY FastLoaderAssumption DEF LoaderInv
<1>2. N \in 0 .. N
  BY <1>1, RecsFacts
<1>3. end \in Nat
  BY <1>1, <1>2, Places
<1> HIDE DEF end, N
<1>4. size = AlignedSize(end + PadTo) /\ end + PadTo \in Nat
  BY <1>1, <1>3 DEF Filling, end, N
<1>5. size \in Nat /\ size >= end + PadTo
  BY <1>4, AlignedFacts
<1>6. \A b \in 0 .. end - 1 : b \in 0 .. size - 1
  BY <1>1, <1>3, <1>5
<1>7. \A i \in 1 .. N : \A b \in DOMAIN SlotAt(load, i) : b \in 0 .. end - 1
  BY <1>1, SlotFacts DEF end, N
<1>8. QED
  BY <1>5, <1>6, <1>7 DEF end, N

\* WriteOnce of FastLoader.tla: the threads of the second phase write to disjoint
\* parts of the buffer and the table, although none of them knows what the others
\* have done.
THEOREM ThreadsWriteOnce ==
  PipelineSpec => WriteOnce
<1> DEFINE Fresh(t) == /\ DOMAIN NextSlot(t) \subseteq (0 .. size - 1) \ DOMAIN bytes
                       /\ Index(t) \in DOMAIN table
                       /\ table[Index(t)] = Unset
<1>1. ASSUME LoaderInv, NEW t \in Threads(load), Fill(t) PROVE Fresh(t)
  <2> DEFINE k == NextRecord(t)
  <2>1. /\ Filling /\ k \in (1 .. Len(Recs(load))) \ Written
        /\ Index(t) = k /\ NextSlot(t) = SlotAt(load, k)
    BY <1>1, AboutToWrite
  <2>2. load \in Loads /\ Written \in SUBSET (1 .. Len(Recs(load)))
    BY <1>1 DEF LoaderInv, Written
  <2>3. bytes = Image(load, Written) /\ table = Entries(load, Written)
    BY <2>1 DEF Filling
  <2> HIDE DEF k
  <2>4. /\ DOMAIN SlotAt(load, k) \intersect DOMAIN Image(load, Written) = {}
        /\ Entries(load, Written)[k] = Unset
    <3>1. k \in (1 .. Len(Recs(load))) \ Written
      BY <2>1
    <3>2. Written \in SUBSET (1 .. Len(Recs(load)))
      BY <2>2
    <3>3. load \in Loads
      BY <2>2
    <3>4. QED
      BY <3>1, <3>2, <3>3, NotWrittenYet
  <2>5. DOMAIN SlotAt(load, k) \in SUBSET (0 .. size - 1)
    BY <1>1, <2>1, InTheBuffer
  <2>6. k \in DOMAIN table
    BY <2>1, <2>3 DEF Entries
  <2>7. QED
    BY <2>1, <2>3, <2>4, <2>5, <2>6
<1> HIDE DEF Fresh
<1>2. LoaderInv => [\A t \in Threads(load) : Fill(t) => Fresh(t)]_vars
  BY <1>1
<1>3. QED
  BY <1>2, LoaderInvariant, PTL DEF WriteOnce, Fresh

\* SameAsReference of FastLoader.tla: whatever the number of threads and the order of
\* their steps, the buffer and the table are those of the serial loader.
THEOREM ParallelIsSerial ==
  PipelineSpec => []SameAsReference
<1>1. ASSUME LoaderInv, Loaded
      PROVE  LET ref == Reference(load)
             IN /\ bytes = ref.bytes
                /\ table = [i \in 1 .. Len(ref.offset) |->
                              [offset |-> ref.offset[i], length |-> ref.length[i]]]
  <2> DEFINE N == Len(Recs(load))
             offsets == [i \in 1 .. N |-> Place(load, i - 1)]
             lengths == [i \in 1 .. N |-> Padded(load, i) % LengthSize]
             image == [b \in 0 .. Place(load, N) - 1 |-> SlotAt(load, Holder(load, b))[b]]
  <2>1. Reference(load) = [offset |-> offsets, length |-> lengths, bytes |-> image]
    BY DEF Reference, Place, Padded, SlotAt, Holder, Recs
  <2>2. N \in Nat /\ bytes = image /\ table = [i \in 1 .. N |-> Entry(load, i)]
    BY <1>1, WhenLoaded, RecsFacts
  <2>3. Len(offsets) = N
    <3> HIDE DEF N
    <3>1. offsets \in [1 .. N -> {Place(load, i - 1) : i \in 1 .. N}]
      OBVIOUS
    <3>2. offsets \in Seq({Place(load, i - 1) : i \in 1 .. N}) /\ DOMAIN offsets = 1 .. N
      BY <2>2, <3>1, SeqDef
    <3> HIDE DEF offsets
    <3>3. Len(offsets) \in Nat /\ 1 .. Len(offsets) = 1 .. N
      BY <3>2
    <3>4. QED
      BY <2>2, <3>3, SameInterval
  <2>4. [i \in 1 .. N |-> [offset |-> offsets[i], length |-> lengths[i]]] =
          [i \in 1 .. N |-> Entry(load, i)]
    BY DEF Entry
  <2> HIDE DEF N, offsets, lengths, image
  <2>5. QED
    BY <2>1, <2>2, <2>3, <2>4
<1>2. LoaderInv => SameAsReference
  BY <1>1 DEF SameAsReference
<1>3. QED
  BY <1>2, LoaderInvariant, PTL

\* With lengths that fit, what the table says of a record is its padded length.
LEMMA FittingLengths ==
  ASSUME LengthsFit, NEW c \in Loads, NEW i \in 1 .. Len(Recs(c))
  PROVE  Padded(c, i) % LengthSize = Padded(c, i)
<1> DEFINE s == Ith(Begins(c), i)
           len == Trimmed(c.text, s, c.text.length)
<1>1. LengthSize \in Nat \ {0} /\ IsText(c.text)
  BY FastLoaderAssumption, LoadFacts
<1>2. s \in Begins(c)
  BY RecsFacts, Ranks
<1>3. padded_length(len) < LengthSize
  BY <1>2 DEF LengthsFit, Begins
<1>4. len \in Nat
  <2>1. /\ s \in Nat /\ s < c.text.length
        /\ IsEdge(c.text, c.text.length)
    BY <1>1, <1>2, RecsFacts DEF IsEdge, IsText
  <2>2. /\ LineEnd(c.text, s, c.text.length) \in s + 1 .. c.text.length
        /\ len \in 0 .. LineEnd(c.text, s, c.text.length) - s
    BY <1>1, <2>1, LineEnds
  <2>3. QED
    BY <2>2
<1>5. Recs(c)[i].len = len % LengthSize
  <2>1. Recs(c)[i] = [off |-> s, len |-> len % LengthSize]
    BY RecsFacts
  <2> HIDE DEF s, len
  <2>2. QED
    BY <2>1
<1> HIDE DEF s, len
<1>6. padded_length(len) \in Nat /\ padded_length(len) > len
  BY <1>4, Padding
<1>7. len % LengthSize = len
  BY <1>1, <1>3, <1>4, <1>6, SmallMod
<1>8. QED
  BY <1>1, <1>3, <1>5, <1>6, <1>7, SmallMod DEF Padded

\* PisonLayout of FastLoader.tla: what Pison reads are runs of whole blocks, one after
\* the other, each ending in padding, when no record is as long as 32 bits can say.
THEOREM LayoutForPison ==
  ASSUME LengthsFit
  PROVE  PipelineSpec => []PisonLayout
<1>1. ASSUME LoaderInv, Loaded
      PROVE  /\ \A i \in DOMAIN table :
                  /\ table[i].offset % PadTo = 0 /\ table[i].length % PadTo = 0
                  /\ table[i].length > 0
                  /\ bytes[table[i].offset + table[i].length - 1] = Filler
                  /\ i + 1 \in DOMAIN table =>
                       table[i + 1].offset = table[i].offset + table[i].length
             /\ size >= Cardinality(DOMAIN bytes) + PadTo
  <2> DEFINE N == Len(Recs(load))
             end == Place(load, N)
  <2>1. /\ load \in Loads /\ N \in Nat /\ DOMAIN bytes = 0 .. end - 1
        /\ table = [i \in 1 .. N |-> Entry(load, i)]
        /\ \A i \in 1 .. N : \A b \in DOMAIN SlotAt(load, i) : bytes[b] = SlotAt(load, i)[b]
    BY <1>1, WhenLoaded, RecsFacts
  <2>2. ASSUME NEW i \in 1 .. N
        PROVE  /\ table[i].offset = Place(load, i - 1) /\ table[i].length = Padded(load, i)
               /\ table[i].offset + table[i].length = Place(load, i)
               /\ Place(load, i - 1) \in Nat /\ Place(load, i) \in Nat
               /\ Padded(load, i) \in Nat
               /\ table[i].offset % PadTo = 0 /\ table[i].length % PadTo = 0
               /\ table[i].length > 0
    <3>1. table[i] = Entry(load, i)
      BY <2>1
    <3>2. Padded(load, i) % LengthSize = Padded(load, i)
      BY <2>1, FittingLengths
    <3>3. table[i].offset = Place(load, i - 1) /\ table[i].length = Padded(load, i)
      BY <3>1, <3>2 DEF Entry
    <3>4. i - 1 \in 0 .. N /\ i \in 0 .. N
      BY <2>1
    <3>5. /\ Place(load, i) = Place(load, i - 1) + Padded(load, i)
          /\ Padded(load, i) % PadTo = 0 /\ Place(load, i - 1) % PadTo = 0
          /\ Place(load, i - 1) \in Nat /\ Place(load, i) \in Nat
          /\ Padded(load, i) \in Nat /\ Padded(load, i) > Recs(load)[i].len
      BY <2>1, <3>4, Places
    <3>6. Recs(load)[i].len \in 0 .. LengthSize - 1
      BY <2>1, RecsFacts
    <3>7. Padded(load, i) > 0
      <4>1. Recs(load)[i].len \in Nat
        BY <3>6
      <4>2. QED
        BY <3>5, <4>1
    <3>8. QED
      BY <3>3, <3>5, <3>7
  <2>3. ASSUME NEW i \in 1 .. N PROVE bytes[Place(load, i) - 1] = Filler
    <3>1. /\ DOMAIN SlotAt(load, i) = Place(load, i - 1) .. Place(load, i) - 1
          /\ SlotAt(load, i)[Place(load, i) - 1] = Filler
          /\ Place(load, i - 1) \in Nat /\ Place(load, i) \in Nat
          /\ Place(load, i - 1) < Place(load, i)
      BY <2>1, SlotFacts
    <3>2. Place(load, i) - 1 \in DOMAIN SlotAt(load, i)
      BY <3>1
    <3>3. QED
      BY <2>1, <3>1, <3>2
  <2>4. size >= Cardinality(DOMAIN bytes) + PadTo
    <3>1. Filling
      BY <1>1, <2>1, LoadFacts DEF LoaderInv, Scanning, Loaded
    <3>2. size >= end + PadTo
      BY <1>1, <3>1, InTheBuffer
    <3>3. end \in Nat
      <4>1. N \in 0 .. N
        BY <2>1
      <4>2. QED
        BY <2>1, <4>1, Places
    <3> HIDE DEF end
    <3>4. Cardinality(0 .. end - 1) = end
      <4>1. end - 1 \in Int /\ (0 > end - 1 => end = 0) /\ end - 1 - 0 + 1 = end
        BY <3>3
      <4>2. QED
        BY <4>1, FS_Interval
    <3>5. QED
      BY <2>1, <3>2, <3>4 DEF end
  <2>5. DOMAIN table = 1 .. N
    BY <2>1
  <2>6. ASSUME NEW i \in 1 .. N, i + 1 \in 1 .. N
        PROVE  table[i + 1].offset = table[i].offset + table[i].length
    <3>1. (i + 1) - 1 = i
      OBVIOUS
    <3>2. table[i + 1].offset = Place(load, i)
      BY <2>2, <2>6, <3>1
    <3>3. QED
      BY <2>2, <3>2
  <2> HIDE DEF N
  <2>7. ASSUME NEW i \in 1 .. N
        PROVE  bytes[table[i].offset + table[i].length - 1] = Filler
    <3>1. /\ table[i].offset \in Nat /\ table[i].length \in Nat
          /\ table[i].offset + table[i].length = Place(load, i)
      BY <2>2
    <3>2. table[i].offset + table[i].length - 1 = Place(load, i) - 1
      BY <3>1
    <3>3. QED
      BY <2>3, <3>2
  <2>8. QED
    BY <2>2, <2>4, <2>5, <2>6, <2>7
<1>2. LoaderInv => PisonLayout
  BY <1>1 DEF PisonLayout
<1>3. QED
  BY <1>2, LoaderInvariant, PTL

-----------------------------------------------------------------------------
(* Types.                                                                  *)

LEMMA LoaderTypes ==
  LoaderInv => TypeOK
<1>1. SUFFICES ASSUME LoaderInv PROVE TypeOK
  OBVIOUS
<1> DEFINE N == Len(Recs(load))
<1>2. load \in Loads /\ N \in Nat /\ LengthSize \in Nat \ {0}
  BY <1>1, RecsFacts, FastLoaderAssumption DEF LoaderInv
<1>3. phase \in [Threads(load) -> {"scan", "scanned", "fill", "filled"}]
  BY <1>1 DEF LoaderInv, Table, Scanning, Filling
<1>4. size \in Nat
  BY <1>1, InTheBuffer DEF LoaderInv, Scanning
<1>5. ASSUME NEW t \in Threads(load)
      PROVE  /\ \A i \in 1 .. Len(found[t]) :
                  /\ found[t][i].off \in 0 .. load.text.length - 1
                  /\ found[t][i].len \in 0 .. LengthSize - 1
             /\ chunk_start[t] \in Nat
             /\ index_start[t] \in Nat
             /\ written[t] \in 0 .. Len(found[t])
  <2>1. /\ First(load, t) \in Nat /\ Len(Found(load, t)) \in Nat
        /\ \A i \in 1 .. Len(Found(load, t)) :
             /\ Found(load, t)[i].off \in 0 .. load.text.length - 1
             /\ Found(load, t)[i].len \in 0 .. LengthSize - 1
    <3>1. /\ First(load, t) \in Nat /\ Len(Found(load, t)) \in Nat
          /\ \A i \in 1 .. Len(Found(load, t)) :
               /\ First(load, t) + i \in 1 .. N
               /\ Found(load, t)[i] = Recs(load)[First(load, t) + i]
      BY <1>2, ChunkIsSegment
    <3>2. \A i \in 1 .. N : /\ Recs(load)[i].off \in 0 .. load.text.length - 1
                            /\ Recs(load)[i].len \in 0 .. LengthSize - 1
      BY <1>2, RecsFacts
    <3>3. QED
      BY <3>1, <3>2
  <2>2. Place(load, First(load, t)) \in Nat
    <3>1. 0 \in 0 .. Len(Found(load, t)) /\ First(load, t) + 0 = First(load, t)
      BY <2>1
    <3>2. First(load, t) \in 0 .. N
      BY <1>2, <3>1, PlacesOfChunk
    <3>3. QED
      BY <1>2, <3>2, Places
  <2>3. CASE Scanning
    <3>1. chunk_start[t] = 0 /\ index_start[t] = 0 /\ written[t] = 0
      BY <2>3 DEF Scanning
    <3>2. CASE found[t] = <<>>
      BY <3>1, <3>2
    <3>3. CASE found[t] = Found(load, t)
      BY <2>1, <3>1, <3>3
    <3>4. QED
      BY <2>3, <3>2, <3>3 DEF Scanning
  <2>4. CASE Filling
    BY <2>1, <2>2, <2>4 DEF Filling
  <2>5. QED
    BY <1>1, <2>3, <2>4 DEF LoaderInv
<1>6. Range(bytes) \subseteq Nat \union {Filler}
  <2>1. CASE Scanning
    BY <2>1 DEF Scanning, Range
  <2>2. CASE Filling
    <3>1. \A b \in Held(load, Written) : SlotAt(load, Holder(load, b))[b] \in Nat \union {Filler}
      BY <1>2, Holders, SlotFacts DEF Held
    <3>2. bytes = [b \in Held(load, Written) |-> SlotAt(load, Holder(load, b))[b]]
      BY <2>2 DEF Filling, Image
    <3>3. QED
      BY <3>1, <3>2 DEF Range
  <2>3. QED
    BY <1>1, <2>1, <2>2 DEF LoaderInv
<1>7. \A i \in DOMAIN table : table[i].offset \in Nat /\ table[i].length \in 0 .. LengthSize - 1
  <2>1. CASE Scanning
    BY <2>1 DEF Scanning
  <2>2. CASE Filling
    <3>1. ASSUME NEW i \in 1 .. N
          PROVE  Entry(load, i).offset \in Nat /\ Entry(load, i).length \in 0 .. LengthSize - 1
      <4>1. i - 1 \in 0 .. N
        BY <1>2
      <4>2. Place(load, i - 1) \in Nat /\ Padded(load, i) \in Nat
        BY <1>2, <4>1, Places
      <4>3. Padded(load, i) % LengthSize \in 0 .. LengthSize - 1
        BY <1>2, <4>2
      <4>4. QED
        BY <4>2, <4>3 DEF Entry
    <3>2. Unset.offset \in Nat /\ Unset.length \in 0 .. LengthSize - 1
      BY <1>2 DEF Unset
    <3>3. table = [i \in 1 .. N |-> IF i \in Written THEN Entry(load, i) ELSE Unset]
      BY <2>2 DEF Filling, Entries
    <3>4. QED
      BY <3>1, <3>2, <3>3
  <2>3. QED
    BY <1>1, <2>1, <2>2 DEF LoaderInv
<1>8. QED
  BY <1>3, <1>4, <1>5, <1>6, <1>7 DEF TypeOK

\* The threads of the query.
LEMMA PoolFacts ==
  ASSUME load \in Loads
  PROVE  /\ load.threads \in Nat
         /\ load.threads <= 1 => Pool = {}
         /\ load.threads > 1 => Pool = 0 .. load.threads - 1
BY FastLoaderAssumption DEF Pool, Stream!Pool

\* The instance of RunStream has the bags and the cardinality of this module.
LEMMA SameOperators ==
  /\ \A A, B : Stream!(+)(A, B) = A (+) B
  /\ \A A : Stream!IsABag(A) <=> IsABag(A)
  /\ \A S : Stream!SetToBag(S) = SetToBag(S)
  /\ Stream!EmptyBag = EmptyBag
  /\ \A S : Stream!Cardinality(S) = Cardinality(S)
<1>1. \A A, B : Stream!(+)(A, B) = A (+) B
  BY DEF Stream!(+), (+)
<1>2. \A A : Stream!IsABag(A) <=> IsABag(A)
  BY DEF Stream!IsABag, IsABag
<1>3. \A S : Stream!SetToBag(S) = SetToBag(S)
  BY DEF Stream!SetToBag, SetToBag
<1>4. Stream!EmptyBag = EmptyBag
  BY <1>3 DEF Stream!EmptyBag, EmptyBag
<1>5. \A S : Stream!Cardinality(S) = Cardinality(S)
  BY DEF Stream!Cardinality, Cardinality
<1>6. QED
  BY <1>1, <1>2, <1>3, <1>4, <1>5

\* What a record adds is a bag.
LEMMA RecordIsBag ==
  ASSUME NEW i
  PROVE  IsABag(Stream!do_record(i))
<1>1. IsABag(EmptyBag)
  BY BagOfSet DEF EmptyBag
<1>2. IsABag(SetToBag({Stream!Content(i)}))
  BY BagOfSet
<1>3. QED
  BY <1>1, <1>2, SameOperators DEF Stream!do_record

LEMMA StreamBegins ==
  ASSUME load \in Loads, Stream!InitState
  PROVE  Stream!TypeOK /\ Table(shards, Pool)
<1>1. IsABag(EmptyBag)
  BY BagOfSet DEF EmptyBag
<1>2. load.threads \in Nat
  BY PoolFacts
<1>3. todo \in [Pool -> SUBSET (0 .. Stream!Count - 1)]
  BY DEF Stream!InitState, Pool
<1>4. IsABag(total) /\ \A t \in Pool : IsABag(shards[t])
  BY <1>1, SameOperators DEF Stream!InitState, Pool
<1>5. QED
  BY <1>2, <1>3, <1>4, SameOperators DEF Stream!InitState, Stream!TypeOK, Table, Pool

\* A step of the loader is taken before the query begins.
LEMMA LoaderBeforeQuery ==
  ASSUME LoaderInv, StreamInv, ~ Loaded, load' = load, UNCHANGED streamVars
  PROVE  StreamInv'
<1>1. Stream!InitState'
  BY DEF StreamInv, Stream!InitState, Stream!Pool, streamVars
<1>2. load' \in Loads
  BY DEF LoaderInv
<1>3. (Stream!TypeOK /\ Table(shards, Pool))'
  <2>1. (load \in Loads /\ Stream!InitState => Stream!TypeOK /\ Table(shards, Pool))'
    BY StreamBegins, PTL
  <2>2. QED
    BY <1>1, <1>2, <2>1
<1>4. QED
  BY <1>1, <1>3 DEF StreamInv

\* A step of the query, which leaves the loader as it is.
LEMMA StreamInvStep ==
  ASSUME LoaderInv, StreamInv, Loaded, UNCHANGED vars,
         Stream!Caller \/ \E t \in Pool : Stream!Thread(t)
  PROVE  StreamInv'
<1>1. load \in Loads /\ load' = load /\ table' = table /\ bytes' = bytes /\ phase' = phase
  BY DEF LoaderInv, vars
<1>2. Pool' = Pool /\ Stream!Pool' = Pool /\ Stream!Pool = Pool /\ Stream!Count' = Stream!Count
  BY <1>1 DEF Pool, Stream!Pool, Stream!Count
<1>3. Loaded'
  BY <1>1 DEF Loaded
<1>4. /\ cursor \in Nat /\ pc \in [Pool -> {"unborn", "running", "exited"}]
      /\ todo \in [Pool -> SUBSET (0 .. Stream!Count - 1)]
      /\ \A t \in Pool : IsABag(shards[t])
      /\ merged \in Nat /\ merged <= load.threads /\ IsABag(total)
      /\ shards = [t \in Pool |-> shards[t]]
  BY <1>2, SameOperators DEF StreamInv, Stream!TypeOK, Table
<1>5. SUFFICES /\ cursor' \in Nat /\ pc' \in [Pool -> {"unborn", "running", "exited"}]
               /\ todo' \in [Pool -> SUBSET (0 .. Stream!Count - 1)]
               /\ \A t \in Pool : IsABag(shards'[t])
               /\ merged' \in Nat /\ merged' <= load.threads /\ IsABag(total')
               /\ shards' = [t \in Pool |-> shards'[t]]
  BY <1>1, <1>2, <1>3, SameOperators DEF StreamInv, Stream!TypeOK, Table
<1>6. Chunk \in Nat \ {0}
  BY ChunkAssumption
<1>7. CASE Stream!SerialRecord
  <2>1. total' = total (+) Stream!do_record(cursor) /\ cursor' = cursor + 1
        /\ UNCHANGED <<pc, todo, shards, merged>>
    BY <1>7, SameOperators DEF Stream!SerialRecord
  <2>2. IsABag(total')
    BY <1>4, <2>1, BagSum, RecordIsBag
  <2>3. QED
    BY <1>4, <2>1, <2>2
<1>8. ASSUME NEW t \in Pool, Stream!Spawn(t)
      PROVE  /\ pc' \in [Pool -> {"unborn", "running", "exited"}]
             /\ UNCHANGED <<cursor, todo, shards, merged, total>>
  BY <1>4, <1>8 DEF Stream!Spawn
<1>9. CASE Stream!Merge
  <2>1. /\ merged \in Pool /\ total' = total (+) shards[merged] /\ merged' = merged + 1
        /\ UNCHANGED <<cursor, pc, todo, shards>>
    BY <1>2, <1>9, SameOperators DEF Stream!Merge
  <2>2. IsABag(total')
    BY <1>4, <2>1, BagSum
  <2>3. merged + 1 <= load.threads
    BY <1>1, <2>1, PoolFacts
  <2>4. QED
    BY <1>4, <2>1, <2>2, <2>3
<1>10. ASSUME NEW t \in Pool, Stream!Claim(t)
       PROVE  /\ cursor' \in Nat /\ pc' \in [Pool -> {"unborn", "running", "exited"}]
              /\ todo' \in [Pool -> SUBSET (0 .. Stream!Count - 1)]
              /\ UNCHANGED <<shards, merged, total>>
  <2>1. cursor' = cursor + Chunk /\ UNCHANGED <<shards, merged, total>>
    BY <1>10 DEF Stream!Claim
  <2>2. \/ pc' = [pc EXCEPT ![t] = "exited"] /\ UNCHANGED todo
        \/ /\ todo' = [todo EXCEPT ![t] = {i \in cursor .. cursor + Chunk - 1 : i < Stream!Count}]
           /\ UNCHANGED pc
    BY <1>10 DEF Stream!Claim
  <2>3. {i \in cursor .. cursor + Chunk - 1 : i < Stream!Count} \in SUBSET (0 .. Stream!Count - 1)
    <3>1. Stream!Count \in Nat
      <4>1. DOMAIN table = 1 .. Len(Recs(load)) /\ Len(Recs(load)) \in Nat
        BY <1>1, WhenLoaded, RecsFacts
      <4>2. IsFiniteSet(DOMAIN table)
        BY <4>1, FS_Interval
      <4>3. QED
        BY <4>2, FS_CardinalityType, SameOperators DEF Stream!Count
    <3>2. QED
      BY <1>4, <1>6, <3>1
  <2>4. QED
    BY <1>4, <1>6, <2>1, <2>2, <2>3
<1>11. ASSUME NEW t \in Pool, Stream!Record(t)
       PROVE  /\ todo' \in [Pool -> SUBSET (0 .. Stream!Count - 1)]
              /\ \A u \in Pool : IsABag(shards'[u])
              /\ shards' = [u \in Pool |-> shards'[u]]
              /\ UNCHANGED <<cursor, pc, merged, total>>
  <2>1. PICK i : /\ todo' = [todo EXCEPT ![t] = @ \ {i}]
                 /\ shards' = [shards EXCEPT ![t] = @ (+) Stream!do_record(i)]
                 /\ UNCHANGED <<cursor, pc, merged, total>>
    BY <1>11, SameOperators DEF Stream!Record
  <2>2. IsABag(shards[t] (+) Stream!do_record(i))
    BY <1>4, BagSum, RecordIsBag
  <2>3. \A u \in Pool : shards'[u] = IF u = t THEN shards[t] (+) Stream!do_record(i) ELSE shards[u]
    BY <1>4, <2>1
  <2>4. shards' = [u \in Pool |-> shards'[u]]
    BY <1>4, <2>1
  <2>5. QED
    BY <1>4, <2>1, <2>2, <2>3, <2>4
<1>12. QED
  BY <1>2, <1>4, <1>7, <1>8, <1>9, <1>10, <1>11 DEF Stream!Caller, Stream!Thread

LEMMA StreamInvNext ==
  LoaderInv /\ StreamInv /\ [PipelineNext]_pipelineVars => StreamInv'
<1>1. SUFFICES ASSUME LoaderInv, StreamInv, [PipelineNext]_pipelineVars PROVE StreamInv'
  OBVIOUS
<1>2. 0 \in Threads(load)
  BY <1>1, LoadFacts DEF LoaderInv
<1>3. ASSUME NEW t \in ThreadIds, LoaderThread(t) PROVE StreamInv'
  <2>1. ~ Loaded /\ load' = load /\ UNCHANGED streamVars
    BY <1>3 DEF LoaderThread, Scan, Fill, FillEnd, Loaded
  <2>2. QED
    BY <1>1, <2>1, LoaderBeforeQuery
<1>4. CASE Plan /\ UNCHANGED streamVars
  <2>1. ~ Loaded /\ load' = load
    BY <1>2, <1>4 DEF Plan, ScansJoined, Loaded
  <2>2. QED
    BY <1>1, <1>4, <2>1, LoaderBeforeQuery
<1>5. CASE Loaded /\ UNCHANGED vars /\ Stream!Caller
  BY <1>1, <1>5, StreamInvStep
<1>6. ASSUME NEW t \in ThreadIds, QueryThread(t) PROVE StreamInv'
  BY <1>1, <1>6, StreamInvStep DEF QueryThread, Pool
<1>7. CASE UNCHANGED pipelineVars
  BY <1>1, <1>7 DEF pipelineVars, vars, streamVars, StreamInv, Stream!TypeOK, Stream!InitState,
                    Stream!Pool, Stream!Count, Pool, Table, Loaded
<1>8. QED
  BY <1>1, <1>3, <1>4, <1>5, <1>6, <1>7 DEF PipelineNext, MainThread

\* Both programs stay within their types: what is written lies in the buffer and the
\* table, and no claim of the query goes past the table.
THEOREM PipelineTypeCorrect ==
  PipelineSpec => []PipelineTypeOK
<1>1. PipelineInit => StreamInv
  <2>1. SUFFICES ASSUME PipelineInit PROVE StreamInv
    OBVIOUS
  <2>2. load \in Loads /\ Stream!InitState
    BY <2>1 DEF PipelineInit, Init
  <2>3. QED
    BY <2>2, StreamBegins DEF StreamInv
<1>2. LoaderInv /\ StreamInv => PipelineTypeOK
  BY LoaderTypes DEF StreamInv, PipelineTypeOK
<1>3. QED
  BY <1>1, <1>2, StreamInvNext, LoaderInvariant, PTL DEF PipelineSpec

-----------------------------------------------------------------------------
(* What is extracted from records.                                         *)

\* The records of D that are as good as the bytes s.
Alike(c, D, s) == {i \in D \intersect Good(c) : Content(c, i) = s}

Contents(c, D) == {Content(c, i) : i \in D \intersect Good(c)}

LEMMA AlikeFacts ==
  ASSUME NEW c \in Loads, NEW D \in SUBSET (1 .. Len(Recs(c)))
  PROVE  /\ BagFor(c, D) = [s \in Contents(c, D) |-> Cardinality(Alike(c, D, s))]
         /\ \A s : IsFiniteSet(Alike(c, D, s)) /\ Cardinality(Alike(c, D, s)) \in Nat
         /\ \A s : s \notin Contents(c, D) => Cardinality(Alike(c, D, s)) = 0
<1>1. IsFiniteSet(1 .. Len(Recs(c)))
  <2>1. Len(Recs(c)) \in Int /\ 1 \in Int
    BY RecsFacts
  <2>2. QED
    BY <2>1, FS_Interval
<1>2. \A s : Alike(c, D, s) \in SUBSET (1 .. Len(Recs(c)))
  BY DEF Alike
<1>3. \A s : IsFiniteSet(Alike(c, D, s))
  BY <1>1, <1>2, FS_Subset
<1>4. \A s : s \notin Contents(c, D) => Alike(c, D, s) = {}
  BY DEF Alike, Contents
<1>5. BagFor(c, D) = [s \in Contents(c, D) |-> Cardinality(Alike(c, D, s))]
  BY DEF BagFor, Alike, Contents
<1>6. QED
  BY <1>3, <1>4, <1>5, FS_CardinalityType, FS_EmptySet

LEMMA NothingExtracted ==
  ASSUME NEW c \in Loads
  PROVE  BagFor(c, {}) = EmptyBag
<1>1. BagFor(c, {}) = [s \in {} |-> Cardinality(Alike(c, {}, s))]
  <2>1. Contents(c, {}) = {} /\ {} \in SUBSET (1 .. Len(Recs(c)))
    BY DEF Contents
  <2>2. QED
    BY <2>1, AlikeFacts
<1>2. EmptyBag = [s \in {} |-> 1]
  BY DEF EmptyBag, SetToBag
<1>3. QED
  BY <1>1, <1>2

LEMMA OneExtracted ==
  ASSUME NEW c \in Loads, NEW i \in 1 .. Len(Recs(c))
  PROVE  BagFor(c, {i}) = IF i \in Good(c) THEN SetToBag({Content(c, i)}) ELSE EmptyBag
<1>1. BagFor(c, {i}) = [s \in Contents(c, {i}) |-> Cardinality(Alike(c, {i}, s))]
  BY AlikeFacts
<1>2. CASE i \in Good(c)
  <2>1. Contents(c, {i}) = {Content(c, i)} /\ Alike(c, {i}, Content(c, i)) = {i}
    BY <1>2 DEF Contents, Alike
  <2>2. Cardinality({i}) = 1
    BY FS_Singleton
  <2>3. BagFor(c, {i}) = [s \in {Content(c, i)} |-> 1]
    BY <1>1, <2>1, <2>2
  <2>4. QED
    BY <1>2, <2>3 DEF SetToBag
<1>3. CASE i \notin Good(c)
  <2>1. Contents(c, {i}) = {}
    BY <1>3 DEF Contents
  <2>2. BagFor(c, {i}) = [s \in {} |-> 1]
    BY <1>1, <2>1
  <2>3. QED
    BY <1>3, <2>2 DEF EmptyBag, SetToBag
<1>4. QED
  BY <1>2, <1>3

\* What is extracted from the records of two sets adds up.
LEMMA ExtractionsAdd ==
  ASSUME NEW c \in Loads,
         NEW D \in SUBSET (1 .. Len(Recs(c))), NEW E \in SUBSET (1 .. Len(Recs(c))),
         D \intersect E = {}
  PROVE  BagFor(c, D) (+) BagFor(c, E) = BagFor(c, D \union E)
<1>1. D \union E \in SUBSET (1 .. Len(Recs(c)))
  OBVIOUS
<1>2. /\ BagFor(c, D) = [s \in Contents(c, D) |-> Cardinality(Alike(c, D, s))]
      /\ \A s : IsFiniteSet(Alike(c, D, s)) /\ Cardinality(Alike(c, D, s)) \in Nat
      /\ \A s : s \notin Contents(c, D) => Cardinality(Alike(c, D, s)) = 0
  BY AlikeFacts
<1>3. /\ BagFor(c, E) = [s \in Contents(c, E) |-> Cardinality(Alike(c, E, s))]
      /\ \A s : IsFiniteSet(Alike(c, E, s)) /\ Cardinality(Alike(c, E, s)) \in Nat
      /\ \A s : s \notin Contents(c, E) => Cardinality(Alike(c, E, s)) = 0
  BY AlikeFacts
<1>4. /\ BagFor(c, D \union E) =
           [s \in Contents(c, D \union E) |-> Cardinality(Alike(c, D \union E, s))]
  BY <1>1, AlikeFacts
<1>5. Contents(c, D \union E) = Contents(c, D) \union Contents(c, E)
  BY DEF Contents
<1>6. ASSUME NEW s
      PROVE  Cardinality(Alike(c, D \union E, s)) =
               Cardinality(Alike(c, D, s)) + Cardinality(Alike(c, E, s))
  <2>1. /\ Alike(c, D \union E, s) = Alike(c, D, s) \union Alike(c, E, s)
        /\ Alike(c, D, s) \intersect Alike(c, E, s) = {}
    BY DEF Alike
  <2>2. Cardinality(Alike(c, D, s) \union Alike(c, E, s)) =
          Cardinality(Alike(c, D, s)) + Cardinality(Alike(c, E, s))
            - Cardinality(Alike(c, D, s) \intersect Alike(c, E, s))
    BY <1>2, <1>3, FS_Union
  <2>3. Cardinality(Alike(c, D, s) \intersect Alike(c, E, s)) = 0
    BY <2>1, FS_EmptySet
  <2>4. Cardinality(Alike(c, D \union E, s)) =
          Cardinality(Alike(c, D, s)) + Cardinality(Alike(c, E, s)) - 0
    BY <2>1, <2>2, <2>3
  <2>5. Cardinality(Alike(c, D, s)) \in Nat /\ Cardinality(Alike(c, E, s)) \in Nat
    BY <1>2, <1>3
  <2>6. QED
    BY <2>4, <2>5
<1> DEFINE S == Contents(c, D)
           T == Contents(c, E)
           both == [s \in S \union T |-> Cardinality(Alike(c, D \union E, s))]
<1>7. /\ DOMAIN BagFor(c, D) = S /\ DOMAIN BagFor(c, E) = T
      /\ \A s \in S : BagFor(c, D)[s] = Cardinality(Alike(c, D, s))
      /\ \A s \in T : BagFor(c, E)[s] = Cardinality(Alike(c, E, s))
  BY <1>2, <1>3
<1> HIDE DEF S, T
<1>8. BagFor(c, D) (+) BagFor(c, E) =
        [s \in S \union T |-> (IF s \in S THEN BagFor(c, D)[s] ELSE 0)
                              + (IF s \in T THEN BagFor(c, E)[s] ELSE 0)]
  BY <1>7 DEF (+)
<1>9. \A s \in S \union T :
        (IF s \in S THEN BagFor(c, D)[s] ELSE 0) + (IF s \in T THEN BagFor(c, E)[s] ELSE 0)
          = Cardinality(Alike(c, D \union E, s))
  <2>1. SUFFICES ASSUME NEW s \in S \union T
                 PROVE  (IF s \in S THEN BagFor(c, D)[s] ELSE 0)
                          + (IF s \in T THEN BagFor(c, E)[s] ELSE 0)
                        = Cardinality(Alike(c, D \union E, s))
    OBVIOUS
  <2>2. (IF s \in S THEN BagFor(c, D)[s] ELSE 0) = Cardinality(Alike(c, D, s))
    BY <1>2, <1>7 DEF S
  <2>3. (IF s \in T THEN BagFor(c, E)[s] ELSE 0) = Cardinality(Alike(c, E, s))
    BY <1>3, <1>7 DEF T
  <2>4. QED
    BY <1>6, <2>2, <2>3
<1>10. BagFor(c, D) (+) BagFor(c, E) = both
  BY <1>8, <1>9
<1>11. QED
  BY <1>4, <1>5, <1>10 DEF S, T

\* Once the stream is loaded, the query finds in the buffer the bytes of each record.
LEMMA ContentInBuffer ==
  ASSUME LengthsFit, LoaderInv, Loaded, NEW i \in 1 .. Len(Recs(load))
  PROVE  Stream!Content(i - 1) = Content(load, i)
<1> DEFINE p == Place(load, i - 1)
           rec == Recs(load)[i]
           n == padded_length(rec.len)
<1>1. /\ load \in Loads
      /\ \A b \in DOMAIN SlotAt(load, i) : bytes[b] = SlotAt(load, i)[b]
      /\ table[i] = Entry(load, i)
  BY WhenLoaded
<1>2. rec.off \in Nat /\ rec.len \in Nat /\ i \in Nat /\ i - 1 \in 0 .. Len(Recs(load))
  <2>1. rec.off \in 0 .. load.text.length - 1 /\ rec.len \in 0 .. LengthSize - 1
    BY <1>1, RecsFacts
  <2>2. Len(Recs(load)) \in Nat
    BY <1>1, RecsFacts
  <2>3. QED
    BY <2>1, <2>2
<1>3. p \in Nat /\ n \in Nat
  BY <1>1, <1>2, Places, Padding
<1>4. Padded(load, i) % LengthSize = Padded(load, i) /\ Padded(load, i) = n
  BY <1>1, FittingLengths DEF Padded
<1>5. table[i].offset = p /\ table[i].length = n
  BY <1>1, <1>4 DEF Entry
<1>6. /\ DOMAIN SlotAt(load, i) = p .. p + n - 1
      /\ \A b \in p .. p + n - 1 :
           SlotAt(load, i)[b] = IF b < p + rec.len THEN rec.off + (b - p) ELSE Filler
  BY DEF SlotAt, Slot
<1>7. Content(load, i) =
        [b \in 0 .. 0 + n - 1 |-> IF b < 0 + rec.len THEN rec.off + (b - 0) ELSE Filler]
  BY DEF Content, Slot
<1>8. Stream!Content(i - 1) = [b \in 0 .. n - 1 |-> bytes[p + b]]
  <2>1. (i - 1) + 1 = i
    BY <1>2
  <2>2. QED
    BY <1>5, <2>1 DEF Stream!Content
<1> HIDE DEF p, rec, n
<1>9. \A b \in 0 .. n - 1 :
        bytes[p + b] = IF b < 0 + rec.len THEN rec.off + (b - 0) ELSE Filler
  <2>1. SUFFICES ASSUME NEW b \in 0 .. n - 1
                 PROVE  bytes[p + b] = IF b < 0 + rec.len THEN rec.off + (b - 0) ELSE Filler
    OBVIOUS
  <2>2. p + b \in p .. p + n - 1 /\ (p + b) - p = b - 0 /\ (p + b < p + rec.len <=> b < 0 + rec.len)
    BY <1>2, <1>3
  <2>3. bytes[p + b] = IF p + b < p + rec.len THEN rec.off + ((p + b) - p) ELSE Filler
    BY <1>1, <1>6, <2>2
  <2>4. QED
    BY <2>2, <2>3
<1>10. 0 .. 0 + n - 1 = 0 .. n - 1
  BY <1>3
<1>11. QED
  BY <1>7, <1>8, <1>9, <1>10

LEMMA RecordAdds ==
  ASSUME LengthsFit, LoaderInv, Loaded, NEW i \in 1 .. Len(Recs(load))
  PROVE  Stream!do_record(i - 1) = BagFor(load, {i})
<1>1. Stream!Content(i - 1) = Content(load, i)
  BY ContentInBuffer
<1>2. Stream!Indexed(i - 1) <=> i \in Good(load)
  <2>1. Stream!Indexed(i - 1) <=> \A b \in DOMAIN Content(load, i) : Content(load, i)[b] \notin Broken
    BY <1>1 DEF Stream!Indexed
  <2>2. i \in Good(load) <=> Range(Content(load, i)) \intersect Broken = {}
    BY DEF Good
  <2>3. QED
    BY <2>1, <2>2 DEF Range
<1>3. load \in Loads
  BY DEF LoaderInv
<1>4. QED
  BY <1>1, <1>2, <1>3, OneExtracted, SameOperators DEF Stream!do_record

\* How many records the query finds in the table.
LEMMA RecordCount ==
  ASSUME LoaderInv, Loaded
  PROVE  Stream!Count = Len(Recs(load)) /\ Len(Recs(load)) \in Nat
<1> DEFINE N == Len(Recs(load))
<1>1. DOMAIN table = 1 .. N /\ N \in Nat
  BY WhenLoaded, RecsFacts
<1> HIDE DEF N
<1>2. Cardinality(1 .. N) = N
  <2>1. N \in Int /\ 1 \in Int /\ (1 > N => N = 0) /\ N - 1 + 1 = N
    BY <1>1
  <2>2. QED
    BY <2>1, FS_Interval
<1>3. QED
  BY <1>1, <1>2, SameOperators DEF Stream!Count, N

-----------------------------------------------------------------------------
(* How the records are dealt out to the threads of the query.              *)

\* A claim takes the next records, or finds none.
LEMMA DealtByClaim ==
  ASSUME NEW n \in Nat, NEW P, NEW done \in [P -> SUBSET (1 .. n)], NEW at \in Nat,
         NEW left \in [P -> SUBSET (0 .. n - 1)], Dealt(n, done, at, left),
         NEW t \in P, left[t] = {}, NEW k \in Nat \ {0}
  PROVE  /\ at >= n => Dealt(n, done, at + k, left)
         /\ Dealt(n, done, at + k,
                  [left EXCEPT ![t] = {i \in at .. at + k - 1 : i < n}])
<1> DEFINE next == [left EXCEPT ![t] = {i \in at .. at + k - 1 : i < n}]
<1>1. DOMAIN done = P
  OBVIOUS
<1>2. \A i \in 1 .. n : i <= at <=> \E u \in P : i \in done[u] \/ i - 1 \in left[u]
  BY <1>1 DEF Dealt
<1>3. \A u, v \in P : \A i \in 1 .. n :
        /\ ~ (i \in done[u] /\ i - 1 \in left[v])
        /\ i \in done[u] /\ i \in done[v] => u = v
        /\ i - 1 \in left[u] /\ i - 1 \in left[v] => u = v
  BY <1>1 DEF Dealt
<1>4. ASSUME at >= n PROVE Dealt(n, done, at + k, left)
  <2>1. \A i \in 1 .. n : i <= at /\ i <= at + k
    BY <1>4
  <2>2. QED
    BY <1>1, <1>2, <1>3, <2>1 DEF Dealt
<1>5. ASSUME NEW i \in 1 .. n
      PROVE  /\ i - 1 \in next[t] <=> i > at /\ i <= at + k
             /\ \A u \in P \ {t} : next[u] = left[u]
             /\ i > at <=> ~ (i <= at)
             /\ i <= at + k <=> i <= at \/ (i > at /\ i <= at + k)
  OBVIOUS
<1>6. \A u \in P : \A i \in 1 .. n :
        i - 1 \in next[u] <=> i - 1 \in left[u] \/ (u = t /\ i > at /\ i <= at + k)
  <2>1. \A i : i - 1 \notin left[t]
    OBVIOUS
  <2> HIDE DEF next
  <2>2. QED
    BY <1>5, <2>1
<1> HIDE DEF next
<1>7. \A i \in 1 .. n : i <= at + k <=> \E u \in P : i \in done[u] \/ i - 1 \in next[u]
  BY <1>2, <1>5, <1>6
<1>8. ASSUME NEW u \in P, NEW v \in P, NEW i \in 1 .. n
      PROVE  /\ ~ (i \in done[u] /\ i - 1 \in next[v])
             /\ i \in done[u] /\ i \in done[v] => u = v
             /\ i - 1 \in next[u] /\ i - 1 \in next[v] => u = v
  <2>1. i > at => i \notin done[u] /\ i - 1 \notin left[u] /\ i - 1 \notin left[v]
    BY <1>2, <1>5
  <2>2. QED
    BY <1>3, <1>6, <2>1
<1>9. Dealt(n, done, at + k, next)
  BY <1>1, <1>7, <1>8 DEF Dealt
<1>10. QED
  BY <1>4, <1>9 DEF next

\* A thread has queried the next record of its chunk.
LEMMA DealtByRecord ==
  ASSUME NEW n \in Nat, NEW P, NEW done \in [P -> SUBSET (1 .. n)], NEW at \in Nat,
         NEW left \in [P -> SUBSET (0 .. n - 1)], Dealt(n, done, at, left),
         NEW t \in P, NEW k \in 1 .. n, k - 1 \in left[t]
  PROVE  /\ k \notin done[t]
         /\ Dealt(n, [done EXCEPT ![t] = @ \union {k}], at, [left EXCEPT ![t] = @ \ {k - 1}])
<1> DEFINE more == [done EXCEPT ![t] = @ \union {k}]
           rest == [left EXCEPT ![t] = @ \ {k - 1}]
<1>1. DOMAIN done = P /\ DOMAIN more = P
  OBVIOUS
<1>2. \A i \in 1 .. n : i <= at <=> \E u \in P : i \in done[u] \/ i - 1 \in left[u]
  BY <1>1 DEF Dealt
<1>3. \A u, v \in P : \A i \in 1 .. n :
        /\ ~ (i \in done[u] /\ i - 1 \in left[v])
        /\ i \in done[u] /\ i \in done[v] => u = v
        /\ i - 1 \in left[u] /\ i - 1 \in left[v] => u = v
  BY <1>1 DEF Dealt
<1>4. \A i \in 1 .. n : i - 1 = k - 1 <=> i = k
  OBVIOUS
<1>5. \A u \in P : \A i \in 1 .. n :
        /\ i \in more[u] <=> i \in done[u] \/ (u = t /\ i = k)
        /\ i - 1 \in rest[u] <=> i - 1 \in left[u] /\ ~ (u = t /\ i = k)
  <2>1. \A u \in P : /\ more[u] = IF u = t THEN done[t] \union {k} ELSE done[u]
                     /\ rest[u] = IF u = t THEN left[t] \ {k - 1} ELSE left[u]
    OBVIOUS
  <2> HIDE DEF more, rest
  <2>2. QED
    BY <1>4, <2>1
<1> HIDE DEF more, rest
<1>6. \A i \in 1 .. n : i <= at <=> \E u \in P : i \in more[u] \/ i - 1 \in rest[u]
  BY <1>2, <1>5
<1>7. ASSUME NEW u \in P, NEW v \in P, NEW i \in 1 .. n
      PROVE  /\ ~ (i \in more[u] /\ i - 1 \in rest[v])
             /\ i \in more[u] /\ i \in more[v] => u = v
             /\ i - 1 \in rest[u] /\ i - 1 \in rest[v] => u = v
  BY <1>3, <1>5
<1>8. Dealt(n, more, at, rest)
  BY <1>1, <1>6, <1>7 DEF Dealt
<1>9. QED
  BY <1>3, <1>8 DEF more, rest

-----------------------------------------------------------------------------
(* The invariant of the query holds.                                       *)

LEMMA QueryBegins ==
  ASSUME load \in Loads, Stream!InitState
  PROVE  QueryInv
<1> DEFINE N == Len(Recs(load))
           none == [t \in Pool |-> {}]
<1>1. /\ cursor = 0 /\ pc = [t \in Pool |-> "unborn"] /\ todo = [t \in Pool |-> {}]
      /\ shards = [t \in Pool |-> EmptyBag] /\ merged = 0 /\ total = EmptyBag
  BY SameOperators DEF Stream!InitState, Pool
<1>2. BagFor(load, {}) = EmptyBag /\ N \in Nat
  BY NothingExtracted, RecsFacts
<1>3. cursor <= N /\ total = BagFor(load, 1 .. cursor)
  <2>1. 1 .. 0 = {}
    OBVIOUS
  <2>2. QED
    BY <1>1, <1>2, <2>1
<1>4. Dealt(N, none, cursor, todo)
  BY <1>1 DEF Dealt
<1>5. DealtOut(none)
  <2>1. UNION {none[t] : t \in 0 .. merged - 1} = {}
    <3>1. 0 .. 0 - 1 = {}
      OBVIOUS
    <3>2. QED
      BY <1>1, <3>1
  <2>2. total = BagFor(load, UNION {none[t] : t \in 0 .. merged - 1})
    BY <1>1, <1>2, <2>1
  <2>3. \A t \in Pool : shards[t] = BagFor(load, none[t]) /\ pc[t] # "exited"
    BY <1>1, <1>2
  <2>4. ~ (merged > 0)
    BY <1>1
  <2> HIDE DEF none
  <2>5. QED
    BY <1>4, <2>2, <2>3, <2>4 DEF DealtOut
<1>6. none \in [Pool -> SUBSET (1 .. N)]
  OBVIOUS
<1>7. QED
  BY <1>3, <1>5, <1>6 DEF QueryInv

LEMMA QueryInvSerial ==
  ASSUME LengthsFit, LoaderInv, StreamInv, QueryInv, Loaded, UNCHANGED vars, Stream!SerialRecord
  PROVE  QueryInv'
<1> DEFINE N == Len(Recs(load))
<1>1. load \in Loads /\ load' = load /\ load.threads \in Nat
  BY PoolFacts DEF LoaderInv, vars
<1>2. /\ load.threads <= 1 /\ cursor < Stream!Count /\ cursor' = cursor + 1
      /\ total' = total (+) Stream!do_record(cursor)
  BY SameOperators DEF Stream!SerialRecord
<1>3. /\ cursor \in Nat /\ cursor < N /\ N \in Nat
      /\ total = BagFor(load, 1 .. cursor)
  BY <1>2, RecordCount DEF StreamInv, Stream!TypeOK, QueryInv
<1> HIDE DEF N
<1>4. cursor + 1 \in 1 .. N /\ (cursor + 1) - 1 = cursor
  BY <1>3
<1>5. Stream!do_record(cursor) = BagFor(load, {cursor + 1})
  BY <1>4, RecordAdds DEF N
<1>6. BagFor(load, 1 .. cursor) (+) BagFor(load, {cursor + 1}) =
        BagFor(load, (1 .. cursor) \union {cursor + 1})
  <2>1. /\ 1 .. cursor \in SUBSET (1 .. N) /\ {cursor + 1} \in SUBSET (1 .. N)
        /\ (1 .. cursor) \intersect {cursor + 1} = {}
    BY <1>3, <1>4
  <2>2. QED
    BY <1>1, <2>1, ExtractionsAdd DEF N
<1>7. (1 .. cursor) \union {cursor + 1} = 1 .. cursor + 1
  BY <1>3
<1>8. cursor' <= N /\ total' = BagFor(load, 1 .. cursor')
  <2>1. total' = BagFor(load, (1 .. cursor) \union {cursor + 1})
    BY <1>2, <1>3, <1>5, <1>6
  <2>2. total' = BagFor(load, 1 .. cursor + 1)
    BY <1>7, <2>1
  <2>3. cursor + 1 <= N
    BY <1>3, <1>4
  <2>4. QED
    BY <1>2, <2>2, <2>3
<1>9. ~ (load.threads > 1)
  BY <1>1, <1>2
<1>10. QED
  BY <1>1, <1>8, <1>9 DEF QueryInv, N

\* What is left to show of a step of the threads.
LEMMA DealtOutAgain ==
  ASSUME load \in Loads, load' = load, load.threads > 1,
         NEW d \in [Pool -> SUBSET (1 .. Len(Recs(load)))],
         Dealt(Len(Recs(load)), d, cursor', todo'),
         \A t \in Pool : shards'[t] = BagFor(load, d[t]),
         \A t \in Pool : pc'[t] = "exited" => todo'[t] = {} /\ cursor' >= Len(Recs(load)),
         merged' > 0 => \A t \in Pool : pc'[t] = "exited",
         total' = BagFor(load, UNION {d[t] : t \in 0 .. merged' - 1})
  PROVE  QueryInv'
<1>1. Pool' = Pool /\ load.threads \in Nat /\ ~ (load.threads <= 1)
  BY PoolFacts DEF Pool, Stream!Pool
<1>2. \E done \in [Pool -> SUBSET (1 .. Len(Recs(load)))] :
        /\ Dealt(Len(Recs(load)), done, cursor', todo')
        /\ \A t \in Pool : shards'[t] = BagFor(load, done[t])
        /\ \A t \in Pool : pc'[t] = "exited" => todo'[t] = {} /\ cursor' >= Len(Recs(load))
        /\ merged' > 0 => \A t \in Pool : pc'[t] = "exited"
        /\ total' = BagFor(load, UNION {done[t] : t \in 0 .. merged' - 1})
  OBVIOUS
<1>3. (\E done \in [Pool -> SUBSET (1 .. Len(Recs(load)))] : DealtOut(done))'
  BY <1>1, <1>2 DEF DealtOut
<1>4. QED
  BY <1>1, <1>3 DEF QueryInv

\* A thread that runs has queried nothing that is merged yet.
LEMMA RunningMeansUnmerged ==
  ASSUME StreamInv, NEW done, DealtOut(done), NEW t \in Pool, pc[t] # "exited"
  PROVE  merged = 0
<1>1. merged \in Nat /\ ~ (merged > 0)
  BY DEF StreamInv, Stream!TypeOK, DealtOut
<1>2. QED
  BY <1>1

LEMMA QueryInvSpawn ==
  ASSUME LoaderInv, StreamInv, UNCHANGED vars, load.threads > 1,
         NEW done \in [Pool -> SUBSET (1 .. Len(Recs(load)))], DealtOut(done),
         NEW t \in Pool, Stream!Spawn(t)
  PROVE  QueryInv'
<1>1. load \in Loads /\ load' = load
  BY DEF LoaderInv, vars
<1>2. /\ pc[t] = "unborn" /\ pc' = [pc EXCEPT ![t] = "running"]
      /\ UNCHANGED <<cursor, todo, shards, merged, total>>
  BY DEF Stream!Spawn
<1>3. merged = 0
  BY <1>2, RunningMeansUnmerged
<1>4. \A u \in Pool : pc'[u] = IF u = t THEN "running" ELSE pc[u]
  BY <1>2 DEF StreamInv, Stream!TypeOK, Pool
<1>5. /\ Dealt(Len(Recs(load)), done, cursor', todo')
      /\ \A u \in Pool : shards'[u] = BagFor(load, done[u])
      /\ \A u \in Pool : pc'[u] = "exited" => todo'[u] = {} /\ cursor' >= Len(Recs(load))
      /\ total' = BagFor(load, UNION {done[u] : u \in 0 .. merged' - 1})
  BY <1>2, <1>4 DEF DealtOut
<1>6. ~ (merged' > 0)
  BY <1>2, <1>3
<1>7. QED
  BY <1>1, <1>5, <1>6, DealtOutAgain

LEMMA QueryInvClaim ==
  ASSUME LoaderInv, StreamInv, Loaded, UNCHANGED vars, load.threads > 1,
         NEW done \in [Pool -> SUBSET (1 .. Len(Recs(load)))], DealtOut(done),
         NEW t \in Pool, Stream!Claim(t)
  PROVE  QueryInv'
<1> DEFINE N == Len(Recs(load))
           taken == {i \in cursor .. cursor + Chunk - 1 : i < N}
<1>1. load \in Loads /\ load' = load /\ Stream!Count = N /\ N \in Nat /\ Chunk \in Nat \ {0}
  BY RecordCount, ChunkAssumption DEF LoaderInv, vars
<1>2. /\ pc[t] = "running" /\ todo[t] = {} /\ cursor' = cursor + Chunk
      /\ UNCHANGED <<shards, merged, total>>
  BY DEF Stream!Claim, Stream!Idle
<1>3. /\ merged = 0 /\ cursor \in Nat
      /\ pc \in [Pool -> {"unborn", "running", "exited"}]
      /\ todo \in [Pool -> SUBSET (0 .. N - 1)]
  BY <1>1, <1>2, RunningMeansUnmerged DEF StreamInv, Stream!TypeOK, Pool
<1>4. Dealt(N, done, cursor, todo)
  BY DEF DealtOut
<1> HIDE DEF N, taken
<1>5. /\ cursor >= N => Dealt(N, done, cursor + Chunk, todo)
      /\ Dealt(N, done, cursor + Chunk, [todo EXCEPT ![t] = taken])
  <2>1. done \in [Pool -> SUBSET (1 .. N)]
    BY DEF N
  <2>2. QED
    BY <1>1, <1>2, <1>3, <1>4, <2>1, DealtByClaim DEF taken
<1>6. CASE cursor >= N /\ pc' = [pc EXCEPT ![t] = "exited"] /\ todo' = todo
  <2>1. Dealt(N, done, cursor', todo')
    BY <1>2, <1>5, <1>6
  <2>2. \A u \in Pool : pc'[u] = "exited" => todo'[u] = {} /\ cursor' >= N
    <3>1. cursor' >= N
      BY <1>1, <1>2, <1>3, <1>6
    <3>2. \A u \in Pool : pc'[u] = "exited" => u = t \/ pc[u] = "exited"
      BY <1>3, <1>6
    <3>3. QED
      BY <1>2, <1>6, <3>1, <3>2 DEF DealtOut
  <2>3. /\ \A u \in Pool : shards'[u] = BagFor(load, done[u])
        /\ total' = BagFor(load, UNION {done[u] : u \in 0 .. merged' - 1})
        /\ ~ (merged' > 0)
    BY <1>2, <1>3 DEF DealtOut
  <2>4. QED
    BY <1>1, <2>1, <2>2, <2>3, DealtOutAgain DEF N
<1>7. CASE cursor < N /\ pc' = pc /\ todo' = [todo EXCEPT ![t] = taken]
  <2>1. Dealt(N, done, cursor', todo')
    BY <1>2, <1>5, <1>7
  <2>2. \A u \in Pool : pc[u] # "exited"
    BY <1>1, <1>3, <1>7 DEF DealtOut, N
  <2>3. /\ \A u \in Pool : shards'[u] = BagFor(load, done[u])
        /\ \A u \in Pool : pc'[u] = "exited" => todo'[u] = {} /\ cursor' >= N
        /\ total' = BagFor(load, UNION {done[u] : u \in 0 .. merged' - 1})
        /\ ~ (merged' > 0)
    BY <1>2, <1>3, <1>7, <2>2 DEF DealtOut
  <2>4. QED
    BY <1>1, <2>1, <2>3, DealtOutAgain DEF N
<1>8. QED
  BY <1>1, <1>6, <1>7 DEF Stream!Claim, taken

LEMMA QueryInvRecord ==
  ASSUME LengthsFit, LoaderInv, StreamInv, Loaded, UNCHANGED vars, load.threads > 1,
         NEW done \in [Pool -> SUBSET (1 .. Len(Recs(load)))], DealtOut(done),
         NEW t \in Pool, Stream!Record(t)
  PROVE  QueryInv'
<1> DEFINE N == Len(Recs(load))
           first == CHOOSE i \in todo[t] : \A j \in todo[t] : i <= j
<1>1. load \in Loads /\ load' = load /\ Stream!Count = N /\ N \in Nat
  BY RecordCount DEF LoaderInv, vars
<1>2. /\ pc[t] = "running" /\ todo[t] # {}
      /\ todo' = [todo EXCEPT ![t] = @ \ {first}]
      /\ shards' = [shards EXCEPT ![t] = @ (+) Stream!do_record(first)]
      /\ UNCHANGED <<cursor, pc, merged, total>>
  BY SameOperators DEF Stream!Record
<1>3. /\ merged = 0 /\ cursor \in Nat
      /\ todo \in [Pool -> SUBSET (0 .. N - 1)]
      /\ shards = [u \in Pool |-> shards[u]]
  BY <1>1, <1>2, RunningMeansUnmerged DEF StreamInv, Stream!TypeOK, Pool, Table
<1>4. Dealt(N, done, cursor, todo) /\ shards[t] = BagFor(load, done[t])
  BY DEF DealtOut
<1>5. first \in todo[t]
  <2>1. todo[t] \in SUBSET Nat
    <3>1. \A i \in 0 .. N - 1 : i \in Nat
      OBVIOUS
    <3>2. QED
      BY <1>3, <3>1
  <2>2. \E i \in todo[t] : \A j \in todo[t] : i <= j
    BY <1>2, <2>1, LeastElement
  <2>3. QED
    BY <2>2
<1> HIDE DEF N, first
<1>6. PICK k \in 1 .. N : k - 1 = first
  <2>1. first \in 0 .. N - 1
    BY <1>3, <1>5
  <2>2. first + 1 \in 1 .. N /\ (first + 1) - 1 = first
    BY <1>1, <2>1
  <2>3. QED
    BY <2>2
<1> DEFINE more == [done EXCEPT ![t] = @ \union {k}]
<1>7. done \in [Pool -> SUBSET (1 .. N)]
  BY DEF N
<1>8. k \notin done[t] /\ Dealt(N, more, cursor, [todo EXCEPT ![t] = @ \ {k - 1}])
  <2>1. k - 1 \in todo[t]
    BY <1>5, <1>6
  <2>2. QED
    BY <1>1, <1>3, <1>4, <1>7, <2>1, DealtByRecord
<1>9. more \in [Pool -> SUBSET (1 .. N)]
        /\ \A u \in Pool : more[u] = IF u = t THEN done[t] \union {k} ELSE done[u]
  BY <1>7
<1> HIDE DEF more
<1>10. Dealt(N, more, cursor', todo')
  BY <1>2, <1>6, <1>8
<1>11. BagFor(load, done[t]) (+) Stream!do_record(first) = BagFor(load, done[t] \union {k})
  <2>1. Stream!do_record(k - 1) = BagFor(load, {k})
    BY RecordAdds DEF N
  <2>2. done[t] \in SUBSET (1 .. N) /\ {k} \in SUBSET (1 .. N) /\ done[t] \intersect {k} = {}
    BY <1>7, <1>8
  <2>3. BagFor(load, done[t]) (+) BagFor(load, {k}) = BagFor(load, done[t] \union {k})
    BY <1>1, <2>2, ExtractionsAdd DEF N
  <2>4. QED
    BY <1>6, <2>1, <2>3
<1>12. ASSUME NEW u \in Pool PROVE shards'[u] = BagFor(load, more[u])
  <2>1. CASE u = t
    <3>1. shards'[t] = shards[t] (+) Stream!do_record(first)
      BY <1>2, <1>3
    <3>2. QED
      BY <1>4, <1>9, <1>11, <2>1, <3>1
  <2>2. CASE u # t
    <3>1. shards'[u] = shards[u]
      BY <1>2, <1>3, <2>2
    <3>2. QED
      BY <1>9, <2>2, <3>1 DEF DealtOut
  <2>3. QED
    BY <2>1, <2>2
<1>13. \A u \in Pool : pc'[u] = "exited" => todo'[u] = {} /\ cursor' >= N
  <2>1. \A u \in Pool : todo'[u] = IF u = t THEN todo[t] \ {first} ELSE todo[u]
    BY <1>2, <1>3
  <2>2. QED
    BY <1>2, <2>1 DEF DealtOut, N
<1>14. total' = BagFor(load, UNION {more[u] : u \in 0 .. merged' - 1}) /\ ~ (merged' > 0)
  <2>1. 0 .. 0 - 1 = {}
    OBVIOUS
  <2>2. /\ UNION {more[u] : u \in 0 .. merged' - 1} = {}
        /\ UNION {done[u] : u \in 0 .. merged - 1} = {}
    BY <1>2, <1>3, <2>1
  <2>3. QED
    BY <1>2, <1>3, <2>2 DEF DealtOut
<1>15. QED
  BY <1>1, <1>9, <1>10, <1>12, <1>13, <1>14, DealtOutAgain DEF N

LEMMA QueryInvMerge ==
  ASSUME LoaderInv, StreamInv, UNCHANGED vars, load.threads > 1,
         NEW done \in [Pool -> SUBSET (1 .. Len(Recs(load)))], DealtOut(done),
         Stream!Merge
  PROVE  QueryInv'
<1> DEFINE N == Len(Recs(load))
           Merged(m) == UNION {done[u] : u \in 0 .. m - 1}
<1>1. /\ load \in Loads /\ load' = load
      /\ Pool = 0 .. load.threads - 1 /\ load.threads \in Nat
  BY PoolFacts DEF LoaderInv, vars
<1>2. /\ merged \in Pool /\ \A u \in Pool : pc[u] = "exited"
      /\ total' = total (+) shards[merged] /\ merged' = merged + 1
      /\ UNCHANGED <<cursor, pc, todo, shards>>
  BY SameOperators DEF Stream!Merge, Stream!Joined, Pool
<1>3. /\ Dealt(N, done, cursor, todo) /\ total = BagFor(load, Merged(merged))
      /\ \A u \in Pool : shards[u] = BagFor(load, done[u])
      /\ \A u \in Pool : pc[u] = "exited" => todo[u] = {} /\ cursor >= N
  BY DEF DealtOut
<1>4. \A u \in 0 .. merged - 1 : u \in Pool /\ u # merged
  BY <1>1, <1>2
<1>5. \A u \in Pool : done[u] \in SUBSET (1 .. N)
  OBVIOUS
<1>6. Merged(merged) \in SUBSET (1 .. N)
  BY <1>4, <1>5
<1>7. Merged(merged) \intersect done[merged] = {}
  <2>1. ASSUME NEW i \in 1 .. N, NEW u \in 0 .. merged - 1, i \in done[u], i \in done[merged]
        PROVE  FALSE
    BY <1>2, <1>3, <1>4, <2>1 DEF Dealt
  <2>2. QED
    BY <1>6, <2>1
<1>8. Merged(merged + 1) = Merged(merged) \union done[merged]
  <2>1. 0 .. (merged + 1) - 1 = (0 .. merged - 1) \union {merged}
    BY <1>1, <1>2
  <2>2. QED
    BY <2>1
<1> HIDE DEF Merged, N
<1>9. total' = BagFor(load, Merged(merged'))
  <2>1. done[merged] \in SUBSET (1 .. N)
    BY <1>2, <1>5
  <2>2. BagFor(load, Merged(merged)) (+) BagFor(load, done[merged]) =
          BagFor(load, Merged(merged) \union done[merged])
    BY <1>1, <1>6, <1>7, <2>1, ExtractionsAdd DEF N
  <2>3. QED
    BY <1>2, <1>3, <1>8, <2>2
<1>10. QED
  BY <1>1, <1>2, <1>3, <1>9, DealtOutAgain DEF N, Merged

LEMMA QueryInvNext ==
  ASSUME LengthsFit
  PROVE  LoaderInv /\ StreamInv /\ QueryInv /\ [PipelineNext]_pipelineVars => QueryInv'
<1>1. SUFFICES ASSUME LoaderInv, StreamInv, QueryInv, [PipelineNext]_pipelineVars
               PROVE  QueryInv'
  OBVIOUS
<1>2. /\ load \in Loads /\ 0 \in Threads(load) /\ load.threads \in Nat
      /\ load.threads <= 1 => Pool = {}
  BY <1>1, LoadFacts, PoolFacts DEF LoaderInv
<1>3. ASSUME ~ Loaded, load' = load, UNCHANGED streamVars PROVE QueryInv'
  <2>1. Stream!InitState'
    BY <1>1, <1>3 DEF StreamInv, Stream!InitState, Stream!Pool, streamVars
  <2>2. load' \in Loads
    BY <1>2, <1>3
  <2>3. (load \in Loads /\ Stream!InitState => QueryInv)'
    BY QueryBegins, PTL
  <2>4. QED
    BY <2>1, <2>2, <2>3
<1>4. ASSUME Loaded, UNCHANGED vars, Stream!Caller \/ \E t \in Pool : Stream!Thread(t)
      PROVE  QueryInv'
  <2>1. CASE Stream!SerialRecord
    BY <1>1, <1>4, <2>1, QueryInvSerial
  <2>2. CASE ~ Stream!SerialRecord
    <3>1. Pool = Stream!Pool
      BY DEF Pool
    <3>2. \/ \E t \in Pool : Stream!Spawn(t) \/ Stream!Claim(t) \/ Stream!Record(t)
          \/ Stream!Merge
      BY <1>4, <2>2, <3>1 DEF Stream!Caller, Stream!Thread
    <3>3. Stream!Merge => merged \in Pool
      BY DEF Stream!Merge, Pool
    <3>4. load.threads > 1
      BY <1>2, <3>2, <3>3
    <3>5. PICK done \in [Pool -> SUBSET (1 .. Len(Recs(load)))] : DealtOut(done)
      BY <1>1, <1>4, <3>4 DEF QueryInv
    <3>6. QED
      BY <1>1, <1>4, <3>2, <3>4, <3>5, QueryInvSpawn, QueryInvClaim, QueryInvRecord, QueryInvMerge
  <2>3. QED
    BY <2>1, <2>2
<1>5. ASSUME NEW t \in ThreadIds, LoaderThread(t) PROVE QueryInv'
  BY <1>3, <1>5 DEF LoaderThread, Scan, Fill, FillEnd, Loaded
<1>6. CASE Plan /\ UNCHANGED streamVars
  BY <1>2, <1>3, <1>6 DEF Plan, ScansJoined, Loaded
<1>7. ASSUME NEW t \in ThreadIds, QueryThread(t) PROVE QueryInv'
  BY <1>4, <1>7 DEF QueryThread, Pool
<1>8. CASE UNCHANGED pipelineVars
  BY <1>1, <1>8 DEF pipelineVars, vars, streamVars, QueryInv, DealtOut, Pool, Stream!Pool, Loaded
<1>9. QED
  BY <1>1, <1>4, <1>5, <1>6, <1>7, <1>8 DEF PipelineNext, MainThread

\* QueriesTheStream of PisonPipeline.tla: when both programs are done the result is
\* that of the records of the stream, each queried once, whatever the number of
\* threads, the chunks they claimed and the order of their steps.
THEOREM QueriesEachRecordOnce ==
  ASSUME LengthsFit
  PROVE  PipelineSpec => []QueriesTheStream
<1> DEFINE N == Len(Recs(load))
<1>1. PipelineInit => StreamInv /\ QueryInv
  <2>1. SUFFICES ASSUME PipelineInit PROVE StreamInv /\ QueryInv
    OBVIOUS
  <2>2. load \in Loads /\ Stream!InitState
    BY <2>1 DEF PipelineInit, Init
  <2>3. QED
    BY <2>2, StreamBegins, QueryBegins DEF StreamInv
<1>2. ASSUME LoaderInv, StreamInv, QueryInv, Finished PROVE total = BagFor(load, 1 .. N)
  <2>1. /\ Loaded /\ load \in Loads /\ Stream!Count = N /\ N \in Nat
        /\ Stream!Returned /\ load.threads \in Nat
    BY <1>2, RecordCount, PoolFacts DEF Finished, LoaderInv
  <2>2. CASE load.threads <= 1
    BY <1>2, <2>1, <2>2 DEF QueryInv, Stream!Returned
  <2>3. CASE load.threads > 1
    <3>1. PICK done \in [Pool -> SUBSET (1 .. N)] : DealtOut(done)
      BY <1>2, <2>1, <2>3 DEF QueryInv
    <3>2. merged = load.threads /\ Pool = 0 .. merged - 1 /\ merged > 0
      BY <2>1, <2>3, PoolFacts DEF Stream!Returned
    <3>3. \A t \in Pool : todo[t] = {} /\ cursor >= N
      BY <3>1, <3>2 DEF DealtOut
    <3>4. cursor >= N /\ cursor \in Nat
      <4>1. 0 \in Pool
        BY <2>1, <2>3, <3>2
      <4>2. QED
        BY <1>2, <3>3, <4>1 DEF StreamInv, Stream!TypeOK
    <3>5. \A i \in 1 .. N : \E t \in Pool : i \in done[t]
      <4>1. \A i \in 1 .. N : i <= cursor
        BY <2>1, <3>4
      <4>2. QED
        BY <3>1, <3>3, <4>1 DEF DealtOut, Dealt
    <3>6. UNION {done[t] : t \in 0 .. merged - 1} = 1 .. N
      BY <3>1, <3>2, <3>5
    <3>7. QED
      BY <3>1, <3>6 DEF DealtOut
  <2>4. QED
    BY <2>1, <2>2, <2>3
<1>3. Expected = BagFor(load, 1 .. N)
  <2>1. (1 .. N) \intersect Good(load) = Good(load)
    BY DEF Good
  <2>2. BagFor(load, 1 .. N) =
          [s \in {Content(load, i) : i \in Good(load)} |->
             Cardinality({i \in Good(load) : Content(load, i) = s})]
    BY <2>1 DEF BagFor
  <2>3. QED
    BY <2>2 DEF Expected, Good, Content, Recs
<1>4. LoaderInv /\ StreamInv /\ QueryInv => QueriesTheStream
  BY <1>2, <1>3 DEF QueriesTheStream
<1>5. QED
  BY <1>1, <1>4, LoaderInvariant, StreamInvNext, QueryInvNext, PTL DEF PipelineSpec
=============================================================================
