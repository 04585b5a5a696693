----------------------------- MODULE FastLoader -----------------------------
(***************************************************************************)
(* fast_loader of src/loaders.h, which lays the records of a stream out as *)
(* Pison needs them: each copied into one buffer, padded to a multiple of  *)
(* PadTo bytes.  The threads first scan the stream for records, each a     *)
(* chunk of its own; the caller joins them and adds up, chunk by chunk,    *)
(* where their records go; then the threads fill the buffer and the record *)
(* table, all of them at once.  reference_loader does the same serially.   *)
(*                                                                         *)
(* A stream is its length and the positions of its line feeds and carriage *)
(* returns.  A byte of the buffer is the position of the byte of the       *)
(* stream that was copied there, or Filler.                                *)
(***************************************************************************)
EXTENDS Integers, Sequences, FiniteSets, Functions, FiniteSetsExt

CONSTANTS
  Loads,           \* the calls: records [text, threads]
  PadTo,           \* a record is padded to a multiple of this: 64
  MinRecordBytes,  \* a record of this length or less is skipped: 5
  LengthSize,      \* a length in the record table is modulo LengthSize: 2^32
  Filler           \* the byte records are padded with: 'd'

ASSUME FastLoaderAssumption ==
  /\ PadTo \in Nat \ {0}
  /\ MinRecordBytes \in Nat
  /\ LengthSize \in Nat \ {0}
  /\ Filler \notin Nat
  /\ \A c \in Loads : /\ c.text.length \in Nat
                      /\ c.text.lf \in SUBSET (0 .. c.text.length - 1)
                      /\ c.text.cr \in SUBSET (0 .. c.text.length - 1)
                      /\ c.threads \in Nat

-----------------------------------------------------------------------------
ThreadCount(c) == IF c.threads < 1 THEN 1 ELSE c.threads

Threads(c) == 0 .. ThreadCount(c) - 1

\* Where chunk t begins before it is moved to a record's begin.
Guess(c, t) == (c.text.length \div ThreadCount(c)) * t

\* Where chunk t begins, before the bounds are put in order: just past the first
\* line feed from its guess on.
Snapped(c, t) ==
  CASE t = 0              -> 0
    [] t = ThreadCount(c) -> c.text.length
    [] OTHER              ->
         Min({c.text.length} \union {p + 1 : p \in {p \in c.text.lf : Guess(c, t) <= p}})

\* Bug: the begin of a chunk is left where the division puts it.
ChunkBoundRaw(c, t) == IF t = ThreadCount(c) THEN c.text.length ELSE Guess(c, t)

\* chunk_bounds
ChunkBound(c, t) == Max({Snapped(c, v) : v \in 0 .. t})

\* scan_range: where the lines of [begin, stop) begin, the length of a line with
\* its terminator trimmed, and the lines that are records, in order.
LineBegins(text, begin, stop) ==
  {s \in {begin} \union {p + 1 : p \in text.lf \intersect (begin .. stop - 1)} : s < stop}

LineEnd(text, s, stop) == Min({stop} \union {p + 1 : p \in {p \in text.lf : s <= p /\ p < stop}})

Trimmed(text, s, stop) ==
  Max({0} \union {n \in 1 .. LineEnd(text, s, stop) - s : s + n - 1 \notin text.lf \union text.cr})

RecordBegins(text, begin, stop) ==
  {s \in LineBegins(text, begin, stop) : Trimmed(text, s, stop) > MinRecordBytes}

\* The element of S that has i - 1 below it.
Ith(S, i) == CHOOSE s \in S : Cardinality({r \in S : r < s}) = i - 1

ScanRange(text, begin, stop) ==
  LET begins == RecordBegins(text, begin, stop)
  IN [i \in 1 .. Cardinality(begins) |->
        [off |-> Ith(begins, i), len |-> Trimmed(text, Ith(begins, i), stop) % LengthSize]]

\* Bug: a length that is a multiple already gets no padding.
PaddedLengthTight(len) == len + ((PadTo - (len % PadTo)) % PadTo)

padded_length(len) == len + (PadTo - (len % PadTo))

\* The bytes the first n records of a chunk take in the buffer.
BytesOf(recs, n) == SumFunctionOnSet([i \in DOMAIN recs |-> padded_length(recs[i].len)], 1 .. n)

\* aligned_buffer::resize rounds the size up to whole blocks.
AlignedSize(n) == n + ((PadTo - (n % PadTo)) % PadTo)

\* What is written at `cursor` for a record: its bytes and its padding.
Slot(rec, cursor) ==
  [b \in cursor .. cursor + padded_length(rec.len) - 1 |->
     IF b < cursor + rec.len THEN rec.off + (b - cursor) ELSE Filler]

\* reference_loader: the table and the buffer the serial loader makes.
Reference(c) ==
  LET recs == ScanRange(c.text, 0, c.text.length)
      slot(i) == Slot(recs[i], BytesOf(recs, i - 1))
  IN [offset |-> [i \in 1 .. Len(recs) |-> BytesOf(recs, i - 1)],
      length |-> [i \in 1 .. Len(recs) |-> padded_length(recs[i].len) % LengthSize],
      bytes  |-> [b \in 0 .. BytesOf(recs, Len(recs)) - 1 |->
                    LET i == CHOOSE i \in 1 .. Len(recs) : b \in DOMAIN slot(i)
                    IN slot(i)[b]]]

-----------------------------------------------------------------------------
VARIABLES
  load,         \* the arguments of the call
  phase,        \* of each thread: "scan", "scanned", "fill" or "filled"
  found,        \* of each thread: the records of its chunk
  chunk_start,  \* of each thread: where its records go in the buffer
  index_start,  \* of each thread: where they go in the table
  size,         \* the size of the buffer
  written,      \* of each thread: how many of its records it has written
  bytes,        \* the bytes of the buffer written so far
  table         \* the record table

vars == <<load, phase, found, chunk_start, index_start, size, written, bytes, table>>

Init ==
  /\ load \in Loads
  /\ phase = [t \in Threads(load) |-> "scan"]
  /\ found = [t \in Threads(load) |-> <<>>]
  /\ chunk_start = [t \in Threads(load) |-> 0]
  /\ index_start = [t \in Threads(load) |-> 0]
  /\ size = 0
  /\ written = [t \in Threads(load) |-> 0]
  /\ bytes = <<>>
  /\ table = <<>>

\* A thread scans its chunk.
Scan(t) ==
  /\ phase[t] = "scan"
  /\ phase' = [phase EXCEPT ![t] = "scanned"]
  /\ found' = [found EXCEPT ![t] =
                 ScanRange(load.text, ChunkBound(load, t), ChunkBound(load, t + 1))]
  /\ UNCHANGED <<load, chunk_start, index_start, size, written, bytes, table>>

\* The bytes and the records of the chunks before chunk t.
BytesBefore(t) == SumFunctionOnSet([v \in Threads(load) |-> BytesOf(found[v], Len(found[v]))], 0 .. t - 1)
RecordsBefore(t) == SumFunctionOnSet([v \in Threads(load) |-> Len(found[v])], 0 .. t - 1)

ScansJoined == \A t \in Threads(load) : phase[t] = "scanned"

\* What resize makes an entry of the table.
Unset == [offset |-> 0, length |-> 0]

\* Bug: the chunks' places are summed from the lengths before padding.
PlanUnpadded ==
  /\ ScansJoined
  /\ chunk_start' = [t \in Threads(load) |->
       SumFunctionOnSet([v \in Threads(load) |->
         FoldFunction(LAMBDA r, sum : r.len + sum, 0, found[v])], 0 .. t - 1)]
  /\ index_start' = [t \in Threads(load) |-> RecordsBefore(t)]
  /\ size' = AlignedSize(BytesBefore(ThreadCount(load)) + PadTo)
  /\ table' = [i \in 1 .. RecordsBefore(ThreadCount(load)) |-> Unset]
  /\ phase' = [t \in Threads(load) |-> "fill"]
  /\ UNCHANGED <<load, found, written, bytes>>

\* Once the scans are joined, the caller sums up where each chunk's records go,
\* makes the buffer and the table, and starts the threads again.
Plan ==
  /\ ScansJoined
  /\ chunk_start' = [t \in Threads(load) |-> BytesBefore(t)]
  /\ index_start' = [t \in Threads(load) |-> RecordsBefore(t)]
  /\ size' = AlignedSize(BytesBefore(ThreadCount(load)) + PadTo)
  /\ table' = [i \in 1 .. RecordsBefore(ThreadCount(load)) |-> Unset]
  /\ phase' = [t \in Threads(load) |-> "fill"]
  /\ UNCHANGED <<load, found, written, bytes>>

\* Where the next record of a thread goes in the buffer and in the table.
Cursor(t) == chunk_start[t] + BytesOf(found[t], written[t])
Index(t) == index_start[t] + written[t] + 1
NextSlot(t) == Slot(found[t][written[t] + 1], Cursor(t))

\* A thread writes its next record to the buffer and the table.
Fill(t) ==
  /\ phase[t] = "fill"
  /\ written[t] < Len(found[t])
  /\ bytes' = [b \in DOMAIN bytes \union DOMAIN NextSlot(t) |->
                 IF b \in DOMAIN NextSlot(t) THEN NextSlot(t)[b] ELSE bytes[b]]
  /\ table' = [table EXCEPT ![Index(t)] =
                 [offset |-> Cursor(t),
                  length |-> padded_length(found[t][written[t] + 1].len) % LengthSize]]
  /\ written' = [written EXCEPT ![t] = @ + 1]
  /\ UNCHANGED <<load, phase, found, chunk_start, index_start, size>>

FillEnd(t) ==
  /\ phase[t] = "fill"
  /\ written[t] = Len(found[t])
  /\ phase' = [phase EXCEPT ![t] = "filled"]
  /\ UNCHANGED <<load, found, chunk_start, index_start, size, written, bytes, table>>

Loaded == \A t \in Threads(load) : phase[t] = "filled"

-----------------------------------------------------------------------------
TypeOK ==
  /\ phase \in [Threads(load) -> {"scan", "scanned", "fill", "filled"}]
  /\ size \in Nat
  /\ \A t \in Threads(load) :
       /\ \A i \in 1 .. Len(found[t]) :
            /\ found[t][i].off \in 0 .. load.text.length - 1
            /\ found[t][i].len \in 0 .. LengthSize - 1
       /\ chunk_start[t] \in Nat
       /\ index_start[t] \in Nat
       /\ written[t] \in 0 .. Len(found[t])
  /\ Range(bytes) \subseteq Nat \union {Filler}
  /\ \A i \in DOMAIN table : table[i].offset \in Nat /\ table[i].length \in 0 .. LengthSize - 1

\* The lengths of the table hold 32 bits: no record with its padding is longer.
LengthsFit ==
  \A c \in Loads : \A s \in RecordBegins(c.text, 0, c.text.length) :
    padded_length(Trimmed(c.text, s, c.text.length)) < LengthSize

\* The second phase writes without a lock: no byte of the buffer and no entry of
\* the table is written a second time, by whichever thread, or outside of them.
WriteOnce ==
  [][\A t \in Threads(load) : Fill(t) =>
       /\ DOMAIN NextSlot(t) \subseteq (0 .. size - 1) \ DOMAIN bytes
       /\ Index(t) \in DOMAIN table
       /\ table[Index(t)] = Unset]_vars

\* The parallel loader makes exactly what the serial one does (loaders.h:32-36,
\* "the same required layout, computed in parallel").
SameAsReference ==
  Loaded => LET ref == Reference(load)
            IN /\ bytes = ref.bytes
               /\ table = [i \in 1 .. Len(ref.offset) |->
                             [offset |-> ref.offset[i], length |-> ref.length[i]]]

\* What Pison reads of the buffer: each entry of the table is a run of whole
\* blocks that ends in a byte of padding, and the runs abut (loaders.h:8-16).
PisonLayout ==
  Loaded =>
    /\ \A i \in DOMAIN table :
         /\ table[i].offset % PadTo = 0 /\ table[i].length % PadTo = 0
         /\ table[i].length > 0
         /\ bytes[table[i].offset + table[i].length - 1] = Filler
         /\ i + 1 \in DOMAIN table => table[i + 1].offset = table[i].offset + table[i].length
    /\ size >= Cardinality(DOMAIN bytes) + PadTo
=============================================================================
