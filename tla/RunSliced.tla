------------------------------ MODULE RunSliced ------------------------------
(***************************************************************************)
(* run_sliced of src/dom_parallel.h, which drives every DOM parser over a  *)
(* corpus in parallel.  Unlike parse_many, whose counter counts slices,    *)
(* the workers share a counter of bytes; the functor a worker hands its    *)
(* slice to walks the lines of the slice with a parser whose arena is      *)
(* sized for the longest line of the whole corpus, skips a line that does  *)
(* not parse without counting it, and adds what it extracts to the         *)
(* worker's own total.                                                     *)
(*                                                                         *)
(* An extraction is a commutative sum over values, so it is modelled by    *)
(* the bag of the lines it was made from.                                  *)
(***************************************************************************)
EXTENDS Integers, Sequences, FiniteSets, Bags, Slicing, Lines

CONSTANTS
  Runs,               \* the calls: records [text, threads, slice_bytes, stat]
  DefaultSliceBytes,  \* the slice size of a call with slice_bytes = 0
  WordSize            \* size_t is arithmetic modulo WordSize

ASSUME RunSlicedAssumption ==
  /\ DefaultSliceBytes \in Nat \ {0}
  /\ WordSize \in Nat \ {0}
  /\ \A r \in Runs : /\ IsCorpus(r.text)
                     /\ r.threads \in Nat
                     /\ r.slice_bytes \in Nat
                     /\ r.stat \in BOOLEAN

-----------------------------------------------------------------------------
Wrap(n) == n % WordSize

Threads(r) == IF r.threads = 0 THEN 1 ELSE r.threads

Workers(r) == 0 .. Threads(r) - 1

SliceBytes(r) == IF r.slice_bytes = 0 THEN DefaultSliceBytes ELSE r.slice_bytes

Slices(r) == Wrap(r.text.length + SliceBytes(r) - 1) \div SliceBytes(r)

\* Where worker w's run of slices begins, and the one before it ends.
RunBound(r, w) == Wrap(Slices(r) * w) \div Threads(r)

\* Bug: the begin of a block is not snapped.
SliceFromRaw(r, raw) ==
  [begin |-> raw, end |-> Snap(r.text.length, r.text.lf, Wrap(raw + SliceBytes(r)))]

\* The slice of the block that begins at raw.
SliceFrom(r, raw) ==
  LET snap(want) == Snap(r.text.length, r.text.lf, want)
  IN [begin |-> IF raw = 0 THEN 0 ELSE snap(raw),
      end   |-> snap(Wrap(raw + SliceBytes(r)))]

\* What the code relies on: the counter of bytes stays below the size of a word
\* although every thread claims once past the end, and with runs of their own the
\* products of slices and threads do.
NothingWraps(r) ==
  IF r.stat
    THEN /\ r.text.length + SliceBytes(r) - 1 < WordSize
         /\ Slices(r) * Threads(r) < WordSize
    ELSE r.text.length - 1 + (Threads(r) + 1) * SliceBytes(r) < WordSize

CountersFit == \A r \in Runs : NothingWraps(r)

LinesOf(r, piece) == IF IsEmpty(piece) THEN {} ELSE LinesIn(r.text, piece.begin, piece.end)

\* The line for_each_line hands out next.
FirstLine(lines) == CHOOSE l \in lines : \A m \in lines : l.first <= m.first

\* What the serial driver of the same engine makes of the corpus.
Documents(r) ==
  {l \in LinesIn(r.text, 0, r.text.length) : ~ Malformed(r.text, l)}

Serial(r) == SetToBag(Documents(r))

-----------------------------------------------------------------------------
VARIABLES
  run,       \* the arguments of the call
  cursor,    \* the atomic counter of bytes
  pc,        \* of each worker: its thread is unborn, running or exited
  next,      \* of each worker: the next slice of its own run
  lines,     \* of each worker: the lines left in its slice
  shards,    \* of each worker: its extraction
  merged,    \* how many shards the caller has merged
  total      \* the caller's extraction

vars == <<run, cursor, pc, next, lines, shards, merged, total>>

Init ==
  /\ run \in Runs
  /\ cursor = 0
  /\ pc = [w \in Workers(run) |-> "unborn"]
  /\ next = [w \in Workers(run) |-> RunBound(run, w)]
  /\ lines = [w \in Workers(run) |-> {}]
  /\ shards = [w \in Workers(run) |-> EmptyBag]
  /\ merged = 0
  /\ total = EmptyBag

-----------------------------------------------------------------------------
\* The caller creates the threads in order.
Spawn(w) ==
  /\ pc[w] = "unborn"
  /\ \A v \in Workers(run) : v < w => pc[v] # "unborn"
  /\ pc' = [pc EXCEPT ![w] = "running"]
  /\ UNCHANGED <<run, cursor, next, lines, shards, merged, total>>

Idle(w) == pc[w] = "running" /\ lines[w] = {}

\* What a worker does with the block it has claimed: leave the loop when the
\* block begins past the end of the text, and otherwise go through its slice,
\* which is empty when the block lies inside one line.
Process(w, raw) ==
  \/ /\ raw >= run.text.length
     /\ pc' = [pc EXCEPT ![w] = "exited"]
     /\ UNCHANGED lines
  \/ /\ raw < run.text.length
     /\ lines' = [lines EXCEPT ![w] = LinesOf(run, SliceFrom(run, raw))]
     /\ UNCHANGED pc

\* Bug: a claim takes one byte less than the slice has.
ClaimSharedShort(w) ==
  /\ ~ run.stat
  /\ Idle(w)
  /\ Process(w, cursor)
  /\ cursor' = Wrap(cursor + SliceBytes(run) - 1)
  /\ UNCHANGED <<run, next, shards, merged, total>>

\* A claim from the shared counter (fetch_add).
ClaimShared(w) ==
  /\ ~ run.stat
  /\ Idle(w)
  /\ Process(w, cursor)
  /\ cursor' = Wrap(cursor + SliceBytes(run))
  /\ UNCHANGED <<run, next, shards, merged, total>>

\* A claim from the worker's own run of slices.
ClaimOwn(w) ==
  /\ run.stat
  /\ Idle(w)
  /\ next[w] < RunBound(run, w + 1)
  /\ Process(w, Wrap(next[w] * SliceBytes(run)))
  /\ next' = [next EXCEPT ![w] = @ + 1]
  /\ UNCHANGED <<run, cursor, shards, merged, total>>

FinishOwn(w) ==
  /\ run.stat
  /\ Idle(w)
  /\ next[w] >= RunBound(run, w + 1)
  /\ pc' = [pc EXCEPT ![w] = "exited"]
  /\ UNCHANGED <<run, cursor, next, lines, shards, merged, total>>

\* The next line of the worker's slice: its values are added to the worker's
\* extraction; one that does not parse, or does not fit the arena, is skipped.
ParseLine(w) ==
  /\ pc[w] = "running" /\ lines[w] # {}
  /\ LET l == FirstLine(lines[w])
     IN /\ lines' = [lines EXCEPT ![w] = @ \ {l}]
        /\ \/ /\ ~ Malformed(run.text, l)
              /\ Size(l) <= Longest(run.text)
              /\ shards' = [shards EXCEPT ![w] = @ (+) SetToBag({l})]
           \/ /\ Malformed(run.text, l) \/ Size(l) > Longest(run.text)
              /\ UNCHANGED shards
  /\ UNCHANGED <<run, cursor, pc, next, merged, total>>

\* Bug: only the first thread is joined.
JoinedFirstOnly == pc[0] = "exited"

Joined == \A w \in Workers(run) : pc[w] = "exited"

\* Once every thread is joined the workers' extractions are added up.
Merge ==
  /\ Joined
  /\ merged \in Workers(run)
  /\ total' = total (+) shards[merged]
  /\ merged' = merged + 1
  /\ UNCHANGED <<run, cursor, pc, next, lines, shards>>

Returned == merged = Threads(run)

-----------------------------------------------------------------------------
Worker(w) == ClaimShared(w) \/ ClaimOwn(w) \/ FinishOwn(w) \/ ParseLine(w)

Caller == (\E w \in Workers(run) : Spawn(w)) \/ Merge

Terminated == Returned /\ UNCHANGED vars

Next ==
  \/ Caller
  \/ \E w \in Workers(run) : Worker(w)
  \/ Terminated

Spec == Init /\ [][Next]_vars

\* Every thread the operating system has started is scheduled again and again.
WorkerIds == UNION {Workers(r) : r \in Runs}

FairSpec ==
  /\ Spec
  /\ WF_vars(Caller)
  /\ \A w \in WorkerIds : WF_vars(w \in Workers(run) /\ Worker(w))

-----------------------------------------------------------------------------
Extents(r) == [first : 0 .. r.text.length - 1, last : 0 .. r.text.length - 1]

TypeOK ==
  /\ cursor \in 0 .. WordSize - 1
  /\ pc \in [Workers(run) -> {"unborn", "running", "exited"}]
  /\ next \in [Workers(run) -> Nat]
  /\ lines \in [Workers(run) -> SUBSET Extents(run)]
  /\ DOMAIN shards = Workers(run)
  /\ \A w \in Workers(run) : IsABag(shards[w]) /\ BagToSet(shards[w]) \subseteq Extents(run)
  /\ merged \in 0 .. Threads(run)
  /\ IsABag(total) /\ BagToSet(total) \subseteq Extents(run)

\* Every line a worker is handed is a line of the corpus, whole: "no document is
\* split" (dom_parallel.h:4-6), and none gains or loses a blank.
WholeLines ==
  \A w \in Workers(run) : lines[w] \subseteq LinesIn(run.text, 0, run.text.length)

\* The slices abut (dom_parallel.h:4-6): no two workers go through the same
\* byte of a document, and none through a line twice.
SlicesAbut ==
  /\ \A w \in Workers(run) : \A l \in BagToSet(shards[w]) : shards[w][l] = 1
  /\ \A v, w \in Workers(run) : v # w =>
       \A l \in lines[v] \union BagToSet(shards[v]), m \in lines[w] \union BagToSet(shards[w]) :
         l.last < m.first \/ m.last < l.first

\* The arena of a worker, sized from a scan of the whole corpus, has room for each
\* line of each slice: none is skipped for want of memory, which would be silent.
ArenaSuffices ==
  \A w \in Workers(run) : \A l \in lines[w] : Size(l) <= Longest(run.text)

\* The parallel driver extracts what the serial one does, whatever the threads,
\* the slices and the order they are claimed in (dom_engine.h:8-12).
AgreesWithSerial == Returned => total = Serial(run)

\* Every call returns.
Returns == <>Returned
=============================================================================
