------------------------------ MODULE ParseMany ------------------------------
(***************************************************************************)
(* parse_many of src/parallel_stream.h: a stream of JSON documents parsed  *)
(* by a pool of workers.  The calling thread creates one thread per worker,*)
(* each worker claims slices of the text (from one atomic counter, or from *)
(* a run of slices of its own), opens a document stream over the slice and *)
(* extracts a value from every document into a vector of its own.  The     *)
(* caller joins the threads and adds up their errors.                      *)
(*                                                                         *)
(* A step of a worker is one claim with the opening of the slice's stream, *)
(* or one document: between two claims a worker touches nothing another    *)
(* thread writes, so the steps of the code in between need not be split.   *)
(* The value extracted from a document is modelled by the document itself. *)
(***************************************************************************)
EXTENDS Integers, Sequences, FiniteSets, Functions, FiniteSetsExt, Slicing

CONSTANTS
  Calls,                \* the calls: records [json, opt]
  HardwareConcurrency,  \* what std::thread::hardware_concurrency() returns
  DefaultSliceBytes,    \* the slice size a call with slice_bytes = 0 gets
  WordSize,             \* size_t is arithmetic modulo WordSize
  SUCCESS,              \* error_code: no error
  ErrorCodes,           \* the other values of error_code
  StreamErrors          \* those with which iterate_many can fail

ASSUME ConfigAssumption ==
  /\ HardwareConcurrency \in Nat
  /\ DefaultSliceBytes \in Nat \ {0}
  /\ WordSize \in Nat \ {0}
  /\ SUCCESS \notin ErrorCodes
  /\ StreamErrors \subseteq ErrorCodes

Documents(length) ==
  [first : 0 .. length - 1, last : 0 .. length - 1, code : ErrorCodes \union {SUCCESS}]

Formats == {"whitespace_delimited", "json_sequence", "newline_delimited",
            "comma_delimited"}

\* A text (its length, where its line feeds, its record separators and its
\* documents are) and the options of a call.  Documents do not overlap.
IsText(json) ==
  /\ json.length \in Nat
  /\ json.lf \in SUBSET (0 .. json.length - 1)
  /\ json.rs \in SUBSET (0 .. json.length - 1)
  /\ json.docs \in SUBSET Documents(json.length)
  /\ \A d \in json.docs : d.first <= d.last
  /\ \A d, e \in json.docs : d = e \/ d.last < e.first \/ e.last < d.first

IsOptions(opt) ==
  /\ opt.threads \in Nat
  /\ opt.slice_bytes \in Nat
  /\ opt.format \in Formats
  /\ opt.static_partition \in BOOLEAN

ASSUME CallsAssumption == \A c \in Calls : IsText(c.json) /\ IsOptions(c.opt)

-----------------------------------------------------------------------------
Wrap(n) == n % WordSize

splittable(format) ==
  format \in {"whitespace_delimited", "json_sequence", "newline_delimited"}

\* Bug: a slice may end at a line feed, whatever the format.
DelimitersLineFeeds(json, format) == json.lf

\* delimiter_for: the positions of the byte a slice may end at.
delimiters_for(json, format) ==
  IF format = "json_sequence" THEN json.rs ELSE json.lf

WorkerCount(c) ==
  IF ~ splittable(c.opt.format) THEN 1
  ELSE IF c.opt.threads # 0 THEN c.opt.threads
  ELSE IF HardwareConcurrency > 1 THEN HardwareConcurrency ELSE 1

Workers(c) == 0 .. WorkerCount(c) - 1

SliceBytes(c) ==
  IF c.opt.slice_bytes # 0 THEN c.opt.slice_bytes ELSE DefaultSliceBytes

\* Bug: the length is not rounded up to whole slices.
SliceCountFloor(c) == c.json.length \div SliceBytes(c)

SliceCount(c) ==
  Wrap(c.json.length + SliceBytes(c) - 1) \div SliceBytes(c)

\* Bug: every run starts one slice early, the first one before the text.
StaticBoundEarly(c, w) == Wrap(SliceCount(c) * w) \div WorkerCount(c) - 1

\* Where worker w's run of slices begins, and the one before it ends.
StaticBound(c, w) == Wrap(SliceCount(c) * w) \div WorkerCount(c)

Piece(c, i) ==
  SliceAt(c.json.length, delimiters_for(c.json, c.opt.format), SliceBytes(c), i)

DocsOf(c, i) ==
  IF IsEmpty(Piece(c, i)) THEN {} ELSE DocsIn(c.json.docs, Piece(c, i))

\* The document a stream yields next.
FirstOf(docs) == CHOOSE d \in docs : \A e \in docs : d.first <= e.first

\* `slices * workers` does not overflow, which no text in memory could make it.
ASSUME StaticFitsAssumption ==
  \A c \in Calls : c.opt.static_partition => SliceCount(c) * WorkerCount(c) < WordSize

-----------------------------------------------------------------------------
VARIABLES
  call,      \* the arguments of the call
  cursor,    \* the atomic counter of slice indices
  pc,        \* of each worker: its thread is unborn, running or exited
  next,      \* of each worker: the next slice of its own run
  todo,      \* of each worker: the documents left in its open stream
  shards,    \* of each worker: what it has extracted, in order
  errors,    \* of each worker: how many errors it has met
  first,     \* of each worker: the first of them
  merged,    \* how many workers' errors the caller has added up
  out,       \* the result, and whether the call has returned it
  dropped    \* history: the documents given up with an error

vars == <<call, cursor, pc, next, todo, shards, errors, first, merged, out, dropped>>

EmptyResult == [returned |-> FALSE, errors |-> 0, first_error |-> SUCCESS]

Init ==
  /\ call \in Calls
  /\ cursor = 0
  /\ pc = [w \in Workers(call) |-> "unborn"]
  /\ next = [w \in Workers(call) |-> StaticBound(call, w)]
  /\ todo = [w \in Workers(call) |-> {}]
  /\ shards = [w \in Workers(call) |-> <<>>]
  /\ errors = [w \in Workers(call) |-> 0]
  /\ first = [w \in Workers(call) |-> SUCCESS]
  /\ merged = 0
  /\ out = EmptyResult
  /\ dropped = {}

-----------------------------------------------------------------------------
\* The caller creates the threads in order; `next` already holds what the
\* thread computes from its captured arguments when it starts.
Spawn(w) ==
  /\ pc[w] = "unborn"
  /\ \A v \in Workers(call) : v < w => pc[v] # "unborn"
  /\ pc' = [pc EXCEPT ![w] = "running"]
  /\ UNCHANGED <<call, cursor, next, todo, shards, errors, first, merged, out, dropped>>

\* Bug: a later error overwrites the first.
RecordLastError(w, e) ==
  /\ errors' = [errors EXCEPT ![w] = @ + 1]
  /\ first' = [first EXCEPT ![w] = e]

RecordError(w, e) ==
  /\ errors' = [errors EXCEPT ![w] = @ + 1]
  /\ first' = [first EXCEPT ![w] = IF @ = SUCCESS THEN e ELSE @]

Idle(w) == pc[w] = "running" /\ todo[w] = {}

PastTheEnd(i) == Wrap(i * SliceBytes(call)) >= call.json.length

\* Bug: a slice that cannot be opened is skipped as if it were empty.
ProcessIgnoringOpenErrors(w, i) ==
  /\ pc' = [pc EXCEPT ![w] = IF PastTheEnd(i) THEN "exited" ELSE @]
  /\ \/ /\ todo' = [todo EXCEPT ![w] = IF PastTheEnd(i) THEN {} ELSE DocsOf(call, i)]
        /\ UNCHANGED dropped
     \/ /\ ~ PastTheEnd(i) /\ StreamErrors # {}
        /\ dropped' = dropped \union DocsOf(call, i)
        /\ UNCHANGED todo
  /\ UNCHANGED <<errors, first>>

\* What a worker does with the slice it has claimed: leave the loop when the
\* slice begins past the end of the text, skip it when it is empty, and
\* otherwise open a document stream over it, which may fail.
Process(w, i) ==
  \/ /\ PastTheEnd(i)
     /\ pc' = [pc EXCEPT ![w] = "exited"]
     /\ UNCHANGED <<todo, errors, first, dropped>>
  \/ /\ ~ PastTheEnd(i)
     /\ IsEmpty(Piece(call, i))
     /\ UNCHANGED <<pc, todo, errors, first, dropped>>
  \/ /\ ~ PastTheEnd(i)
     /\ ~ IsEmpty(Piece(call, i))
     /\ todo' = [todo EXCEPT ![w] = DocsOf(call, i)]
     /\ UNCHANGED <<pc, errors, first, dropped>>
  \/ /\ ~ PastTheEnd(i)
     /\ ~ IsEmpty(Piece(call, i))
     /\ \E e \in StreamErrors : RecordError(w, e)
     /\ dropped' = dropped \union DocsOf(call, i)
     /\ UNCHANGED <<pc, todo>>

\* Bug: the counter is read and written in two steps a thread can get between,
\* so that a claim may hand out a slice a second time.
ClaimSharedTorn(w) ==
  /\ ~ call.opt.static_partition
  /\ Idle(w)
  /\ Process(w, cursor)
  /\ cursor' \in {cursor, cursor + 1}
  /\ UNCHANGED <<call, next, shards, merged, out>>

\* A claim from the shared counter (fetch_add).
ClaimShared(w) ==
  /\ ~ call.opt.static_partition
  /\ Idle(w)
  /\ Process(w, cursor)
  /\ cursor' = cursor + 1
  /\ UNCHANGED <<call, next, shards, merged, out>>

\* Bug: a run includes the slice the next one begins with.
ClaimOwnOneMore(w) ==
  /\ call.opt.static_partition
  /\ Idle(w)
  /\ next[w] <= StaticBound(call, w + 1)
  /\ Process(w, next[w])
  /\ next' = [next EXCEPT ![w] = @ + 1]
  /\ UNCHANGED <<call, cursor, shards, merged, out>>

\* A claim from the worker's own run of slices.
ClaimOwn(w) ==
  /\ call.opt.static_partition
  /\ Idle(w)
  /\ next[w] < StaticBound(call, w + 1)
  /\ Process(w, next[w])
  /\ next' = [next EXCEPT ![w] = @ + 1]
  /\ UNCHANGED <<call, cursor, shards, merged, out>>

FinishOwn(w) ==
  /\ call.opt.static_partition
  /\ Idle(w)
  /\ next[w] >= StaticBound(call, w + 1)
  /\ pc' = [pc EXCEPT ![w] = "exited"]
  /\ UNCHANGED <<call, cursor, next, todo, shards, errors, first, merged, out, dropped>>

\* Bug: the first error ends the slice.
ExtractUntilError(w) ==
  /\ pc[w] = "running" /\ todo[w] # {}
  /\ LET d == FirstOf(todo[w])
     IN IF d.code = SUCCESS
          THEN /\ shards' = [shards EXCEPT ![w] = Append(@, d)]
               /\ todo' = [todo EXCEPT ![w] = @ \ {d}]
               /\ UNCHANGED <<errors, first, dropped>>
          ELSE /\ RecordError(w, d.code)
               /\ dropped' = dropped \union todo[w]
               /\ todo' = [todo EXCEPT ![w] = {}]
               /\ UNCHANGED shards
  /\ UNCHANGED <<call, cursor, pc, next, merged, out>>

\* Bug: the stream does not move on from a document that fails.
ExtractStaysOnError(w) ==
  /\ pc[w] = "running" /\ todo[w] # {}
  /\ LET d == FirstOf(todo[w])
     IN IF d.code = SUCCESS
          THEN /\ shards' = [shards EXCEPT ![w] = Append(@, d)]
               /\ todo' = [todo EXCEPT ![w] = @ \ {d}]
               /\ UNCHANGED <<errors, first, dropped>>
          ELSE UNCHANGED <<todo, shards, errors, first, dropped>>
  /\ UNCHANGED <<call, cursor, pc, next, merged, out>>

\* The next document of the worker's stream: its value is kept, or its error
\* counted and the document skipped.
Extract(w) ==
  /\ pc[w] = "running" /\ todo[w] # {}
  /\ LET d == FirstOf(todo[w])
     IN /\ todo' = [todo EXCEPT ![w] = @ \ {d}]
        /\ \/ /\ d.code = SUCCESS
              /\ shards' = [shards EXCEPT ![w] = Append(@, d)]
              /\ UNCHANGED <<errors, first, dropped>>
           \/ /\ d.code # SUCCESS
              /\ RecordError(w, d.code)
              /\ dropped' = dropped \union {d}
              /\ UNCHANGED shards
  /\ UNCHANGED <<call, cursor, pc, next, merged, out>>

\* Bug: only the first thread is joined.
JoinedFirstOnly == pc[0] = "exited"

Joined == \A w \in Workers(call) : pc[w] = "exited"

\* Bug: the last worker's error is returned, if it met one.
MergeLastError ==
  /\ Joined
  /\ merged \in Workers(call)
  /\ out' = [out EXCEPT !.errors = @ + errors[merged], !.first_error = first[merged]]
  /\ merged' = merged + 1
  /\ UNCHANGED <<call, cursor, pc, next, todo, shards, errors, first, dropped>>

\* Once every thread is joined the workers' errors are added up in order; the
\* first error is that of the lowest worker that met one.
Merge ==
  /\ Joined
  /\ merged \in Workers(call)
  /\ out' = [out EXCEPT !.errors = @ + errors[merged],
                        !.first_error = IF @ = SUCCESS THEN first[merged] ELSE @]
  /\ merged' = merged + 1
  /\ UNCHANGED <<call, cursor, pc, next, todo, shards, errors, first, dropped>>

Return ==
  /\ Joined
  /\ merged \notin Workers(call)
  /\ ~ out.returned
  /\ out' = [out EXCEPT !.returned = TRUE]
  /\ UNCHANGED <<call, cursor, pc, next, todo, shards, errors, first, merged, dropped>>

-----------------------------------------------------------------------------
Worker(w) == ClaimShared(w) \/ ClaimOwn(w) \/ FinishOwn(w) \/ Extract(w)

Caller == (\E w \in Workers(call) : Spawn(w)) \/ Merge \/ Return

\* The call has returned: nothing is left to do.
Terminated == out.returned /\ UNCHANGED vars

Next ==
  \/ Caller
  \/ \E w \in Workers(call) : Worker(w)
  \/ Terminated

Spec == Init /\ [][Next]_vars

\* Every thread the operating system has started is scheduled again and again.
WorkerIds == UNION {Workers(c) : c \in Calls}

FairSpec ==
  /\ Spec
  /\ WF_vars(Caller)
  /\ \A w \in WorkerIds : WF_vars(w \in Workers(call) /\ Worker(w))

-----------------------------------------------------------------------------
Kept == UNION {Range(shards[w]) : w \in Workers(call)}

\* What has gone through worker w, or is going through it.
Mine(w) == todo[w] \union Range(shards[w])

TypeOK ==
  /\ cursor \in Nat
  /\ pc \in [Workers(call) -> {"unborn", "running", "exited"}]
  /\ next \in [Workers(call) -> Nat]
  /\ todo \in [Workers(call) -> SUBSET call.json.docs]
  /\ shards \in [Workers(call) -> Seq(call.json.docs)]
  /\ errors \in [Workers(call) -> Nat]
  /\ first \in [Workers(call) -> ErrorCodes \union {SUCCESS}]
  /\ merged \in 0 .. WorkerCount(call)
  /\ out \in [returned : BOOLEAN, errors : Nat, first_error : ErrorCodes \union {SUCCESS}]
  /\ dropped \in SUBSET call.json.docs

\* Slices "never split a document" (parallel_stream.h:10-12): no slice a worker
\* can claim begins or ends inside one.
NeverSplitsADocument ==
  \A i \in 0 .. call.json.length + WorkerCount(call), d \in call.json.docs :
    ~ Splits(Piece(call, i), d)

\* No document goes through two workers, or twice through one, however their
\* claims interleave; and none is both kept and given up.
EachDocumentOnce ==
  /\ \A w \in Workers(call) :
       /\ \A m, n \in 1 .. Len(shards[w]) : shards[w][m] = shards[w][n] => m = n
       /\ Range(shards[w]) \intersect todo[w] = {}
       /\ Mine(w) \intersect dropped = {}
  /\ \A v, w \in Workers(call) : v # w => Mine(v) \intersect Mine(w) = {}

\* "Values keep their order within a shard" (parallel_stream.h:13-15), though
\* a shard is put together from slices claimed at any time.
OrderWithinShard ==
  \A w \in Workers(call) :
    /\ \A m, n \in 1 .. Len(shards[w]) : m < n => shards[w][m].last < shards[w][n].first
    /\ \A n \in 1 .. Len(shards[w]), d \in todo[w] : shards[w][n].last < d.first

\* Under static partitioning the shards are runs of the input, in its order.
StaticShardsAreRuns ==
  call.opt.static_partition =>
    \A v, w \in Workers(call) : v < w =>
      \A d \in Mine(v), e \in Mine(w) : d.last < e.first

\* A call that returns has gone through every document of the stream, "extract a
\* value from every document" (parallel_stream.h:111): what is not in a shard was
\* given up with an error, and every document that fails was.
NothingIsLost ==
  out.returned =>
    /\ call.json.docs = Kept \union dropped
    /\ {d \in call.json.docs : d.code # SUCCESS} \subseteq dropped

\* A document is given up only if the caller is told of an error, and an error is
\* named exactly when one is counted.
LossIsReported ==
  out.returned =>
    /\ out.errors = 0 => dropped = {}
    /\ out.first_error = SUCCESS <=> out.errors = 0

\* "Errors are counted, not fatal" (parallel_stream.h:113-114): when every slice
\* can be opened, one error per document given up, in every state.
ErrorsAreCounted ==
  StreamErrors = {} => SumFunction(errors) = Cardinality(dropped)

\* Under static partitioning the error the caller is given is the earliest of
\* the input, although the workers meet theirs in any order.
StaticFirstErrorIsEarliest ==
  out.returned /\ call.opt.static_partition /\ dropped # {} =>
    out.first_error = FirstOf(dropped).code

\* The join is a barrier: the result no longer changes once it is returned.
ResultIsFinal == [][out.returned => UNCHANGED <<shards, errors, out>>]_vars

\* Every call returns.
Returns == <>out.returned

Exact == INSTANCE ExactlyOnce WITH
  Streams  <- {c.json.docs : c \in Calls},
  pending  <- call.json.docs \ (dropped \union UNION {Mine(w) : w \in Workers(call)}),
  taken    <- UNION {todo[w] : w \in Workers(call)},
  kept     <- Kept,
  dropped  <- dropped,
  returned <- out.returned

\* parse_many goes through a stream exactly once.
ImplementsExactlyOnce == Exact!Spec
=============================================================================
