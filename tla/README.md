# A TLA+ model of jsonstreambench

jsonstreambench measures how fast JSON engines go through a stream of documents:
simdjson, Pison and four DOM parsers, with one thread and with many. Its numbers
are worth something only if the parallel drivers do the work of the serial ones
(no document lost, none read twice), if the buffers the engines read are those
the loaders wrote, if the engines answer the same query, and if what is printed was
checked before. These modules say so of the code in `src/`, TLC checks it on small
instances, and TLAPS proves the heart of it for every value of the parameters:
`parse_many` and `run_sliced`, the two halves of the Pison pipeline, the discipline of
Pison's queries, the allocator, and what the programs report.

Paths such as `parallel_stream.h:143` are relative to the repository's `src/`
directory (or to its root, for `datasets.sh`, `README.md` and `cujson_baseline/`).

## 1. Inventory

| Component | Code | State | Operations |
|---|---|---|---|
| slicing rule | `parallel_stream.h:71-108`, `dom_parallel.h:23-33` | none | `slice_at`, `snap` |
| `parse_many` | `parallel_stream.h:110-186` | atomic counter; per worker a run of slices, a stream, a shard, errors | create threads, claim, open a stream, extract, join, merge |
| `run_sliced`, DOM workers | `dom_parallel.h`, `dom_queries.h`, `*_engine.cpp` | atomic counter of bytes; per worker a parser with its arena, an extraction | claim, walk the lines, join, merge |
| corpus scan | `dom_engine.cpp`, `main.cpp:225-231, 456-462` | sums over the lines | `scan_corpus`, `derive_slice_kib`, the batch |
| loaders | `loaders.h` | a padded buffer and a record table, written by all threads | scan, prefix sums, fill |
| Pison engine | `pison_engine.cpp` | atomic counter of records; per thread an extraction, a cursor into the record | `run_stream`, `run_single_record`, the queries, `feed_decoded` |
| simdjson engine | `simdjson_engine.cpp` | none across calls | the queries, serial runs, one document, `run_parallel` |
| queries, extraction | `common.h`, `queries.cpp` | count, hash, bytes | `feed`, `normalize`, merge, `query_levels`, `bulky_array` |
| benchmark program | `main.cpp` | options, `agree`, RESULT lines, exit status | the sections, in order |
| metrics | `metrics.h` | clocks and counters | best of some repetitions |
| cuJSON baseline | `cujson_baseline.cpp` | a table of memory blocks, the allocation mode | `allocate`, `release`, `run<>` |
| GitHub Archive query | `github_archive.cpp` | a reference extraction | measure, compare, report |
| corpus acquisition | `datasets.sh`, `tools/make_ndjson.cpp` | the files on disk | download, retry, derive, validate |

How they interact. `main` reads a corpus and scans it once; the longest line
sizes the arenas of the DOM workers. It runs each engine over the same bytes,
compares the extractions, and then times them. `parse_many` is used by simdjson's
`run_parallel` and by `github_archive.cpp`, `run_sliced` by the DOM engines,
`fast_loader` followed by `run_stream` by Pison. Threads share one atomic counter
per call, or nothing, and otherwise only write what is theirs; the join is the
only other synchronisation. The scripts leave files to later runs of themselves.

What is hard, component by component, and the property that makes it correct:

- *Slicing.* Both ends of a block are snapped by separate calls: slices must abut,
  and lose and repeat nothing at an edge.
- *parse_many.* Claims interleave in any order; slices are empty, fail to open, or
  hold documents that fail; sizes come from the caller and may wrap. Each document
  goes through one worker once, in order within its shard; what is given up is told;
  the call returns.
- *run_sliced.* The same with a counter of bytes, lines in place of a stream, and
  an arena that silently drops what does not fit. The result is that of the serial
  driver.
- *Loaders.* Threads fill one buffer and one table without a lock, at places the
  caller has summed up from padded lengths. No byte is written twice or outside,
  and the layout is that of the serial loader.
- *run_stream.* Chunks of the table, the last one short, and records of which no
  index can be built. The result is that of the stream.
- *The queries.* Pison's move one cursor through nested loops with `continue`s: each
  `down` needs its `up` on every path, at most as deep as the levels that were built.
  simdjson's iterate, the DOM ones look up, and all must feed the same values, though
  the texts they start from differ in blanks, commas, quotes and escapes.
- *main.* A sequence of optional sections, two of which decide about the rest. An
  exit status of 0 must mean something.
- *The allocator.* Blocks are kept from one configuration to the next. A warm pool
  must serve a parser from what it has.
- *The scripts.* They may die anywhere and be run again on what is there.

`PROJECT.json` lists each hazard with its line and the properties that cover it,
and says why where none does.

## 2. Modules

| Module | Models | Built on |
|---|---|---|
| `Slicing` | `slice_at`; what it means to split a document | |
| `ExactlyOnce` | abstract: what a parallel driver promises of a stream | |
| `ParseMany` | `parse_many` | `Slicing`, refines `ExactlyOnce` |
| `ParseManyInvariant` | its inductive invariant | `ParseMany` |
| `RunParallel` | `run_parallel`: `parse_many` and the sum of its shards | `ParseMany` |
| `SlicingProofs` | what is proved of slices; facts about quotients and sums | `Slicing` |
| `ParseManyProofs` | what is proved of `parse_many` and `run_parallel` | `ParseManyInvariant`, `RunParallel`, `SlicingProofs` |
| `JsonTree` | JSON values, and the lookups the parsers offer | |
| `Extraction` | what is fed for a token: `normalize`, `take`, `feed_decoded` | |
| `Queries` | `queries.cpp`: levels, the array of a bulky record | `JsonTree` |
| `DomQueries` | `dom_queries.h` | `JsonTree` |
| `OnDemandQueries` | the queries of `simdjson_engine.cpp` | `Queries` |
| `PisonQueries`, `PisonQueriesProofs` | the queries of `pison_engine.cpp`, `run_single_record`, `prepare_bulky` | `Queries`, `Extraction`, instances of the two above |
| `Lines` | `for_each_line`, `scan_corpus` | |
| `RunSliced`, `RunSlicedProofs` | `run_sliced` with its workers | `Slicing`, `Lines`, `SlicingProofs` |
| `FastLoader` | `fast_loader`; `reference_loader` as an operator | |
| `RunStream` | `run_stream` | |
| `PisonPipeline` | the loader, then the query on what it wrote | `FastLoader`, instance of `RunStream` |
| `PisonPipelineProofs` | what is proved of the loader, the query and the two together | `PisonPipeline`, `SlicingProofs` |
| `Benchmark`, `BenchmarkProofs` | `main` of `main.cpp` | |
| `Allocator`, `AllocatorProofs` | the operators new and delete of `cujson_baseline.cpp`, under `run<>` | |
| `GithubArchive` | `main` of `github_archive.cpp` | |
| `Datasets` | `datasets.sh` and what `make_ndjson` leaves behind | |
| `ArchiveProofs` | what is proved of the last two | `GithubArchive`, `Datasets` |

`MC*` modules make the instances. Operators with a comment that begins with *Bug:*
are mutants of the operator that follows: plausible mistakes, each of which makes
a property fail. They are used in no specification. The map from definitions to
lines is in `PROJECT.json`.

### How state and actions correspond to the code

**A text** is abstracted to what is looked at: its length, the positions of its
delimiters, and its documents with the error their extraction reports. A value is
modelled by the document it was extracted from, and an extraction (a commutative
sum) by the bag of what went into it.

**ParseMany.** `cursor` is the atomic counter, `next[w]` the loop variable of a
static run, `todo[w]` the documents left in the worker's open stream, `shards`,
`errors` and `first` the vectors of the same names, `out` the result. One action is
one claim, with the end test, the slice and the opening of its stream
(`ClaimShared`, `ClaimOwn`, `FinishOwn`), one document (`Extract`), one thread
created (`Spawn`), one worker's errors added (`Merge`). Between two claims a worker
touches only what is its own, so the steps in between need not be split: the
interleavings left out differ in nothing another thread can see. Sizes wrap modulo
`WordSize` where the code multiplies and adds sizes of the caller
(`Wrap` in `PastTheEnd`, `SliceCount`, `StaticBound`). `slice_at` itself has no
`Wrap`: behind its guard the index is at most `length / block`, so its sum is below
twice the length of a text that is in memory. The counter is not bounded: it counts slices and would need
2^64 claims. `dropped` is a history variable: the documents given up. Documents
that a slice cuts in two are in no stream; `NeverSplitsADocument` is about them.

**RunParallel.** The loop over the shards adds what is in each; `ParallelTotal` is its
result, and `SerialTotal` that of `run_serial_format`, document by document.

**The queries.** A record is a tree (`JsonTree`), a place in it the path from the root.
The on-demand and DOM queries are sequential and keep nothing, so they are operators:
the set of places whose values are fed. A simdjson query may fail, and keeps what it
took before; `SerialRecord`, `run_single_document` and `run_bulky_document` are their
callers. Pison's queries keep a cursor, so they are a state machine: `Code` gives each
query as the list of the calls it makes, each with the places to go on at when it
succeeds and when it does not, `stack` is the cursor, one position for each level it
is in, and an action is one call (`MoveToKey`, `MoveNext`, `GoDown`, `GoUp`,
`TakeValue`). What a call does to the cursor is Pison's code and external: it moves
forward only, and may take an empty container for none. `Item` and `ItemDown` are the
loop of `run_single_record` around the query. `out` collects the texts, with the
blanks and the comma that `getValue()` leaves on them, and `Fed` what `take` makes of
these. `Text` and `Layout` are what `prepare_bulky` makes of the input.

**Extraction.** A text is a sequence of bytes. A hash is modelled by the value that is
hashed, and numbers, which the engines print again in one format, by a text without
a fraction of zeros.

**RunSliced.** As above, but the counter counts bytes and wraps, and the slice is
walked line by line: `lines[w]` is what is left of it. A line that does not parse
or does not fit is skipped, in one of two disjuncts of `ParseLine`. `total` is what
`Merge` has added up.

**PisonPipeline.** `found`, `chunk_start` and `index_start` are the arrays of
`fast_loader`; `Scan` is a thread of the first phase, `Plan` what the caller does
between the phases, `Fill` one record of a thread of the second, which writes the
bytes and then the entry. A byte of the buffer is the position of the byte of the
stream copied there, or the filler, so a wrong place shows as a wrong value.
A chunk's records are those of its lines that are longer than five bytes when trimmed
(`RecordBegins`), in the order of the chunk (`Ith`). `RunStream` is instantiated with
the buffer and the table of the loader. The query starts when the loader's threads are
joined.

**Benchmark, GithubArchive.** The programs are sequential. What the engines compute
is unknown to them, so it is chosen: in the initial state (`world`) for `main`,
run by run for `github_archive`, whose runs are concurrent inside. Actions are the
sections, the steps of their loops and the exits.

**Allocator.** `table` is `g_blocks`, `held` says where each buffer of the parser
is. The order in which a parser asks for its buffers, and which of them it gets
before the first timed run, are open. `mapped` counts the mappings of a run.

**Datasets.** A file is absent, empty, whole, or a part: not empty, and not what it should
be. Each command is an action with its failures, `Kill` may come between any two, and
`RunAgain` starts over on the same disk. `Attempt` is one `gdown`: when it exits with 0
whatever is there is taken unless it is empty, as the script compares no size (:119-120);
when it fails, `Remove` is the `rm` that follows, so a kill may come in between. `fetched`
and `cut` are history variables: whose record a `gdown` that succeeded has left, and at
whose a run was killed.

## 3. Runs

Deadlock is checked in every run; a finished program stutters by a disjunct of its
own.

| Run | Question | Bounds |
|---|---|---|
| `parse_many` | does a call return, having gone through each document once and in order, and told what it gave up; does it implement `ExactlyOnce`; is the total of `run_parallel` that of the serial run | texts of up to 4 bytes, NDJSON and record separators, 1 to 3 workers, slices of 1, 2 and 8 bytes, word size 16, both ways to claim, streams that fail |
| `parse_many_errors` | where errors go; is the invariant of the proofs one | up to 5 bytes, two kinds of failing documents, whitespace and comma formats, slices of 1 to 3 bytes |
| `run_sliced` | is the parallel extraction the serial one, from whole lines that fit the arena | up to 4 bytes with blanks and malformed ones, up to 3 workers, slices of 1 to 3 bytes, both ways to claim, word size 16 |
| `pison_pipeline` | does the loader write what the serial one does, each byte once, and the query read it all once and return | up to 6 bytes with line feeds and carriage returns, up to 3 threads in each half, blocks of 2 bytes, chunks of 2 records |
| `queries` | is Pison's cursor balanced and deep enough, does every query return, do the three ways to ask feed the same values | records along each query's path (below), 13 characters and escapes in pairs, two layouts, bulky records of up to three elements |
| `benchmark` | is nothing timed that disagrees, and does the exit status tell | all sections and switches, two DOM libraries, every kind of disagreement |
| `benchmark_verify` | *fails*: does `--verify` always verify | `--verify` with every list of sections |
| `allocator` | are blocks never shared, does a warm pool map nothing, does the table suffice | two configurations of up to three buffers of four sizes, two timed runs, a table of 6 |
| `github_archive` | does all that is reported agree | any extraction in any run, up to 3 thread counts, two timed runs |
| `github_archive_fails` | *fails*: does the program fail when a configuration does | the same, one thread count |
| `datasets` | is no whole file lost; has a run that ends well skipped no dataset, and taken no record that a failed attempt left (unless a run was killed at it) | two datasets, two attempts, three runs of the script |
| `datasets_ready` | *fails*: does "corpus ready" mean that OpenAlex is whole | the same |

Why the bounds are enough. The drivers treat every slice alike, and what can go
wrong lies at an edge between two of them: a text of four bytes with blocks of one
and two has blocks that begin at, before and after a delimiter, blocks inside one
document, blocks past the last delimiter, and up to four slices for three workers;
five bytes have three documents, two of which fail in different workers. Workers
are alike but for their number, and a third is needed for a claim in between two.
The word size of 16 with a block of 8 makes `i * slice_bytes` wrap to 0 at the third
claim. `run_sliced` has the smallest word that all its calls fit, so that a claim more would
wrap. Three records, chunks of two and three threads give a short last chunk and
threads without one; blocks of two bytes give a record that fills its blocks, and
so needs one more. For the queries the records are made along each path: at every level the value is a
scalar, a container of the other kind, an empty one, one that lacks what is looked
for, a complete one behind another key or element, or an incomplete one before a
complete one, which is what each `continue` needs to go wrong. NSPL rows have 0, 8, 9, 10
and 11 elements, about the indices 8 and 9; BestBuy paths up to four. Keys are repeated
or cannot be read in some. Tokens have each kind of escape, and code points at the
edges of one, two and three bytes. Bulky records have their array behind another key,
with carriage returns between tokens, or a scalar in its place.
For the allocator two configurations and four sizes give a pool
with blocks larger, smaller and equal to what the next parser asks for. For the
script two datasets and three runs give a failure of one, a resumption, and a
failure of that. `MaxRuns` is the only bound in a guard; everything else bounds the
inputs.

The runs that fail each check one statement of the repository that the code does
not keep:

- `benchmark_verify`: `README.md:35` says that `--verify` checks that the engines
  agree and exits. With a `--sections` list without `verify` it compares nothing and
  exits with 0, the initial value of `agree` (`main.cpp:463`).
- `github_archive_fails`: `cujson_baseline/README.md:60-61` says that every
  configuration must agree or the program fails. The two `lines/` configurations are
  only printed (`github_archive.cpp:242`).
- `datasets_ready`: `datasets.sh:178` says that the corpus is ready. `curl` writes to
  the final name, and a part it leaves when it fails, or when the script is killed, is
  taken for the file by the next run (:42).

**Fairness.** `FairSpec` of `ParseMany` and `RunSliced`, and `PipelineSpec`, assume
weak fairness of the calling thread and of each thread by itself: a thread the
operating system has started, and that can run, runs again at some time. There is
no lock a thread could be kept from, and the atomic increment does not fail. A
caller that waits in `join` is not enabled until the threads have exited. Nothing
is assumed about which thread gets the next slice. In the pipeline only the caller
and the query's threads are given fairness, and the property begins when the
stream is loaded; the loader has no loop but those over its records. `FairSpec` of
`PisonQueries` says that a sequential function that can go on does. The other modules
state no liveness.

## 4. Proofs

What is proved of `ParseMany` is for every set of calls, number of workers, slice
size, word size and set of errors. Assumptions on the constants are those named in
`ParseMany` (`ConfigAssumption`, `CallsAssumption`, `StaticFitsAssumption`): sizes
are numbers, documents of a text do not overlap, and the product of slices and
workers of a static call fits a word.

| Theorem | Says | Under |
|---|---|---|
| `SlicesNeverSplit` | no slice begins or ends inside a document | the document is free of the delimiter |
| `EveryDocumentInASlice` | some block's slice contains it | the same |
| `TypeCorrect` | `TypeOK` | |
| `ExtractedOnce` | `EachDocumentOnce` | |
| `ShardsInOrder` | `OrderWithinShard` | |
| `StaticRuns` | `StaticShardsAreRuns` | |
| `NoDocumentSplit` | `NeverSplitsADocument` | `DelimiterFreeCalls` |
| `LossReported` | `LossIsReported` | |
| `NothingLost` | `NothingIsLost` | `DelimiterFreeCalls`, `SlicesCountable` |
| `Implementation` | `ImplementsExactlyOnce` | the same |
| `EarliestErrorNamed` | `StaticFirstErrorIsEarliest` | every slice can be opened (`StreamErrors = {}`) |
| `EachLossCounted` | `ErrorsAreCounted` | |
| `ReturnedIsFinal` | `ResultIsFinal` | |
| `Invariant` | `IInv`, the inductive invariant TLC checks | |
| `ParallelReproducesSerial` | `ParallelAgrees` of `RunParallel` | `DelimiterFreeCalls`, `SlicesCountable` |
| `TypeCorrect`, `OnlyWholeLines`, `ArenaFitsAll` | `TypeOK`, `WholeLines`, `ArenaSuffices` of `RunSliced` | |
| `EachLineIsOneWorkers` | `SlicesAbut` of `RunSliced` | `CountersFit` |
| `SlicedReproducesSerial` | `AgreesWithSerial` of `RunSliced` | `CountersFit` |
| `SlicedInvariant` | the inductive invariant of the last two | `CountersFit` |
| `ThreadsWriteOnce`, `ParallelIsSerial` | `WriteOnce`, `SameAsReference` of `FastLoader` | |
| `LayoutForPison` | `PisonLayout` of `FastLoader` | `LengthsFit` |
| `PipelineTypeCorrect` | `PipelineTypeOK` of `PisonPipeline` | |
| `QueriesEachRecordOnce` | `QueriesTheStream` of `PisonPipeline` | `LengthsFit` |
| `TypeCorrect`, `BuffersNeverShare`, `WarmPool` | `TypeOK`, `BuffersApart`, `WarmPoolMapsNothing` of `Allocator` | |
| `TableNeverFull` | `TableSuffices` of `Allocator` | `TableFits` |
| `CursorBalanced` | `Balanced` of `PisonQueries` | |
| `LevelsAreEnough` | `LevelsSuffice` of `PisonQueries` | |
| `NothingTimedUnverified`, `StatusIsTrue` | `AgreeBeforeTiming`, `StatusTellsAgreement` of `Benchmark` | |
| `AllReportedAgree` | `ReportedAgree` of `GithubArchive` | |
| `ReadyIsComplete`, `NothingUndone` | `ReadySkipsNone`, `WholeStaysWhole` of `Datasets` | |

The assumptions of the other modules are those on their own constants: corpora, slices
and words have sizes (`RunSlicedAssumption`), streams, blocks and lengths too
(`FastLoaderAssumption`), configurations are those `run<>` can be
given (`AllocatorAssumption`), a record is asked one of the seven queries (`RecordsAssumption`), options and results are of the right kind
(`BenchmarkAssumption`), counts are numbers (`GithubArchiveAssumption`,
`DatasetsAssumption`).

*The argument for parse_many.* `Snap` is monotone (`SnapMonotone`), so the edges of consecutive
blocks are in order and the slices of two blocks are disjoint (`SlicesInOrder`);
an edge lies just past a delimiter or at an end of the text, so no document free of
delimiters contains one. For the safety of claims `EachDocumentOnce` is not
inductive: nothing in it says that the documents of the *next* slice are not
already someone's. `SliceInv` adds that what a worker has, had or gave up lies in
slices that have been claimed (`MineIsReached`, `DroppedIsReached`), where claimed
means below the counter, or in the worker's own run up to `next`. A claim takes a
slice no one has reached, whose documents are therefore no one's, and come after
those of the worker's own slices: this gives both "once" and "in order". That the
runs of static partitioning are disjoint is arithmetic on two integer divisions
(`StaticBounds`).

For the end, `DoneInv` says that documents of claimed slices have been taken, and
that a worker exits only when no slice left to it begins inside the text. If every
worker has exited, each block that begins inside the text was claimed
(`NothingLeft`; for static runs because the first one begins at 0, the last one
ends at the number of slices, and each begins where the one before ended), and
every document is in one of them. `ErrorInv` relates what each worker counts and
names to what the caller has added up so far. (`IInv`, which TLC checks, is the three
together.) The refinement maps a claim to
`Take`, a failed stream to `GiveUp`, a document to `Keep` or `Drop`, and everything
else to a stutter; `Return` needs `NothingLeft`.

Which error is named (`EarliestErrorNamed`): a worker goes through the documents of a
run in order, so what it has left comes after what it gave up, and it names the
earliest of that (`NamesEarliest`); the caller names the error of the lowest worker
that has one (`NamesLowest`); and the slices of a later run come after those of an
earlier one (`RunsInOrder`). A slice that cannot be opened gives up documents that are
not in error themselves, so the theorem is about calls in which each can.

The two conditions are what the code relies on. `DelimiterFreeCalls` is the
condition of the header's comment (`parallel_stream.h:17-20`): for
`whitespace_delimited`, the default (:46), the delimiter is a line feed (:83), and a
document written over several lines would be cut. `SlicesCountable` is that
`length + slice_bytes - 1` does not wrap under static partitioning. Without it the
number of slices is 0 (`parallel_stream.h:143`), no worker gets one, and the call
returns an empty result without an error; the shared counter needs no such
condition, as `parse_many` checks and the theorem says.

*run_sliced.* A line is given by where it begins and ends without its blanks, so that
two workers can be asked whether they were handed the same bytes. The argument begins
with the lines of a text: those that begin in a piece of it, cut off at the piece's end,
are lines of the whole text if the piece ends just past a line feed or at the end
(`LinesOfPiece`), each is in the slice of one block (`BlocksFacts`), and none is longer
than `Longest`. That gives `OnlyWholeLines` and `ArenaFitsAll` without any invariant
about the claims, and so even if a counter should overflow. For the rest, the counter of
bytes is `i` times the slice size when block `i` is next, as long as it has not
wrapped; and it cannot, because a worker that finds the counter past the end exits: the
claims past the end are no more than the workers that have exited (`ExitedFacts`), which
is where `CountersFit` has its `Threads + 1`. A claim is then of a block that nobody has
reached. The inductive invariant `IInv` says of the counter and the runs where they are
(`ClaimInv`); that what a worker has left or extracted lies in blocks it has reached,
and no line is in two places (`LineInv`); and that each line of a reached block is
someone's, left, extracted or malformed, that a worker exits only when no block is left
to it, and that the caller has added up each shard once so far (`DoneInv`). When the
call returns, all blocks have been reached and the bags add up to one of each line.

*The allocator.* `Apart` adds to `BuffersApart` that a large buffer is never with the C
library. `WarmPoolMapsNothing` looks one run ahead: best fit, with the buffers asked for
in any order, may give a block to a small buffer that a larger one needs. `Seats` says
what excludes that: at any moment of a timed run there is an assignment of the buffers
still missing to freed blocks, each large enough and no block twice. When `b` is given
block `k` and the assignment had promised `k` to `d`, then `d` takes the block that was
promised to `b`: it is no smaller than `k`, or best fit would have chosen it
(`BestFitKeepsSeats`). At the end of a run the blocks the buffers are in are such an
assignment. For `TableSuffices` an entry that is used is owned by the pair of a
configuration and a large buffer it was first mapped for, and no pair owns two
(`Owners`): a later configuration owns none yet, and the untimed run of the present one
maps a block once for each buffer. So the table needs one entry for each such pair, which is
`TableFits`. How many buffers a parser asks for is the parsers' business; the program
has 256 entries.

*The Pison pipeline.* The loader's threads write without a lock to places that were
summed up before, so the proof first numbers the records of the whole stream. The bounds
of the chunks are edges of lines, in order, and cover the stream (`ChunkBounds`); so the
lines that begin in a chunk are lines of the stream, with the same ends, and the records
of chunk `t` are those of the stream from number `First(t)` on. The two prefix sums of
the caller are then `First(t)` and the place the serial loader gives that record. With
this every state of the second phase is known from the set of the records that are
written: the buffer and the table are those of the serial loader, cut down to that set
(`Image`, `Entries` in `Filling`). The next record of a thread is in no other thread's
part, and places of different records do not overlap: that is `WriteOnce`; when all are
written nothing is cut down: that is `SameAsReference`. No condition is needed, since the
serial loader cuts lengths to 32 bits as well. What Pison is then told of a record is its
padded length only if that fits, hence `LengthsFit` for `PisonLayout` and for the query:
no record is longer with its padding than the table's 32 bits can say (`loaders.h:140`).
The code does not check it; single documents of a stream stay far below 4 GiB, and
`MCPisonPipeline` states that the instance satisfies it (`InstanceFits`).

For the query no state component says who has queried which record. The invariant says
that such an assignment exists (`DealtOut`): the records below the cursor are each done by
one thread or left in one thread's chunk, a shard is the extraction of what its thread has
done, a thread exits only with the cursor past the end, and `total` is the extraction of
what the first `merged` threads have done. A claim, a record, a thread's end and a merge
each give a new assignment. At the end it is a partition of all records, and the bags of a
partition add up to the bag of the whole. The serial loop is the case of one interval.

*run_parallel.* At the end every document is in one shard once or was given up
(`NothingLost`, `ExtractedOnce`), so the pairs of a worker and a position that hold a
document are one or none, and the sum is one for each. It is not the serial sum only if a
document was given up, and then an error was counted (`LossReported`).

*Pison's queries.* `Nested` gives each query a depth at every call, and says of the
list that each call's successors have the depth it leaves: one more behind a `down`
that succeeds, one less behind an `up`, the same otherwise, 1 at the return. It is
checked by computation for each of the seven lists (`EveryQueryNested`). The
invariant `AtDepth` is that the cursor is at the depth of the next call; a step keeps
it by what the call does to the stack (`Moved`, `Entered`, `Left`). Both theorems
follow: the depth at the return is that of the beginning, and no depth is above
`query_levels`. Nothing is assumed of the documents.

*The programs.* Each property looks back at a comparison that is over, or at files
that were written. The invariants say in between what is still known: for `main`,
what `agree` stands for in each section and after the decision (`Compared`), and
which encodings the format study has compared (`Studied`); for `github_archive`, that
every run so far equals run 0 of its configuration (`RunsAgree`), and every reported
configuration the reference (`ReferenceReported`); for `datasets.sh`, that what
is being written was missing, and its lines too (`WritesWhatIsMissing`), that a record
which is there was obtained or is about to be removed (`NothingFromNowhere`), and what
the loops have done for the datasets behind them, unless `failed` is set (`LoopsDone`).
The count of the files, the flag and the tests `[ -s ]` are in three places; that together
they skip no dataset, over runs that fail or are killed, is `ReadyIsComplete`.

*Sums.* `ErrorsAreCounted` sums over the workers with a fold of the community
modules, which defines it by recursion on the set. The library's induction theorems
cannot be used for that, but a set of numbers has a least element (`LeastElement`), so
an induction can be done on the smallest subset for which a claim fails:
`SumExists` and `SumIsUnique` do it for the table of the sums of all subsets, `SumAdds`
for the order in which the fold takes the elements. The prefix sums of `fast_loader` are
the same fold on intervals (`IntervalSums`, `PrefixSums`).

*The join.* `ReturnedIsFinal` reads off `ErrorInv` that a call which has returned has
joined every worker and added up all their errors, so that no action is left to take.

*Model-checked only*: that calls and queries return (`Returns` in four runs: liveness
under fairness is out of the prover's reach, as is ENABLED), and that the engines feed
the same values (`EnginesAgree`, `BulkyAgree`), which is about recursive functions on
trees and texts and so needs an induction over data. No module of this project declares a
RECURSIVE operator.

## 5. Not modelled

- *The libraries.* simdjson's document stream, Pison's index and the DOM parsers are
  external: which documents a slice holds, and whether one fails, is given.
- *Pison's cursor.* What a call of `BitmapIterator` does is taken from how the queries
  use it. That it skips blanks and line feeds, but no carriage returns, is what
  `main.cpp:113-118` says of it.
- *Where the engines are known to differ.* With a key that occurs twice they take
  different occurrences. In a bulky record simdjson stops at the first element that is
  not of the query's kind (`simdjson_engine.cpp:272`), Pison goes on. A value at the
  end of a path that is an object or an array is fed by its opening token, not at all,
  or whole (`yyjson_engine.cpp:68-71`): leaves are scalars here. `EnginesAgree` and
  `BulkyAgree` state under which conditions the answers are equal. Surrogate pairs
  are left out, as in the comment of `feed_decoded` (`pison_engine.cpp:74-75`).
- *`run_parallel`'s errors.* It does not look at `errors()`; `ParallelAgrees` says what
  its total is then, and that there was an error to look at. Names of queries on the command line are not modelled.
- *What differs between the DOM libraries.* Their traits are external, and
  `DomQueries` stands for all four.
- *`derive_slice_kib` and the batch*: a fold and a comparison. `serial_batch` is not
  above a longest document of exactly 1 MiB, although the comment at
  `main.cpp:457-458` says it must be.
- *Overflow of the counter of `run_sliced`*, which would need a slice of a good part of
  2^64 bytes; the instances stay below it, and `RunSliced` would show it (a block
  is claimed twice).
- *Option parsing, early errors with status 1, `--engine-only`, formatting,* and the
  clocks and counters of `metrics.h`: no control that a property here is about. The
  load section prints its timings before the engines are compared;
  `AgreeBeforeTiming` is about the sections that come after.
- *What is in a download.* `datasets.sh` takes any file that is not empty from a `gdown`
  that exits with 0. Nothing is claimed of its contents. When `make_ndjson` cannot read
  it, or the rest that a kill has left, the file is not fetched again: each later run
  ends there too, or takes the lines that were written before the failure for all.
- *An exit of the format study that cannot be taken*: `main.cpp:639-643` compares the
  number of lines with that of the loader's table, which is the same once no line of
  1 to 5 bytes is there (:629-632).
- *Allocation failure, page faults inside a block, `--corpus-from`,* the selection of
  the array in `make_ndjson`, build files.

## 6. Plan

Done, in this order: slicing and `parse_many` with the abstract specification and
the proofs; `run_sliced`; the loader, `run_stream` and the two together; the
benchmark program; the allocator; the GitHub Archive query; the script; the queries
of the three kinds of engines, with the extraction and bulky records; `run_parallel`;
the proofs about these queries and the programs; the proofs about `run_sliced`, the
allocator and the errors of `parse_many`; the proofs about the loader, `run_stream` and
the two together.

Next, the most important first:

1. *`RunSliced` as a second implementation of `ExactlyOnce`*, along `Implementation`.
2. *The queries as functions*: that `OnDemandQueries` and `DomQueries` find the same
   places in a tree, query by query, as far as that needs no induction.
3. *The derived sizes*, as part of `Benchmark`'s sections.
