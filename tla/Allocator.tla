------------------------------ MODULE Allocator ------------------------------
(***************************************************************************)
(* The allocator of cujson_baseline/cujson_baseline.cpp, which replaces the*)
(* global operators new and delete, under the load the program puts on it: *)
(* for each configuration in turn, run<> obtains the buffers of a parser,  *)
(* once or anew in every run, and gives them back.                         *)
(*                                                                         *)
(* The program is sequential.  What varies is external: the sizes of a     *)
(* parser's buffers, the order it asks for them, which of them its         *)
(* allocate() gets ahead of the first parse, and whether a parse succeeds. *)
(***************************************************************************)
EXTENDS Integers, Sequences, FiniteSets

CONSTANTS
  Plans,      \* the configurations of the program: sequences of [alloc, needs, fresh]
  Reps,       \* timed runs per configuration
  Large,      \* requests below this go to malloc: kLarge
  Huge,       \* mappings are whole multiples of this: kHuge
  TableSize   \* entries of the table of blocks: 256

AllocModes == {"malloc", "4k", "huge", "pool"}

ASSUME AllocatorAssumption ==
  /\ Reps \in Nat \ {0} /\ Large \in Nat \ {0} /\ Huge \in Nat \ {0} /\ TableSize \in Nat
  /\ \A p \in Plans :
       /\ p \in Seq([alloc : AllocModes, needs : Seq(Nat), fresh : BOOLEAN])
       /\ p # <<>>

\* The buffers of a plan that are not left to the C library.
LargeBuffers(p) ==
  UNION {{c} \X {b \in 1 .. Len(p[c].needs) : p[c].alloc # "malloc" /\ p[c].needs[b] >= Large} :
           c \in 1 .. Len(p)}

\* The table has an entry for each of them.
TableFits == \A p \in Plans : Cardinality(LargeBuffers(p)) <= TableSize

VARIABLES
  plan,    \* the configurations
  config,  \* the one that runs: an index of plan
  stage,   \* where run<> is, or how the program ended
  run,     \* the number of the run; run 0 is untimed
  table,   \* g_blocks: each entry a block, or Empty
  held,    \* of each buffer of the parser: where it is
  mapped   \* how many blocks this run has mapped

vars == <<plan, config, stage, run, table, held, mapped>>

Entries == 1 .. TableSize

Empty == [capacity |-> 0, in_use |-> FALSE]

None == -1     \* the parser does not have the buffer
Malloced == 0  \* the C library has it; an entry of the table otherwise

\* g_alloc and the parser of the configuration that runs.
g_alloc == plan[config].alloc
Needs == plan[config].needs
Fresh == plan[config].fresh

Buffers == 1 .. Len(Needs)

NoBuffers(c) == [b \in 1 .. Len(plan[c].needs) |-> None]

Init ==
  /\ plan \in Plans
  /\ config = 1
  /\ stage = IF plan[1].fresh THEN "parsing" ELSE "preparing"
  /\ run = 0
  /\ table = [k \in Entries |-> Empty]
  /\ held = NoBuffers(1)
  /\ mapped = 0

-----------------------------------------------------------------------------
\* A size rounded up to whole huge pages.
Capacity(n) == ((n + Huge - 1) \div Huge) * Huge

\* The freed blocks a request fits in.
Fitting(n) ==
  IF g_alloc = "pool"
    THEN {k \in Entries : table[k] # Empty /\ ~ table[k].in_use /\ table[k].capacity >= n}
    ELSE {}

\* Bug: the first block that fits is taken.
FirstFit(n) == CHOOSE k \in Fitting(n) : \A j \in Fitting(n) : k <= j

\* The smallest of them, and the first of those.
BestFit(n) ==
  CHOOSE k \in Fitting(n) : \A j \in Fitting(n) :
    table[k].capacity < table[j].capacity \/ (table[k].capacity = table[j].capacity /\ k <= j)

FreeEntries == {k \in Entries : table[k] = Empty}

\* map_block: a new mapping, in the first entry of the table that is empty; without
\* one it is unmapped again and the request fails.
MapBlock(b) ==
  \/ /\ FreeEntries # {}
     /\ LET k == CHOOSE k \in FreeEntries : \A j \in FreeEntries : k <= j
        IN /\ table' = [table EXCEPT ![k] = [capacity |-> Capacity(Needs[b]), in_use |-> TRUE]]
           /\ held' = [held EXCEPT ![b] = k]
     /\ mapped' = mapped + 1
     /\ UNCHANGED stage
  \/ /\ FreeEntries = {}
     /\ stage' = "no_room"
     /\ UNCHANGED <<table, held, mapped>>

\* Bug: a block of the pool is not marked as taken.
AllocateUnmarked(b) ==
  \/ /\ Needs[b] < Large \/ g_alloc = "malloc"
     /\ held' = [held EXCEPT ![b] = Malloced]
     /\ UNCHANGED <<stage, table, mapped>>
  \/ /\ Needs[b] >= Large /\ g_alloc # "malloc" /\ Fitting(Needs[b]) # {}
     /\ held' = [held EXCEPT ![b] = BestFit(Needs[b])]
     /\ UNCHANGED <<stage, table, mapped>>
  \/ /\ Needs[b] >= Large /\ g_alloc # "malloc" /\ Fitting(Needs[b]) = {}
     /\ MapBlock(b)

\* allocate: the C library for a small request, a freed block that fits for the
\* pool, and a new mapping otherwise.
Allocate(b) ==
  \/ /\ Needs[b] < Large \/ g_alloc = "malloc"
     /\ held' = [held EXCEPT ![b] = Malloced]
     /\ UNCHANGED <<stage, table, mapped>>
  \/ /\ Needs[b] >= Large /\ g_alloc # "malloc" /\ Fitting(Needs[b]) # {}
     /\ LET k == BestFit(Needs[b])
        IN /\ table' = [table EXCEPT ![k].in_use = TRUE]
           /\ held' = [held EXCEPT ![b] = k]
     /\ UNCHANGED <<stage, mapped>>
  \/ /\ Needs[b] >= Large /\ g_alloc # "malloc" /\ Fitting(Needs[b]) = {}
     /\ MapBlock(b)

\* Bug: a block of the pool stays taken.
ReleasedTaken(k) ==
  IF g_alloc # "pool" /\ \E b \in Buffers : held[b] = k THEN Empty ELSE table[k]

\* release, of each buffer the parser has: what becomes of an entry of the table.
Released(k) ==
  IF \E b \in Buffers : held[b] = k
    THEN IF g_alloc = "pool" THEN [table[k] EXCEPT !.in_use = FALSE] ELSE Empty
    ELSE table[k]

ReleaseAll == table' = [k \in Entries |-> Released(k)]

-----------------------------------------------------------------------------
\* A parser that is kept gets some of its buffers from allocate(), untimed.
Prepare(b) ==
  /\ stage = "preparing" /\ held[b] = None
  /\ Allocate(b)
  /\ UNCHANGED <<plan, config, run>>

Prepared ==
  /\ stage = "preparing"
  /\ stage' = "parsing"
  /\ UNCHANGED <<plan, config, run, table, held, mapped>>

\* The others in the first run that parses with it; a fresh parser all of them.
Obtain(b) ==
  /\ stage = "parsing" /\ held[b] = None
  /\ Allocate(b)
  /\ UNCHANGED <<plan, config, run>>

\* Bug: one run too many.
EndRunOneMore ==
  /\ stage = "parsing" /\ (\A b \in Buffers : held[b] # None)
  /\ run <= Reps
  /\ run' = run + 1
  /\ mapped' = 0
  /\ \/ Fresh /\ ReleaseAll /\ held' = NoBuffers(config)
     \/ ~ Fresh /\ UNCHANGED <<table, held>>
  /\ UNCHANGED <<plan, config, stage>>

\* The end of a run but the last: a fresh parser is freed.
EndRun ==
  /\ stage = "parsing" /\ (\A b \in Buffers : held[b] # None)
  /\ run < Reps
  /\ run' = run + 1
  /\ mapped' = 0
  /\ \/ /\ Fresh
        /\ ReleaseAll
        /\ held' = NoBuffers(config)
     \/ ~ Fresh /\ UNCHANGED <<table, held>>
  /\ UNCHANGED <<plan, config, stage>>

\* The end of the last run: either parser is freed, and the next configuration runs.
EndConfig ==
  /\ stage = "parsing" /\ (\A b \in Buffers : held[b] # None)
  /\ run = Reps
  /\ ReleaseAll
  /\ mapped' = 0
  /\ \/ /\ config < Len(plan)
        /\ config' = config + 1
        /\ run' = 0
        /\ held' = NoBuffers(config + 1)
        /\ stage' = IF plan[config + 1].fresh THEN "parsing" ELSE "preparing"
     \/ /\ config = Len(plan)
        /\ held' = NoBuffers(config)
        /\ stage' = "done"
        /\ UNCHANGED <<config, run>>
  /\ UNCHANGED plan

\* A parse that fails ends the program; run<> has freed the parser.
ParseFails ==
  /\ stage = "parsing" /\ (\A b \in Buffers : held[b] # None)
  /\ ReleaseAll
  /\ held' = NoBuffers(config)
  /\ stage' = "parse_failed"
  /\ UNCHANGED <<plan, config, run, mapped>>

Ended == stage \in {"done", "parse_failed", "no_room"}

Next ==
  \/ \E b \in Buffers : Prepare(b) \/ Obtain(b)
  \/ Prepared \/ EndRun \/ EndConfig \/ ParseFails
  \/ Ended /\ UNCHANGED vars

Spec == Init /\ [][Next]_vars

-----------------------------------------------------------------------------
TypeOK ==
  /\ config \in 1 .. Len(plan)
  /\ stage \in {"preparing", "parsing", "done", "parse_failed", "no_room"}
  /\ run \in 0 .. Reps
  /\ table \in [Entries -> [capacity : Nat, in_use : BOOLEAN]]
  /\ held \in [Buffers -> {None, Malloced} \union Entries]
  /\ mapped \in 0 .. Len(Needs)

\* No two buffers of a parser share a block, each has room, and a block is marked as
\* taken exactly while a buffer is in it: whatever order blocks are taken and freed in.
BuffersApart ==
  /\ \A b \in Buffers : held[b] \in Entries =>
       /\ table[held[b]].in_use
       /\ table[held[b]].capacity >= Needs[b]
       /\ \A d \in Buffers : held[d] = held[b] => d = b
  /\ \A k \in Entries : table[k].in_use => \E b \in Buffers : held[b] = k

\* "After the untimed run, a fresh parser costs no faults at all"
\* (cujson_baseline.cpp:69-71): no timed run maps a block, whatever the pool
\* holds from the configurations before.
WarmPoolMapsNothing == g_alloc = "pool" /\ run > 0 => mapped = 0

\* "A parser holds a handful of large buffers at a time" (cujson_baseline.cpp:88-89),
\* so the table is never full, however often they are allocated: one entry for each
\* buffer of the configurations suffices.
TableSuffices == stage # "no_room"
=============================================================================
