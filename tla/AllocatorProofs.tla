--------------------------- MODULE AllocatorProofs ---------------------------
(***************************************************************************)
(* Theorems about the allocator, for every plan of configurations, any     *)
(* sizes of buffers, any order in which parsers ask for them, and any      *)
(* number of runs.                                                         *)
(***************************************************************************)
EXTENDS Allocator, SlicingProofs, FiniteSetTheorems

-----------------------------------------------------------------------------
(* Facts about the constants, and the choices of a block.                  *)

LEMMA PlanFacts ==
  ASSUME NEW p \in Plans
  PROVE  /\ Len(p) \in Nat \ {0}
         /\ \A c \in 1 .. Len(p) :
              /\ p[c].alloc \in AllocModes /\ p[c].fresh \in BOOLEAN
              /\ Len(p[c].needs) \in Nat
              /\ \A b \in 1 .. Len(p[c].needs) : p[c].needs[b] \in Nat
<1> DEFINE Configs == [alloc : AllocModes, needs : Seq(Nat), fresh : BOOLEAN]
<1>1. p \in Seq(Configs) /\ p # <<>>
  BY AllocatorAssumption
<1>2. Len(p) \in Nat \ {0}
  BY <1>1
<1>3. ASSUME NEW c \in 1 .. Len(p)
      PROVE  /\ p[c].alloc \in AllocModes /\ p[c].fresh \in BOOLEAN
             /\ Len(p[c].needs) \in Nat
             /\ \A b \in 1 .. Len(p[c].needs) : p[c].needs[b] \in Nat
  <2>1. p[c] \in Configs
    <3> HIDE DEF Configs
    <3>1. QED
      BY <1>1
  <2>2. p[c].needs \in Seq(Nat)
    BY <2>1
  <2>3. QED
    BY <2>1, <2>2
<1>4. QED
  BY <1>2, <1>3

Active == stage \in {"preparing", "parsing"}

\* The buffers the parser has.
Got == {b \in Buffers : held[b] # None}

\* A run maps at most a block for each.
MappedForGot == Active => mapped <= Cardinality(Got)

Typed == plan \in Plans /\ TypeOK /\ MappedForGot

\* What the current configuration is made of.
LEMMA ConfigFacts ==
  ASSUME Typed
  PROVE  /\ plan \in Plans /\ config \in 1 .. Len(plan) /\ Len(plan) \in Nat
         /\ g_alloc \in AllocModes /\ Fresh \in BOOLEAN
         /\ Len(Needs) \in Nat /\ Buffers = 1 .. Len(Needs)
         /\ \A b \in Buffers : Needs[b] \in Nat
         /\ Large \in Nat \ {0} /\ Huge \in Nat \ {0} /\ TableSize \in Nat /\ Reps \in Nat \ {0}
<1>1. plan \in Plans /\ config \in 1 .. Len(plan)
  BY DEF Typed, TypeOK
<1>2. QED
  BY <1>1, PlanFacts, AllocatorAssumption DEF g_alloc, Fresh, Needs, Buffers

LEMMA NoneIsNoEntry == None \notin Entries /\ Malloced \notin Entries /\ None # Malloced
  BY AllocatorAssumption DEF None, Malloced, Entries

\* A mapping is large enough for the request.
LEMMA RoundedUp ==
  ASSUME NEW n \in Nat
  PROVE  Capacity(n) \in Nat /\ n <= Capacity(n)
<1> DEFINE m == n + Huge - 1
           q == m \div Huge
<1>1. Huge \in Nat \ {0}
  BY AllocatorAssumption
<1>2. m \in Nat
  BY <1>1
<1>3. q \in Nat /\ m < (q + 1) * Huge
  BY <1>1, <1>2, Quotient
<1> HIDE DEF q
<1>4. (q + 1) * Huge = q * Huge + Huge /\ q * Huge \in Nat
  BY <1>1, <1>3
<1>5. n <= q * Huge
  BY <1>1, <1>3, <1>4
<1>6. QED
  BY <1>4, <1>5 DEF Capacity, q

\* The best fit is a block that fits, and none that fits is smaller.
LEMMA BestFitFacts ==
  ASSUME Typed, NEW n \in Nat, Fitting(n) # {}
  PROVE  /\ BestFit(n) \in Fitting(n)
         /\ \A j \in Fitting(n) : table[BestFit(n)].capacity <= table[j].capacity
<1> DEFINE F == Fitting(n)
           cap(k) == table[k].capacity
           caps == {cap(k) : k \in F}
           Best(k) == \A j \in F : cap(k) < cap(j) \/ (cap(k) = cap(j) /\ k <= j)
<1>1. \A k \in F : k \in Nat /\ cap(k) \in Nat
  <2>1. F \subseteq Entries
    BY DEF Fitting
  <2>2. TableSize \in Nat /\ table \in [Entries -> [capacity : Nat, in_use : BOOLEAN]]
    BY ConfigFacts DEF Typed, TypeOK
  <2>3. QED
    BY <2>1, <2>2 DEF Entries
<1> HIDE DEF F, cap
<1>2. caps \in SUBSET Nat /\ caps # {}
  BY <1>1 DEF F
<1>3. PICK x \in caps : \A y \in caps : x <= y
  BY <1>2, LeastElement
<1> DEFINE L == {k \in F : cap(k) = x}
<1>4. L \in SUBSET Nat /\ L # {}
  BY <1>1, <1>3
<1>5. PICK k \in L : \A j \in L : k <= j
  BY <1>4, LeastElement
<1>6. k \in F /\ Best(k)
  <2>1. \A j \in F : x <= cap(j)
    BY <1>3
  <2>2. k \in F /\ cap(k) = x
    BY <1>5
  <2>3. \A j \in F : cap(j) = x => k <= j
    BY <1>5
  <2>4. QED
    BY <1>1, <2>1, <2>2, <2>3
<1>7. BestFit(n) = CHOOSE i \in F : Best(i)
  BY DEF BestFit, F, cap
<1>8. BestFit(n) \in F /\ Best(BestFit(n))
  BY <1>6, <1>7
<1>9. \A j \in F : cap(BestFit(n)) <= cap(j)
  BY <1>1, <1>8
<1>10. QED
  BY <1>8, <1>9 DEF F, cap

LEMMA FirstFree ==
  ASSUME TableSize \in Nat, FreeEntries # {}
  PROVE  (CHOOSE k \in FreeEntries : \A j \in FreeEntries : k <= j) \in FreeEntries
<1>1. FreeEntries \in SUBSET Nat
  BY DEF FreeEntries, Entries
<1>2. \E k \in FreeEntries : \A j \in FreeEntries : k <= j
  BY <1>1, LeastElement
<1>3. QED
  BY <1>2

-----------------------------------------------------------------------------
(* What an allocation does.                                                *)

IsLarge(b) == Needs[b] >= Large /\ g_alloc # "malloc"

FromLibrary(b) ==
  /\ ~ IsLarge(b)
  /\ held' = [held EXCEPT ![b] = Malloced]
  /\ UNCHANGED <<stage, table, mapped>>

FromPool(b, k) ==
  /\ IsLarge(b) /\ k \in Fitting(Needs[b])
  /\ \A j \in Fitting(Needs[b]) : table[k].capacity <= table[j].capacity
  /\ table' = [table EXCEPT ![k].in_use = TRUE]
  /\ held' = [held EXCEPT ![b] = k]
  /\ UNCHANGED <<stage, mapped>>

FromSystem(b, k) ==
  /\ IsLarge(b) /\ Fitting(Needs[b]) = {} /\ k \in FreeEntries
  /\ table' = [table EXCEPT ![k] = [capacity |-> Capacity(Needs[b]), in_use |-> TRUE]]
  /\ held' = [held EXCEPT ![b] = k]
  /\ mapped' = mapped + 1
  /\ UNCHANGED stage

FromNowhere(b) ==
  /\ IsLarge(b) /\ Fitting(Needs[b]) = {} /\ FreeEntries = {}
  /\ stage' = "no_room"
  /\ UNCHANGED <<table, held, mapped>>

LEMMA AllocateCases ==
  ASSUME Typed, NEW b \in Buffers, Allocate(b)
  PROVE  \/ FromLibrary(b) \/ FromNowhere(b)
         \/ \E k \in Entries : FromPool(b, k) \/ FromSystem(b, k)
<1>1. Needs[b] \in Nat /\ Large \in Nat /\ TableSize \in Nat
  BY ConfigFacts
<1>2. CASE Needs[b] < Large \/ g_alloc = "malloc"
  BY <1>1, <1>2 DEF Allocate, FromLibrary, IsLarge
<1>3. CASE IsLarge(b) /\ Fitting(Needs[b]) # {}
  <2>1. FromPool(b, BestFit(Needs[b]))
    BY <1>1, <1>3, BestFitFacts DEF Allocate, FromPool, IsLarge
  <2>2. BestFit(Needs[b]) \in Entries
    BY <1>1, <1>3, BestFitFacts DEF Fitting
  <2>3. QED
    BY <2>1, <2>2
<1>4. CASE IsLarge(b) /\ Fitting(Needs[b]) = {}
  <2>1. MapBlock(b)
    BY <1>1, <1>4 DEF Allocate, IsLarge
  <2>2. CASE FreeEntries = {}
    BY <1>4, <2>1, <2>2 DEF MapBlock, FromNowhere
  <2>3. CASE FreeEntries # {}
    <3> DEFINE k == CHOOSE k \in FreeEntries : \A j \in FreeEntries : k <= j
    <3>1. k \in FreeEntries /\ k \in Entries
      BY <1>1, <2>3, FirstFree DEF FreeEntries
    <3>2. FromSystem(b, k)
      BY <1>4, <2>1, <2>3, <3>1 DEF MapBlock, FromSystem
    <3>3. QED
      BY <3>1, <3>2
  <2>4. QED
    BY <2>2, <2>3
<1>5. QED
  BY <1>1, <1>2, <1>3, <1>4 DEF IsLarge

-----------------------------------------------------------------------------
(* Types, and how many blocks a run can have mapped.                       *)

LEMMA SubsetCounts ==
  ASSUME NEW n \in Nat, NEW S \in SUBSET (1 .. n)
  PROVE  IsFiniteSet(S) /\ Cardinality(S) \in Nat /\ Cardinality(S) <= n
<1>1. IsFiniteSet(1 .. n) /\ Cardinality(1 .. n) = n
  <2>1. IsFiniteSet(1 .. n)
    BY FS_Interval
  <2>2. Cardinality(1 .. n) = IF 1 > n THEN 0 ELSE n - 1 + 1
    BY FS_Interval
  <2>3. QED
    BY <2>1, <2>2
<1>2. QED
  BY <1>1, FS_Subset, FS_CardinalityType

LEMMA GotFacts ==
  ASSUME Typed
  PROVE  /\ Got \in SUBSET Buffers /\ IsFiniteSet(Got)
         /\ Cardinality(Got) \in Nat
<1>1. Buffers = 1 .. Len(Needs) /\ Len(Needs) \in Nat
  BY ConfigFacts
<1>2. Got \in SUBSET Buffers
  BY DEF Got
<1>3. QED
  BY <1>1, <1>2, SubsetCounts

\* A run begins without a mapping.
LEMMA ClearedTyped ==
  ASSUME plan \in Plans, plan' = plan, TypeOK', mapped' = 0
  PROVE  Typed'
<1>1. config' \in 1 .. Len(plan)
  BY DEF TypeOK
<1>2. Len(Needs)' \in Nat /\ Buffers' = 1 .. Len(Needs)'
  BY <1>1, PlanFacts DEF Needs, Buffers
<1>3. Got' \in SUBSET Buffers'
  BY DEF Got
<1>4. Cardinality(Got)' \in Nat
  BY <1>2, <1>3, SubsetCounts
<1>5. QED
  BY <1>4 DEF Typed, MappedForGot

\* A step that stays in the configuration.
SameConfig == UNCHANGED <<plan, config>>

LEMMA AllocateTyped ==
  ASSUME Typed, NEW b \in Buffers, held[b] = None, Active, Allocate(b),
         SameConfig, UNCHANGED run
  PROVE  Typed'
<1>1. /\ plan \in Plans /\ config \in 1 .. Len(plan)
      /\ stage \in {"preparing", "parsing", "done", "parse_failed", "no_room"}
      /\ run \in 0 .. Reps
      /\ table \in [Entries -> [capacity : Nat, in_use : BOOLEAN]]
      /\ held \in [Buffers -> {None, Malloced} \union Entries]
      /\ mapped \in 0 .. Len(Needs) /\ mapped <= Cardinality(Got)
  BY DEF Typed, TypeOK, MappedForGot
<1>2. /\ plan' = plan /\ config' = config /\ run' = run
      /\ Buffers' = Buffers /\ Needs' = Needs /\ Len(Needs)' = Len(Needs)
  BY DEF SameConfig, Buffers, Needs
<1>3. Len(Needs) \in Nat /\ Needs[b] \in Nat
  BY ConfigFacts
<1>4. CASE FromNowhere(b)
  <2>1. stage' = "no_room" /\ UNCHANGED <<table, held, mapped>>
    BY <1>4 DEF FromNowhere
  <2>2. ~ Active'
    BY <2>1 DEF Active
  <2>3. TypeOK'
    BY <1>1, <1>2, <2>1 DEF TypeOK
  <2>4. QED
    BY <1>1, <1>2, <2>2, <2>3 DEF Typed, MappedForGot
<1>5. CASE FromLibrary(b) \/ \E k \in Entries : FromPool(b, k) \/ FromSystem(b, k)
  <2>1. stage' = stage /\ mapped' \in {mapped, mapped + 1}
    BY <1>5 DEF FromLibrary, FromPool, FromSystem
  <2>2. PICK x \in {Malloced} \union Entries : held' = [held EXCEPT ![b] = x]
    BY <1>5 DEF FromLibrary, FromPool, FromSystem
  <2>3. None \notin {Malloced} \union Entries
    BY NoneIsNoEntry
  <2>4. Got' = Got \union {b} /\ b \notin Got
    BY <1>1, <1>2, <2>2, <2>3 DEF Got
  <2>5. Cardinality(Got') = Cardinality(Got) + 1
    BY <2>4, GotFacts, FS_AddElement
  <2>6. mapped' <= Cardinality(Got')
    <3>1. Cardinality(Got) \in Nat /\ mapped \in Nat
      BY <1>1, <1>3, GotFacts
    <3>2. QED
      BY <1>1, <2>1, <2>5, <3>1
  <2>7. Cardinality(Got') <= Len(Needs)
    <3>1. Got' \in SUBSET Buffers /\ Buffers = 1 .. Len(Needs)
      BY <2>4, GotFacts, ConfigFacts
    <3>2. QED
      BY <1>3, <3>1, SubsetCounts
  <2>8. mapped' \in 0 .. Len(Needs)
    <3>1. Cardinality(Got) \in Nat /\ mapped \in Nat
      BY <1>1, <1>3, GotFacts
    <3>2. QED
      BY <1>3, <2>1, <2>5, <2>6, <2>7, <3>1
  <2>9. table' \in [Entries -> [capacity : Nat, in_use : BOOLEAN]]
    <3>1. CASE table' = table
      BY <1>1, <3>1
    <3>2. ASSUME NEW k \in Entries, FromPool(b, k)
          PROVE  table' \in [Entries -> [capacity : Nat, in_use : BOOLEAN]]
      BY <1>1, <3>2 DEF FromPool
    <3>3. ASSUME NEW k \in Entries, FromSystem(b, k)
          PROVE  table' \in [Entries -> [capacity : Nat, in_use : BOOLEAN]]
      <4>1. Capacity(Needs[b]) \in Nat
        BY <1>3, RoundedUp
      <4>2. QED
        BY <1>1, <3>3, <4>1 DEF FromSystem
    <3>4. QED
      BY <1>5, <3>1, <3>2, <3>3 DEF FromLibrary
  <2>10. held' \in [Buffers -> {None, Malloced} \union Entries]
    BY <1>1, <2>2
  <2>11. TypeOK'
    BY <1>1, <1>2, <2>1, <2>8, <2>9, <2>10 DEF TypeOK, Entries
  <2>12. MappedForGot'
    BY <2>6 DEF MappedForGot
  <2>13. QED
    BY <1>1, <1>2, <2>11, <2>12 DEF Typed
<1>6. QED
  BY <1>4, <1>5, AllocateCases

\* What the end of a run does to the table: no block is taken any more that was a
\* buffer's, and an entry that was empty is empty.
LEMMA ReleaseFacts ==
  ASSUME Typed, ReleaseAll
  PROVE  /\ table' \in [Entries -> [capacity : Nat, in_use : BOOLEAN]]
         /\ \A k \in Entries : table'[k] = Released(k)
<1>1. table \in [Entries -> [capacity : Nat, in_use : BOOLEAN]]
  BY DEF Typed, TypeOK
<1>2. Empty \in [capacity : Nat, in_use : BOOLEAN]
  BY DEF Empty
<1>3. \A k \in Entries : Released(k) \in [capacity : Nat, in_use : BOOLEAN]
  BY <1>1, <1>2 DEF Released
<1>4. QED
  BY <1>3 DEF ReleaseAll

LEMMA NextTyped == Typed /\ [Next]_vars => Typed'
<1>1. SUFFICES ASSUME Typed, [Next]_vars PROVE Typed'
  OBVIOUS
<1>2. /\ plan \in Plans /\ config \in 1 .. Len(plan)
      /\ stage \in {"preparing", "parsing", "done", "parse_failed", "no_room"}
      /\ run \in 0 .. Reps
      /\ table \in [Entries -> [capacity : Nat, in_use : BOOLEAN]]
      /\ held \in [Buffers -> {None, Malloced} \union Entries]
      /\ mapped \in 0 .. Len(Needs)
  BY <1>1 DEF Typed, TypeOK
<1>3. /\ Len(plan) \in Nat /\ Reps \in Nat /\ Len(Needs) \in Nat
      /\ Buffers = 1 .. Len(Needs)
  BY <1>1, ConfigFacts
<1>4. \A c \in 1 .. Len(plan) :
        /\ NoBuffers(c) \in [1 .. Len(plan[c].needs) -> {None, Malloced} \union Entries]
        /\ Len(plan[c].needs) \in Nat
  BY <1>2, PlanFacts DEF NoBuffers
<1>5. CASE UNCHANGED vars
  <2>1. UNCHANGED <<plan, config, stage, run, table, held, mapped>>
    BY <1>5 DEF vars
  <2>2. /\ Needs' = Needs /\ Buffers' = Buffers /\ Got' = Got /\ Active' = Active
    BY <2>1 DEF Needs, Buffers, Got, Active
  <2>3. QED
    BY <1>1, <2>1, <2>2 DEF Typed, TypeOK, MappedForGot
<1>6. ASSUME NEW b \in Buffers, Prepare(b) \/ Obtain(b) PROVE Typed'
  BY <1>1, <1>6, AllocateTyped DEF Prepare, Obtain, Active, SameConfig
<1>7. CASE Prepared
  <2>1. /\ stage' = "parsing" /\ UNCHANGED <<plan, config, run, table, held, mapped>>
        /\ Active
    BY <1>7 DEF Prepared, Active
  <2>2. Needs' = Needs /\ Buffers' = Buffers /\ Got' = Got
    BY <2>1 DEF Needs, Buffers, Got
  <2>3. TypeOK'
    BY <1>2, <2>1, <2>2 DEF TypeOK
  <2>4. MappedForGot'
    BY <1>1, <2>1, <2>2 DEF Typed, MappedForGot
  <2>5. QED
    BY <1>2, <2>1, <2>3, <2>4 DEF Typed
<1>8. CASE EndRun
  <2>1. /\ run < Reps /\ run' = run + 1 /\ mapped' = 0
        /\ UNCHANGED <<plan, config, stage>>
        /\ \/ ReleaseAll /\ held' = NoBuffers(config)
           \/ UNCHANGED <<table, held>>
    BY <1>8 DEF EndRun
  <2>2. Needs' = Needs /\ Buffers' = Buffers
    BY <2>1 DEF Needs, Buffers
  <2>3. held' \in [Buffers -> {None, Malloced} \union Entries]
    BY <1>2, <1>4, <2>1 DEF Buffers, Needs
  <2>4. table' \in [Entries -> [capacity : Nat, in_use : BOOLEAN]]
    BY <1>1, <1>2, <2>1, ReleaseFacts
  <2>5. run' \in 0 .. Reps /\ mapped' \in 0 .. Len(Needs)
    BY <1>2, <1>3, <2>1
  <2>6. TypeOK'
    BY <1>2, <2>1, <2>2, <2>3, <2>4, <2>5 DEF TypeOK
  <2>7. QED
    BY <1>2, <2>1, <2>6, ClearedTyped
<1>9. CASE EndConfig
  <2>1. /\ ReleaseAll /\ mapped' = 0 /\ plan' = plan /\ run = Reps
        /\ \/ /\ config < Len(plan) /\ config' = config + 1 /\ run' = 0
              /\ held' = NoBuffers(config + 1)
              /\ stage' \in {"parsing", "preparing"}
           \/ /\ held' = NoBuffers(config) /\ stage' = "done"
              /\ UNCHANGED <<config, run>>
    BY <1>9 DEF EndConfig
  <2>2. config' \in 1 .. Len(plan) /\ held' = NoBuffers(config')
    BY <1>2, <1>3, <2>1
  <2>3. held' \in [Buffers' -> {None, Malloced} \union Entries]
    BY <1>4, <2>1, <2>2 DEF Buffers, Needs
  <2>4. table' \in [Entries -> [capacity : Nat, in_use : BOOLEAN]]
    BY <1>1, <2>1, ReleaseFacts
  <2>5. run' \in 0 .. Reps /\ mapped' \in 0 .. Len(Needs')
    BY <1>2, <1>3, <1>4, <2>1, <2>2 DEF Needs
  <2>6. TypeOK'
    BY <1>2, <2>1, <2>2, <2>3, <2>4, <2>5 DEF TypeOK
  <2>7. QED
    BY <1>2, <2>1, <2>6, ClearedTyped
<1>10. CASE ParseFails
  <2>1. /\ ReleaseAll /\ held' = NoBuffers(config) /\ stage' = "parse_failed"
        /\ UNCHANGED <<plan, config, run, mapped>>
    BY <1>10 DEF ParseFails
  <2>2. Needs' = Needs /\ Buffers' = Buffers
    BY <2>1 DEF Needs, Buffers
  <2>3. held' \in [Buffers -> {None, Malloced} \union Entries]
    BY <1>2, <1>4, <2>1 DEF Buffers, Needs
  <2>4. table' \in [Entries -> [capacity : Nat, in_use : BOOLEAN]]
    BY <1>1, <2>1, ReleaseFacts
  <2>5. TypeOK'
    BY <1>2, <2>1, <2>2, <2>3, <2>4 DEF TypeOK
  <2>6. ~ Active'
    BY <2>1 DEF Active
  <2>7. QED
    BY <1>2, <2>1, <2>5, <2>6 DEF Typed, MappedForGot
<1>11. QED
  BY <1>1, <1>5, <1>6, <1>7, <1>8, <1>9, <1>10 DEF Next

LEMMA InitTyped == Init => Typed
<1>1. SUFFICES ASSUME Init PROVE Typed
  OBVIOUS
<1>2. /\ plan \in Plans /\ config = 1 /\ run = 0 /\ mapped = 0
      /\ stage \in {"parsing", "preparing"}
      /\ table = [k \in Entries |-> Empty] /\ held = NoBuffers(1)
  BY <1>1 DEF Init
<1>3. config \in 1 .. Len(plan) /\ Reps \in Nat /\ 1 \in 1 .. Len(plan)
  BY <1>2, PlanFacts, AllocatorAssumption
<1>4. Len(Needs) \in Nat /\ Buffers = 1 .. Len(Needs)
  BY <1>2, <1>3, PlanFacts DEF Needs, Buffers
<1>5. held \in [Buffers -> {None, Malloced} \union Entries]
  BY <1>2 DEF NoBuffers, Buffers, Needs
<1>6. table \in [Entries -> [capacity : Nat, in_use : BOOLEAN]]
  <2>1. Empty \in [capacity : Nat, in_use : BOOLEAN]
    BY DEF Empty
  <2>2. QED
    BY <1>2, <2>1
<1>7. TypeOK
  BY <1>2, <1>3, <1>4, <1>5, <1>6 DEF TypeOK
<1>8. Got \in SUBSET Buffers
  BY DEF Got
<1>9. Cardinality(Got) \in Nat
  BY <1>4, <1>8, SubsetCounts
<1>10. QED
  BY <1>2, <1>7, <1>9 DEF Typed, MappedForGot

\* Every variable keeps its type, whatever the configurations; a run maps no more
\* blocks than its parser has buffers.
THEOREM TypeCorrect == Spec => []TypeOK
<1>1. Typed => TypeOK
  BY DEF Typed
<1>2. QED
  BY <1>1, InitTyped, NextTyped, PTL DEF Spec

-----------------------------------------------------------------------------
(* Blocks and the buffers in them.                                         *)

\* A large request is not served by the C library.
LargeInTable ==
  \A b \in Buffers : IsLarge(b) /\ held[b] # None => held[b] \in Entries

\* A block a parser is in is one the code can have given it.
Apart == BuffersApart /\ LargeInTable

LEMMA AllocateApart ==
  ASSUME Typed, Apart, NEW b \in Buffers, held[b] = None, Allocate(b), SameConfig
  PROVE  Apart'
<1>1. /\ table \in [Entries -> [capacity : Nat, in_use : BOOLEAN]]
      /\ held \in [Buffers -> {None, Malloced} \union Entries]
  BY DEF Typed, TypeOK
<1>2. /\ Buffers' = Buffers /\ Needs' = Needs /\ g_alloc' = g_alloc
      /\ \A d : IsLarge(d)' <=> IsLarge(d)
  BY DEF SameConfig, Buffers, Needs, g_alloc, IsLarge
<1>3. Needs[b] \in Nat
  BY ConfigFacts
<1>4. CASE FromLibrary(b) \/ FromNowhere(b)
  <2>1. /\ table' = table
        /\ held' = held \/ (~ IsLarge(b) /\ held' = [held EXCEPT ![b] = Malloced])
    BY <1>4 DEF FromLibrary, FromNowhere
  <2>2. CASE held' = held
    BY <1>2, <2>1, <2>2 DEF Apart, BuffersApart, LargeInTable
  <2>3. CASE ~ IsLarge(b) /\ held' = [held EXCEPT ![b] = Malloced]
    <3>1. \A d \in Buffers : held'[d] = IF d = b THEN Malloced ELSE held[d]
      BY <1>1, <2>3
    <3>2. BuffersApart'
      BY <1>2, <2>1, <3>1, NoneIsNoEntry DEF Apart, BuffersApart
    <3>3. LargeInTable'
      BY <1>2, <2>3, <3>1 DEF Apart, LargeInTable
    <3>4. QED
      BY <3>2, <3>3 DEF Apart
  <2>4. QED
    BY <2>1, <2>2, <2>3
<1>5. ASSUME NEW k \in Entries, FromPool(b, k) \/ FromSystem(b, k)
      PROVE  Apart'
  <2>1. ~ table[k].in_use
    BY <1>5 DEF FromPool, FromSystem, Fitting, FreeEntries, Empty
  <2>2. \A d \in Buffers : held[d] # k
    BY <2>1 DEF Apart, BuffersApart
  <2>3. \A d \in Buffers : held'[d] = IF d = b THEN k ELSE held[d]
    BY <1>1, <1>5 DEF FromPool, FromSystem
  <2>4. table'[k].in_use /\ table'[k].capacity >= Needs[b]
    <3>1. CASE FromPool(b, k)
      BY <1>1, <3>1 DEF FromPool, Fitting
    <3>2. CASE FromSystem(b, k)
      <4>1. Capacity(Needs[b]) \in Nat /\ Capacity(Needs[b]) >= Needs[b]
        BY <1>3, RoundedUp
      <4>2. table'[k] = [capacity |-> Capacity(Needs[b]), in_use |-> TRUE]
        BY <1>1, <3>2 DEF FromSystem
      <4>3. QED
        BY <4>1, <4>2
    <3>3. QED
      BY <1>5, <3>1, <3>2
  <2>5. \A j \in Entries : j # k => table'[j] = table[j]
    BY <1>1, <1>5 DEF FromPool, FromSystem
  <2>6. BuffersApart'
    <3>1. ASSUME NEW c \in Buffers, held'[c] \in Entries
          PROVE  /\ table'[held'[c]].in_use
                 /\ table'[held'[c]].capacity >= Needs[c]
                 /\ \A d \in Buffers : held'[d] = held'[c] => d = c
      <4>1. CASE c = b
        BY <2>2, <2>3, <2>4, <4>1
      <4>2. CASE c # b
        BY <2>2, <2>3, <2>5, <3>1, <4>2 DEF Apart, BuffersApart
      <4>3. QED
        BY <4>1, <4>2
    <3>2. ASSUME NEW j \in Entries, table'[j].in_use
          PROVE  \E c \in Buffers : held'[c] = j
      <4>1. CASE j = k
        BY <2>3, <4>1
      <4>2. CASE j # k
        <5>1. PICK c \in Buffers : held[c] = j
          BY <2>5, <3>2, <4>2 DEF Apart, BuffersApart
        <5>2. c # b
          BY <5>1, NoneIsNoEntry
        <5>3. QED
          BY <2>3, <5>1, <5>2
      <4>3. QED
        BY <4>1, <4>2
    <3>3. QED
      BY <1>2, <3>1, <3>2 DEF BuffersApart
  <2>7. LargeInTable'
    BY <1>2, <2>3 DEF Apart, LargeInTable
  <2>8. QED
    BY <2>6, <2>7 DEF Apart
<1>6. QED
  BY <1>4, <1>5, AllocateCases

\* Once a parser is freed, no block is taken, and no entry has been filled.
LEMMA ReleasedFacts ==
  ASSUME Typed, Apart, ReleaseAll
  PROVE  \A k \in Entries : /\ ~ table'[k].in_use
                            /\ table'[k] # Empty => table[k] # Empty
                            /\ g_alloc = "pool" => table'[k].capacity = table[k].capacity
                            /\ g_alloc # "pool" => \A b \in Buffers :
                                                      held[b] = k => table'[k] = Empty
<1>1. /\ table \in [Entries -> [capacity : Nat, in_use : BOOLEAN]]
      /\ \A k \in Entries : table'[k] = Released(k)
  BY ReleaseFacts DEF Typed, TypeOK
<1>2. SUFFICES ASSUME NEW k \in Entries
               PROVE  /\ ~ Released(k).in_use
                      /\ Released(k) # Empty => table[k] # Empty
                      /\ g_alloc = "pool" => Released(k).capacity = table[k].capacity
                      /\ g_alloc # "pool" => \A b \in Buffers :
                                               held[b] = k => Released(k) = Empty
  BY <1>1
<1>3. CASE \E b \in Buffers : held[b] = k
  <2>1. table[k].in_use
    BY <1>3 DEF Apart, BuffersApart
  <2>2. table[k] # Empty
    BY <2>1 DEF Empty
  <2>3. table[k] \in [capacity : Nat, in_use : BOOLEAN]
    BY <1>1
  <2>4. QED
    BY <1>3, <2>2, <2>3 DEF Released, Empty
<1>4. CASE ~ \E b \in Buffers : held[b] = k
  <2>1. ~ table[k].in_use
    BY <1>4 DEF Apart, BuffersApart
  <2>2. Released(k) = table[k]
    BY <1>4 DEF Released
  <2>3. QED
    BY <1>4, <2>1, <2>2
<1>5. QED
  BY <1>3, <1>4

\* A parser without buffers.
LEMMA NothingHeld ==
  ASSUME \A b \in Buffers' : held'[b] = None, \A k \in Entries : ~ table'[k].in_use
  PROVE  Apart'
<1>1. Entries' = Entries
  BY DEF Entries
<1>2. QED
  BY <1>1, NoneIsNoEntry DEF Apart, BuffersApart, LargeInTable

LEMMA NextApart == Typed /\ Apart /\ [Next]_vars => Apart'
<1>1. SUFFICES ASSUME Typed, Apart, [Next]_vars PROVE Apart'
  OBVIOUS
<1>2. \A c : \A b \in 1 .. Len(plan[c].needs) : NoBuffers(c)[b] = None
  BY DEF NoBuffers
<1>3. CASE UNCHANGED <<plan, config, table, held>>
  <2>1. /\ Needs' = Needs /\ Buffers' = Buffers
        /\ \A d : IsLarge(d)' <=> IsLarge(d)
    BY <1>3 DEF Needs, Buffers, IsLarge, g_alloc
  <2>2. QED
    BY <1>1, <1>3, <2>1 DEF Apart, BuffersApart, LargeInTable
<1>4. ASSUME NEW b \in Buffers, Prepare(b) \/ Obtain(b) PROVE Apart'
  BY <1>1, <1>4, AllocateApart DEF Prepare, Obtain, SameConfig
<1>5. CASE ReleaseAll /\ plan' = plan /\ held' = NoBuffers(config')
  <2>1. \A b \in Buffers' : held'[b] = None
    BY <1>2, <1>5 DEF Buffers, Needs
  <2>2. \A k \in Entries : ~ table'[k].in_use
    BY <1>1, <1>5, ReleasedFacts
  <2>3. QED
    BY <2>1, <2>2, NothingHeld
<1>6. CASE EndRun \/ EndConfig \/ ParseFails
  <2>1. \/ UNCHANGED <<plan, config, table, held>>
        \/ ReleaseAll /\ plan' = plan /\ held' = NoBuffers(config')
    BY <1>6 DEF EndRun, EndConfig, ParseFails
  <2>2. QED
    BY <1>3, <1>5, <2>1
<1>7. CASE Prepared \/ UNCHANGED vars
  BY <1>3, <1>7 DEF Prepared, vars
<1>8. QED
  BY <1>1, <1>4, <1>6, <1>7 DEF Next

LEMMA InitApart == Init => Apart
<1>1. SUFFICES ASSUME Init PROVE Apart
  OBVIOUS
<1>2. /\ table = [k \in Entries |-> Empty] /\ held = NoBuffers(1) /\ config = 1
  BY <1>1 DEF Init
<1>3. \A b \in Buffers : held[b] = None
  BY <1>2 DEF NoBuffers, Buffers, Needs
<1>4. \A k \in Entries : ~ table[k].in_use
  BY <1>2 DEF Empty
<1>5. QED
  BY <1>3, <1>4, NoneIsNoEntry DEF Apart, BuffersApart, LargeInTable

\* No two buffers share a block, each has room in its own, and blocks are marked as
\* taken exactly while a buffer is in them, whatever modes follow one another.
THEOREM BuffersNeverShare == Spec => []BuffersApart
<1>1. Apart => BuffersApart
  BY DEF Apart
<1>2. QED
  BY <1>1, InitTyped, NextTyped, InitApart, NextApart, PTL DEF Spec

-----------------------------------------------------------------------------
(* The warm pool: a best fit leaves a block for every buffer still to come.*)

\* The large buffers the parser has yet to ask for.
Wanting == {b \in Buffers : Needs[b] >= Large /\ held[b] = None}

\* m gives each of them a freed block of its own it fits in.
Seats(m) ==
  /\ m \in [Wanting -> Entries]
  /\ \A b \in Wanting : m[b] \in Fitting(Needs[b])
  /\ \A b, d \in Wanting : b # d => m[b] # m[d]

\* From the first timed run on, the pool has one for each.
Seated == g_alloc = "pool" /\ run > 0 /\ Active => \E m : Seats(m)

\* Only a fresh parser asks for a buffer in a timed run.
KeptIsWhole ==
  /\ stage = "preparing" => run = 0
  /\ ~ Fresh /\ run > 0 /\ Active => \A b \in Buffers : held[b] # None

Warm == Seated /\ KeptIsWhole /\ WarmPoolMapsNothing

LEMMA FittingFacts ==
  ASSUME g_alloc = "pool"
  PROVE  \A n : Fitting(n) = {k \in Entries : /\ table[k] # Empty /\ ~ table[k].in_use
                                              /\ table[k].capacity >= n}
  BY DEF Fitting

\* Whoever was promised the block that is taken gets the one promised to the taker,
\* which is no smaller.
LEMMA BestFitKeepsSeats ==
  ASSUME Typed, g_alloc = "pool", NEW b \in Buffers, held[b] = None, NEW k \in Entries,
         FromPool(b, k), SameConfig, NEW m, Seats(m)
  PROVE  \E n : Seats(n)'
<1>1. /\ table \in [Entries -> [capacity : Nat, in_use : BOOLEAN]]
      /\ held \in [Buffers -> {None, Malloced} \union Entries]
  BY DEF Typed, TypeOK
<1>2. /\ Buffers' = Buffers /\ Needs' = Needs /\ g_alloc' = "pool" /\ Entries' = Entries
      /\ \A d \in Buffers : Needs[d] \in Nat
  BY ConfigFacts DEF SameConfig, Buffers, Needs, g_alloc, Entries
<1>3. b \in Wanting
  BY DEF Wanting, FromPool, IsLarge
<1>4. Wanting' = Wanting \ {b}
  <2>1. \A d \in Buffers : held'[d] = IF d = b THEN k ELSE held[d]
    BY <1>1 DEF FromPool
  <2>2. QED
    BY <1>2, <2>1, NoneIsNoEntry DEF Wanting
<1> DEFINE n == [d \in Wanting' |-> IF m[d] = k THEN m[b] ELSE m[d]]
<1>5. m[b] \in Entries /\ m[b] \in Fitting(Needs[b]) /\ table[k].capacity <= table[m[b]].capacity
  BY <1>3 DEF Seats, FromPool
<1>6. \A j \in Entries : j # k => table'[j] = table[j]
  BY <1>1 DEF FromPool
<1>7. ASSUME NEW d \in Wanting' PROVE n[d] \in Entries /\ n[d] \in Fitting(Needs[d])'
  <2>1. d \in Wanting /\ d # b /\ d \in Buffers
    BY <1>4 DEF Wanting
  <2>2. m[d] \in Entries /\ m[d] \in Fitting(Needs[d]) /\ m[d] # m[b]
    BY <1>3, <2>1 DEF Seats
  <2>3. Fitting(Needs[d])' = {j \in Entries : /\ table'[j] # Empty /\ ~ table'[j].in_use
                                              /\ table'[j].capacity >= Needs[d]}
    BY <1>2 DEF Fitting, Empty
  <2>4. CASE m[d] = k
    <3>1. n[d] = m[b] /\ m[b] # k
      BY <2>2, <2>4
    <3>2. table[m[b]].capacity >= Needs[d]
      <4>1. table[k].capacity >= Needs[d]
        BY <2>2, <2>4, FittingFacts
      <4>2. table[k].capacity \in Nat /\ table[m[b]].capacity \in Nat /\ Needs[d] \in Nat
        BY <1>1, <1>2, <1>5, <2>1
      <4>3. QED
        BY <1>5, <4>1, <4>2
    <3>3. table[m[b]] # Empty /\ ~ table[m[b]].in_use
      BY <1>5, FittingFacts
    <3> HIDE DEF n
    <3>4. QED
      BY <1>5, <1>6, <2>3, <3>1, <3>2, <3>3
  <2>5. CASE m[d] # k
    <3>1. n[d] = m[d]
      BY <2>5
    <3>2. table[m[d]] # Empty /\ ~ table[m[d]].in_use /\ table[m[d]].capacity >= Needs[d]
      BY <2>2, FittingFacts
    <3> HIDE DEF n
    <3>3. QED
      BY <1>6, <2>2, <2>3, <2>5, <3>1, <3>2
  <2>6. QED
    BY <2>4, <2>5
<1>8. ASSUME NEW c \in Wanting', NEW d \in Wanting', c # d PROVE n[c] # n[d]
  <2>1. c \in Wanting /\ d \in Wanting /\ c # b /\ d # b
    BY <1>4
  <2>2. m[c] # m[d] /\ m[c] # m[b] /\ m[d] # m[b]
    BY <1>3, <1>8, <2>1 DEF Seats
  <2>3. QED
    BY <2>2
<1>9. n \in [Wanting' -> Entries]
  BY <1>7
<1>10. PICK x : x = n
  OBVIOUS
<1> HIDE DEF n
<1>11. Seats(x)'
  BY <1>2, <1>7, <1>8, <1>9, <1>10 DEF Seats
<1>12. QED
  BY <1>11

LEMMA AllocateWarm ==
  ASSUME Typed, Warm, NEW b \in Buffers, held[b] = None, Active,
         stage = "preparing" => run = 0, Allocate(b), SameConfig, UNCHANGED run
  PROVE  Warm'
<1>1. /\ table \in [Entries -> [capacity : Nat, in_use : BOOLEAN]]
      /\ held \in [Buffers -> {None, Malloced} \union Entries]
      /\ run \in 0 .. Reps /\ Reps \in Nat
  BY ConfigFacts DEF Typed, TypeOK
<1>2. /\ Buffers' = Buffers /\ Needs' = Needs /\ g_alloc' = g_alloc /\ Entries' = Entries
      /\ Fresh' = Fresh /\ run' = run
  BY DEF SameConfig, Buffers, Needs, g_alloc, Entries, Fresh
<1>3. KeptIsWhole'
  <2>1. stage' = stage \/ stage' = "no_room"
    BY AllocateCases DEF FromLibrary, FromPool, FromSystem, FromNowhere
  <2>2. ~ (~ Fresh /\ run > 0)
    BY DEF Warm, KeptIsWhole
  <2>3. QED
    BY <1>2, <2>1, <2>2 DEF Warm, KeptIsWhole
<1>4. CASE ~ (g_alloc = "pool" /\ run > 0)
  BY <1>2, <1>3, <1>4 DEF Warm, Seated, WarmPoolMapsNothing
<1>5. CASE g_alloc = "pool" /\ run > 0
  <2>1. PICK m : Seats(m)
    BY <1>5 DEF Warm, Seated
  <2>2. IsLarge(b) => Fitting(Needs[b]) # {}
    <3>1. IsLarge(b) => b \in Wanting
      BY DEF IsLarge, Wanting
    <3>2. QED
      BY <2>1, <3>1 DEF Seats
  <2>3. CASE FromLibrary(b)
    <3>1. /\ held' = [held EXCEPT ![b] = Malloced] /\ UNCHANGED <<stage, table, mapped>>
          /\ ~ (Needs[b] >= Large)
      BY <1>5, <2>3 DEF FromLibrary, IsLarge
    <3>2. Wanting' = Wanting
      BY <1>1, <1>2, <3>1, NoneIsNoEntry DEF Wanting
    <3>3. \A n : Fitting(n)' = Fitting(n)
      BY <1>2, <3>1 DEF Fitting
    <3>4. Seats(m)'
      BY <1>2, <2>1, <3>2, <3>3 DEF Seats
    <3>5. WarmPoolMapsNothing'
      BY <1>2, <3>1 DEF Warm, WarmPoolMapsNothing
    <3>6. QED
      BY <1>3, <3>4, <3>5 DEF Warm, Seated
  <2>4. ASSUME NEW k \in Entries, FromPool(b, k) PROVE Warm'
    <3>1. \E n : Seats(n)'
      BY <1>5, <2>1, <2>4, BestFitKeepsSeats
    <3>2. WarmPoolMapsNothing'
      BY <1>2, <2>4 DEF Warm, WarmPoolMapsNothing, FromPool
    <3>3. QED
      BY <1>3, <3>1, <3>2 DEF Warm, Seated
  <2>5. QED
    BY <2>2, <2>3, <2>4, AllocateCases DEF FromSystem, FromNowhere
<1>6. QED
  BY <1>4, <1>5

\* The blocks of the run that ends seat the buffers of the next one.
LEMMA EndRunSeats ==
  ASSUME Typed, Apart, EndRun, Fresh, g_alloc = "pool"
  PROVE  \E n : Seats(n)'
<1>1. /\ table \in [Entries -> [capacity : Nat, in_use : BOOLEAN]]
      /\ held \in [Buffers -> {None, Malloced} \union Entries]
  BY DEF Typed, TypeOK
<1>2. /\ \A b \in Buffers : held[b] # None
      /\ ReleaseAll /\ held' = NoBuffers(config) /\ plan' = plan /\ config' = config
  BY DEF EndRun
<1>3. /\ Buffers' = Buffers /\ Needs' = Needs /\ g_alloc' = "pool" /\ Entries' = Entries
      /\ \A d \in Buffers : Needs[d] \in Nat
      /\ Large \in Nat \ {0}
  BY <1>2, ConfigFacts DEF Buffers, Needs, g_alloc, Entries
<1>4. Wanting' \subseteq {b \in Buffers : Needs[b] >= Large}
  BY <1>3 DEF Wanting
<1> DEFINE n == [b \in Wanting' |-> held[b]]
<1>5. ASSUME NEW b \in Wanting'
      PROVE  /\ b \in Buffers /\ n[b] = held[b] /\ held[b] \in Entries
             /\ held[b] \in Fitting(Needs[b])'
  <2>1. b \in Buffers /\ Needs[b] >= Large /\ Needs[b] \in Nat
    BY <1>3, <1>4
  <2>2. held[b] \in Entries
    BY <1>2, <2>1 DEF Apart, LargeInTable, IsLarge
  <2>3. table[held[b]].capacity >= Needs[b]
    BY <2>1, <2>2 DEF Apart, BuffersApart
  <2>4. /\ ~ table'[held[b]].in_use
        /\ table'[held[b]].capacity = table[held[b]].capacity
    BY <1>2, <2>2, ReleasedFacts
  <2>5. table'[held[b]].capacity # 0
    BY <1>1, <1>3, <2>1, <2>2, <2>3, <2>4
  <2>6. table'[held[b]] # Empty
    BY <2>5 DEF Empty
  <2>7. held[b] \in Fitting(Needs[b])'
    BY <1>3, <2>2, <2>3, <2>4, <2>6 DEF Fitting, Empty
  <2>8. QED
    BY <2>1, <2>2, <2>7
<1>6. \A b, d \in Wanting' : b # d => n[b] # n[d]
  BY <1>5 DEF Apart, BuffersApart
<1>7. /\ n \in [Wanting' -> Entries]
      /\ \A b \in Wanting' : n[b] \in Fitting(Needs[b])'
  BY <1>5
<1>8. PICK x : x = n
  OBVIOUS
<1> HIDE DEF n
<1>9. Seats(x)'
  BY <1>3, <1>6, <1>7, <1>8 DEF Seats
<1>10. QED
  BY <1>9

LEMMA NextWarm == Typed /\ Apart /\ Warm /\ [Next]_vars => Warm'
<1>1. SUFFICES ASSUME Typed, Apart, Warm, [Next]_vars PROVE Warm'
  OBVIOUS
<1>2. ASSUME NEW b \in Buffers, Prepare(b) \/ Obtain(b) PROVE Warm'
  BY <1>1, <1>2, AllocateWarm DEF Prepare, Obtain, SameConfig, Active, Warm, KeptIsWhole
<1>3. CASE UNCHANGED vars
  <2>1. /\ UNCHANGED <<plan, config, stage, run, table, held, mapped>>
        /\ Buffers' = Buffers /\ Needs' = Needs /\ g_alloc' = g_alloc /\ Entries' = Entries
        /\ Fresh' = Fresh /\ Wanting' = Wanting /\ Active' = Active
        /\ \A n : Fitting(n)' = Fitting(n)
    BY <1>3 DEF vars, Buffers, Needs, g_alloc, Entries, Fresh, Wanting, Fitting, Active
  <2>2. \A m : Seats(m) => Seats(m)'
    BY <2>1 DEF Seats
  <2>3. QED
    BY <1>1, <2>1, <2>2 DEF Warm, Seated, KeptIsWhole, WarmPoolMapsNothing
<1>4. CASE Prepared
  <2>1. stage = "preparing" /\ stage' = "parsing" /\ run' = run /\ run = 0
    BY <1>1, <1>4 DEF Prepared, Warm, KeptIsWhole
  <2>2. QED
    BY <2>1 DEF Warm, Seated, KeptIsWhole, WarmPoolMapsNothing
<1>5. CASE EndRun
  <2>1. /\ mapped' = 0 /\ stage' = "parsing" /\ stage = "parsing"
        /\ Fresh' = Fresh /\ g_alloc' = g_alloc /\ Buffers' = Buffers
        /\ \A b \in Buffers : held[b] # None
    BY <1>5 DEF EndRun, Fresh, g_alloc, Buffers, Needs
  <2>2. WarmPoolMapsNothing' /\ stage' # "preparing"
    BY <2>1 DEF WarmPoolMapsNothing
  <2>3. CASE Fresh
    <3>1. Seated'
      BY <1>1, <1>5, <2>1, <2>3, EndRunSeats DEF Seated
    <3>2. QED
      BY <2>1, <2>2, <2>3, <3>1 DEF Warm, KeptIsWhole
  <2>4. CASE ~ Fresh
    <3>1. held' = held
      BY <1>5, <2>4 DEF EndRun
    <3>2. Wanting' = {}
      BY <2>1, <3>1 DEF Wanting
    <3>3. Seats([b \in {} |-> 1])'
      BY <3>2 DEF Seats
    <3>4. QED
      BY <2>1, <2>2, <3>1, <3>3 DEF Warm, Seated, KeptIsWhole
  <2>5. QED
    BY <1>1, <2>3, <2>4, ConfigFacts
<1>6. CASE EndConfig
  <2>1. /\ mapped' = 0 /\ (run' = 0 \/ stage' = "done")
        /\ stage' = "preparing" => run' = 0
    BY <1>6 DEF EndConfig
  <2>2. QED
    BY <2>1 DEF Warm, Seated, KeptIsWhole, WarmPoolMapsNothing, Active
<1>7. CASE ParseFails
  <2>1. stage' = "parse_failed" /\ g_alloc' = g_alloc /\ UNCHANGED <<run, mapped>>
    BY <1>7 DEF ParseFails, g_alloc
  <2>2. QED
    BY <1>1, <2>1 DEF Warm, Seated, KeptIsWhole, WarmPoolMapsNothing, Active
<1>8. QED
  BY <1>1, <1>2, <1>3, <1>4, <1>5, <1>6, <1>7 DEF Next

\* No timed run maps a block in the pool mode, whatever the pool holds from earlier
\* configurations and in whatever order the parser asks for its buffers.
THEOREM WarmPool == Spec => []WarmPoolMapsNothing
<1>1. Init => Warm
  BY DEF Init, Warm, Seated, KeptIsWhole, WarmPoolMapsNothing
<1>2. Warm => WarmPoolMapsNothing
  BY DEF Warm
<1>3. QED
  BY <1>1, <1>2, InitTyped, NextTyped, InitApart, NextApart, NextWarm, PTL DEF Spec

-----------------------------------------------------------------------------
(* The table: each entry that is filled was mapped for a buffer of its own.*)

Used == {k \in Entries : table[k] # Empty}

\* o tells for which buffer an entry was mapped.  In a run that may map blocks, those
\* mapped for the present configuration are those its buffers are in.
Owners(o) ==
  /\ o \in [Used -> LargeBuffers(plan)]
  /\ \A j, k \in Used : j # k => o[j] # o[k]
  /\ \A k \in Used : o[k][1] <= config
  /\ Active /\ (run = 0 \/ g_alloc # "pool") =>
       \A k \in Used : o[k][1] = config => held[o[k][2]] = k

Owned == stage # "no_room" /\ \E o : Owners(o)

LEMMA LargeBuffersFacts ==
  ASSUME Typed
  PROVE  /\ IsFiniteSet(LargeBuffers(plan))
         /\ \A x \in LargeBuffers(plan) : x[1] \in Nat /\ (x[1] = config => x[2] \in Buffers)
         /\ \A b \in Buffers : IsLarge(b) => <<config, b>> \in LargeBuffers(plan)
<1> DEFINE Of(c) == {b \in 1 .. Len(plan[c].needs) :
                       plan[c].alloc # "malloc" /\ plan[c].needs[b] >= Large}
           Parts == {{c} \X Of(c) : c \in 1 .. Len(plan)}
<1>1. plan \in Plans /\ config \in 1 .. Len(plan) /\ Len(plan) \in Nat
  BY ConfigFacts
<1>2. LargeBuffers(plan) = UNION Parts
  BY DEF LargeBuffers
<1>3. \A c \in 1 .. Len(plan) : IsFiniteSet({c} \X Of(c))
  <2>1. SUFFICES ASSUME NEW c \in 1 .. Len(plan) PROVE IsFiniteSet({c} \X Of(c))
    OBVIOUS
  <2>2. Len(plan[c].needs) \in Nat /\ Of(c) \in SUBSET (1 .. Len(plan[c].needs))
    BY <1>1, PlanFacts
  <2>3. IsFiniteSet(Of(c)) /\ IsFiniteSet({c})
    BY <2>2, SubsetCounts, FS_Singleton
  <2> HIDE DEF Of
  <2>4. QED
    BY <2>3, FS_Product
<1>4. IsFiniteSet(Parts)
  <2>1. IsFiniteSet(1 .. Len(plan))
    BY <1>1, FS_Interval
  <2> HIDE DEF Of
  <2> DEFINE f == [c \in 1 .. Len(plan) |-> {c} \X Of(c)]
  <2>2. f \in Surjection(1 .. Len(plan), Parts)
    BY DEF Surjection
  <2> HIDE DEF f
  <2>3. QED
    BY <2>1, <2>2, FS_Surjection
<1>5. IsFiniteSet(LargeBuffers(plan))
  <2>1. \A T \in Parts : IsFiniteSet(T)
    BY <1>3
  <2> HIDE DEF Parts
  <2>2. QED
    BY <1>2, <1>4, <2>1, FS_UNION
<1>6. ASSUME NEW x \in LargeBuffers(plan) PROVE x[1] \in Nat /\ (x[1] = config => x[2] \in Buffers)
  <2>1. PICK c \in 1 .. Len(plan) : x \in {c} \X Of(c)
    BY <1>2
  <2>2. x[1] = c /\ x[2] \in 1 .. Len(plan[c].needs)
    BY <2>1
  <2>3. QED
    BY <1>1, <2>2 DEF Buffers, Needs
<1>7. ASSUME NEW b \in Buffers, IsLarge(b) PROVE <<config, b>> \in LargeBuffers(plan)
  <2>1. b \in Of(config)
    BY <1>7 DEF IsLarge, Buffers, Needs, g_alloc
  <2> HIDE DEF Of
  <2>2. <<config, b>> \in {config} \X Of(config)
    BY <2>1
  <2>3. QED
    BY <1>1, <1>2, <2>2
<1>8. QED
  BY <1>5, <1>6, <1>7

\* A step that fills no entry.
LEMMA OwnersRestrict ==
  ASSUME NEW o, Owners(o), plan' = plan, Used' \subseteq Used,
         \A k \in Used : o[k][1] <= config',
         Active' /\ (run' = 0 \/ g_alloc' # "pool") =>
           \A k \in Used' : o[k][1] = config' => held'[o[k][2]] = k
  PROVE  \E x : Owners(x)'
<1> DEFINE n == [k \in Used' |-> o[k]]
<1>1. PICK x : x = n
  OBVIOUS
<1>2. x \in [Used' -> LargeBuffers(plan)] /\ \A k \in Used' : x[k] = o[k]
  BY <1>1 DEF Owners
<1>3. Owners(x)'
  <2>1. \A j, k \in Used' : j # k => x[j] # x[k]
    BY <1>2 DEF Owners
  <2>2. \A k \in Used' : x[k][1] <= config'
    BY <1>2
  <2>3. Active' /\ (run' = 0 \/ g_alloc' # "pool") =>
          \A k \in Used' : x[k][1] = config' => held'[x[k][2]] = k
    BY <1>2
  <2>4. QED
    BY <1>2, <2>1, <2>2, <2>3 DEF Owners
<1>4. QED
  BY <1>3

\* A block is mapped only where the configuration may still do so.
LEMMA OnlyColdMaps ==
  ASSUME Warm, Active, NEW b \in Buffers, held[b] = None, IsLarge(b), Fitting(Needs[b]) = {}
  PROVE  run = 0 \/ g_alloc # "pool" \/ ~ (run > 0)
<1>1. SUFFICES ASSUME g_alloc = "pool", run > 0 PROVE FALSE
  OBVIOUS
<1>2. PICK m : Seats(m)
  BY <1>1 DEF Warm, Seated
<1>3. b \in Wanting
  BY DEF Wanting, IsLarge
<1>4. QED
  BY <1>2, <1>3 DEF Seats

LEMMA AllocateOwned ==
  ASSUME TableFits, Typed, Warm, Owned, NEW b \in Buffers, held[b] = None, Active,
         Allocate(b), SameConfig, UNCHANGED run
  PROVE  Owned'
<1>1. /\ table \in [Entries -> [capacity : Nat, in_use : BOOLEAN]]
      /\ held \in [Buffers -> {None, Malloced} \union Entries]
      /\ run \in 0 .. Reps /\ plan \in Plans /\ config \in Nat
      /\ TableSize \in Nat
  BY ConfigFacts DEF Typed, TypeOK
<1>2. /\ plan' = plan /\ config' = config /\ run' = run /\ g_alloc' = g_alloc /\ Entries' = Entries
  BY DEF SameConfig, g_alloc, Entries
<1>3. PICK o : Owners(o)
  BY DEF Owned
<1> DEFINE Cold == run = 0 \/ g_alloc # "pool"
<1>4. \A k \in Used : /\ k \in Entries /\ o[k] \in LargeBuffers(plan) /\ o[k][1] <= config
                      /\ Cold => (o[k][1] = config => held[o[k][2]] = k)
  BY <1>3 DEF Owners, Used
<1>5. Cold => \A k \in Used : o[k] # <<config, b>>
  BY <1>4, NoneIsNoEntry
<1>6. \A x : held' = [held EXCEPT ![b] = x] /\ Cold =>
        \A k \in Used : o[k][1] = config => held'[o[k][2]] = k
  <2>1. SUFFICES ASSUME NEW x, held' = [held EXCEPT ![b] = x], Cold,
                        NEW k \in Used, o[k][1] = config
                 PROVE  held'[o[k][2]] = k
    OBVIOUS
  <2>2. held[o[k][2]] = k /\ o[k][2] \in Buffers
    BY <1>4, <2>1, LargeBuffersFacts
  <2>3. o[k][2] # b
    BY <1>4, <2>2, NoneIsNoEntry
  <2>4. QED
    BY <1>1, <2>1, <2>2, <2>3
<1>7. CASE FromLibrary(b) \/ \E k \in Entries : FromPool(b, k)
  <2>1. stage' = stage
    BY <1>7 DEF FromLibrary, FromPool
  <2>2. PICK x : held' = [held EXCEPT ![b] = x]
    BY <1>7 DEF FromLibrary, FromPool
  <2>3. Used' \subseteq Used
    BY <1>1, <1>2, <1>7 DEF FromLibrary, FromPool, Used, Fitting, Empty
  <2>4. \E y : Owners(y)'
    BY <1>2, <1>3, <1>4, <1>6, <2>2, <2>3, OwnersRestrict
  <2>5. QED
    BY <2>1, <2>4 DEF Owned
<1>8. ASSUME NEW k \in Entries, FromSystem(b, k) PROVE Owned'
  <2>1. Cold
    BY <1>1, <1>8, OnlyColdMaps DEF FromSystem
  <2>2. k \notin Used
    BY <1>8 DEF FromSystem, FreeEntries, Used
  <2>3. Used' = Used \union {k}
    <3>1. table'[k] # Empty /\ \A j \in Entries : j # k => table'[j] = table[j]
      BY <1>1, <1>8 DEF FromSystem, Empty
    <3>2. Empty' = Empty
      BY DEF Empty
    <3>3. QED
      BY <1>2, <3>1, <3>2 DEF Used
  <2> DEFINE n == [j \in Used' |-> IF j = k THEN <<config, b>> ELSE o[j]]
  <2>4. PICK x : x = n
    OBVIOUS
  <2>5. /\ x[k] = <<config, b>> /\ \A j \in Used : x[j] = o[j]
        /\ x \in [Used' -> LargeBuffers(plan)]
    <3>1. <<config, b>> \in LargeBuffers(plan)
      BY <1>8, LargeBuffersFacts DEF FromSystem
    <3>2. QED
      BY <1>4, <2>2, <2>3, <2>4, <3>1
  <2> HIDE DEF n
  <2>6. \A i, j \in Used' : i # j => x[i] # x[j]
    BY <1>3, <1>5, <2>1, <2>3, <2>5 DEF Owners
  <2>7. \A j \in Used' : x[j][1] <= config'
    BY <1>1, <1>2, <1>4, <2>3, <2>5
  <2>8. \A j \in Used' : x[j][1] = config' => held'[x[j][2]] = j
    <3>1. held' = [held EXCEPT ![b] = k]
      BY <1>8 DEF FromSystem
    <3>2. held'[b] = k
      BY <1>1, <3>1
    <3>3. \A j \in Used : o[j][1] = config => held'[o[j][2]] = j
      BY <1>6, <2>1, <3>1
    <3>4. SUFFICES ASSUME NEW j \in Used', x[j][1] = config' PROVE held'[x[j][2]] = j
      OBVIOUS
    <3>5. CASE j = k
      BY <2>5, <3>2, <3>5
    <3>6. CASE j # k
      BY <1>2, <2>3, <2>5, <3>3, <3>4, <3>6
    <3>7. QED
      BY <3>5, <3>6
  <2>9. Owners(x)'
    BY <1>2, <2>5, <2>6, <2>7, <2>8 DEF Owners
  <2>10. QED
    BY <1>8, <2>9 DEF Owned, FromSystem
<1>9. CASE FromNowhere(b)
  <2>1. Cold
    BY <1>1, <1>9, OnlyColdMaps DEF FromNowhere
  <2>2. Used = 1 .. TableSize
    BY <1>9 DEF FromNowhere, FreeEntries, Used, Entries
  <2> DEFINE All == LargeBuffers(plan)
             Rest == All \ {<<config, b>>}
  <2>3. <<config, b>> \in All /\ IsFiniteSet(All)
    BY <1>9, LargeBuffersFacts DEF FromNowhere
  <2>4. Cardinality(All) \in Nat /\ Cardinality(All) <= TableSize
    BY <1>1, <2>3, FS_CardinalityType DEF TableFits
  <2>5. IsFiniteSet(Rest) /\ Cardinality(Rest) = Cardinality(All) - 1
    BY <2>3, FS_RemoveElement
  <2>6. o \in Injection(Used, Rest)
    <3>1. o \in [Used -> Rest]
      BY <1>3, <1>5, <2>1 DEF Owners
    <3>2. \A j, k \in Used : j # k => o[j] # o[k]
      BY <1>3 DEF Owners
    <3> HIDE DEF Rest
    <3>3. QED
      BY <3>1, <3>2 DEF Injection, IsInjective
  <2> HIDE DEF All, Rest
  <2>7. Cardinality(Used) <= Cardinality(Rest)
    BY <2>5, <2>6, FS_Injection
  <2>8. Cardinality(Used) = TableSize
    <3>1. Cardinality(1 .. TableSize) = IF 1 > TableSize THEN 0 ELSE TableSize - 1 + 1
      BY <1>1, FS_Interval
    <3>2. QED
      BY <1>1, <2>2, <3>1
  <2>9. QED
    BY <1>1, <2>4, <2>5, <2>7, <2>8
<1>10. QED
  BY <1>7, <1>8, <1>9, AllocateCases

LEMMA NextOwned ==
  ASSUME TableFits, Typed, Apart, Warm, Owned, [Next]_vars
  PROVE  Owned'
<1>1. /\ table \in [Entries -> [capacity : Nat, in_use : BOOLEAN]]
      /\ run \in 0 .. Reps /\ plan \in Plans /\ config \in Nat
  BY ConfigFacts DEF Typed, TypeOK
<1>2. PICK o : Owners(o)
  BY DEF Owned
<1>3. \A k \in Used : /\ k \in Entries /\ o[k] \in LargeBuffers(plan)
                      /\ o[k][1] <= config /\ o[k][1] \in Nat
  BY <1>2, LargeBuffersFacts DEF Owners, Used
<1>4. ASSUME NEW b \in Buffers, Prepare(b) \/ Obtain(b) PROVE Owned'
  BY <1>4, AllocateOwned DEF Prepare, Obtain, SameConfig, Active
<1>5. CASE UNCHANGED <<plan, config, run, table, held>> /\ (stage' = stage \/ Prepared)
  <2>1. /\ Used' = Used /\ g_alloc' = g_alloc /\ (Active' => Active) /\ stage' # "no_room"
    BY <1>5 DEF Used, g_alloc, Active, Prepared, Entries, Empty, Owned
  <2>2. \E x : Owners(x)'
    BY <1>2, <1>3, <1>5, <2>1, OwnersRestrict DEF Owners
  <2>3. QED
    BY <2>1, <2>2 DEF Owned
<1>6. ReleaseAll => Used' \subseteq Used
  <2>1. Entries' = Entries /\ Empty' = Empty
    BY DEF Entries, Empty
  <2>2. QED
    BY <2>1, ReleasedFacts DEF Used
<1>7. CASE EndRun
  <2>1. /\ run' = run + 1 /\ UNCHANGED <<plan, config, stage>> /\ g_alloc' = g_alloc
        /\ stage = "parsing" /\ Active /\ run' # 0
    BY <1>1, <1>7 DEF EndRun, g_alloc, Active
  <2>2. CASE Fresh
    <3>1. ReleaseAll
      BY <1>7, <2>2, ConfigFacts DEF EndRun
    <3>2. g_alloc # "pool" => \A k \in Used' : o[k][1] # config
      <4>1. SUFFICES ASSUME g_alloc # "pool", NEW k \in Used', o[k][1] = config PROVE FALSE
        OBVIOUS
      <4>2. k \in Used
        BY <1>6, <3>1
      <4>3. held[o[k][2]] = k /\ o[k][2] \in Buffers /\ k \in Entries
        BY <1>2, <1>3, <2>1, <4>1, <4>2, LargeBuffersFacts DEF Owners
      <4>4. table'[k] = Empty
        BY <3>1, <4>1, <4>3, ReleasedFacts
      <4>5. QED
        BY <4>1, <4>4 DEF Used, Empty
    <3>3. \E x : Owners(x)'
      BY <1>2, <1>3, <1>6, <2>1, <3>1, <3>2, OwnersRestrict
    <3>4. QED
      BY <2>1, <3>3 DEF Owned
  <2>3. CASE ~ Fresh
    <3>1. table' = table /\ held' = held
      BY <1>7, <2>3 DEF EndRun
    <3>2. Used' = Used
      BY <3>1 DEF Used, Entries, Empty
    <3>3. \E x : Owners(x)'
      BY <1>2, <1>3, <2>1, <3>1, <3>2, OwnersRestrict DEF Owners
    <3>4. QED
      BY <2>1, <3>3 DEF Owned
  <2>4. QED
    BY <2>2, <2>3, ConfigFacts
<1>8. CASE EndConfig
  <2>1. ReleaseAll /\ plan' = plan /\ stage' \in {"parsing", "preparing", "done"}
    BY <1>8 DEF EndConfig
  <2>2. config' = config + 1 \/ (config' = config /\ stage' = "done")
    BY <1>8 DEF EndConfig
  <2>3. /\ \A k \in Used : o[k][1] <= config'
        /\ Active' => \A k \in Used : o[k][1] # config'
    BY <1>1, <1>3, <2>2 DEF Active
  <2>4. \E x : Owners(x)'
    BY <1>2, <1>6, <2>1, <2>3, OwnersRestrict
  <2>5. QED
    BY <2>1, <2>4 DEF Owned
<1>9. CASE ParseFails
  <2>1. ReleaseAll /\ plan' = plan /\ config' = config /\ stage' = "parse_failed" /\ ~ Active'
    BY <1>9 DEF ParseFails, Active
  <2>2. \E x : Owners(x)'
    BY <1>2, <1>3, <1>6, <2>1, OwnersRestrict
  <2>3. QED
    BY <2>1, <2>2 DEF Owned
<1>10. CASE Prepared \/ UNCHANGED vars
  BY <1>5, <1>10 DEF Prepared, vars
<1>11. QED
  BY <1>4, <1>7, <1>8, <1>9, <1>10 DEF Next

\* A table with an entry for each large buffer of the configurations is never full,
\* however often their parsers are freed and made anew.
THEOREM TableNeverFull ==
  ASSUME TableFits
  PROVE  Spec => []TableSuffices
<1>1. Init => Owned
  <2>1. SUFFICES ASSUME Init PROVE Owned
    OBVIOUS
  <2>2. Used = {} /\ stage # "no_room"
    BY <2>1 DEF Init, Used
  <2>3. Owners([k \in {} |-> 1])
    BY <2>2 DEF Owners
  <2>4. QED
    BY <2>2, <2>3 DEF Owned
<1>2. Init => Warm
  BY DEF Init, Warm, Seated, KeptIsWhole, WarmPoolMapsNothing
<1>3. Typed /\ Apart /\ Warm /\ Owned /\ [Next]_vars => Owned'
  BY NextOwned
<1>4. Owned => TableSuffices
  BY DEF Owned, TableSuffices
<1>5. QED
  BY <1>1, <1>2, <1>3, <1>4, InitTyped, NextTyped, InitApart, NextApart, NextWarm, PTL DEF Spec
=============================================================================
