--------------------------- MODULE ParseManyProofs ---------------------------
(***************************************************************************)
(* Theorems about parse_many and run_parallel, for every set of calls, any *)
(* number of workers and any size of text, slices and machine word, in     *)
(* four parts: the type invariant; what happens to documents while workers *)
(* claim slices; what a call that returns has done, and that it implements *)
(* ExactlyOnce; and what run_parallel adds up.  The last two rest on the   *)
(* conditions the code relies on: documents do not contain the delimiter,  *)
(* and the slices of a static partition can be counted in a size_t.        *)
(***************************************************************************)
EXTENDS ParseManyInvariant, RunParallel, SlicingProofs, SequenceTheorems, FiniteSetTheorems


-----------------------------------------------------------------------------
(* Facts about the constants of a call.                                    *)

LEMMA CallFacts ==
  ASSUME NEW c \in Calls
  PROVE  /\ c.json.length \in Nat
         /\ delimiters_for(c.json, c.opt.format) \in SUBSET (0 .. c.json.length - 1)
         /\ WorkerCount(c) \in Nat \ {0}
         /\ Workers(c) = 0 .. WorkerCount(c) - 1
         /\ SliceBytes(c) \in Nat \ {0}
         /\ SliceCount(c) \in Nat
         /\ c.opt.static_partition \in BOOLEAN
<1>1. IsText(c.json) /\ IsOptions(c.opt)
  BY CallsAssumption
<1>2. /\ c.json.length \in Nat
      /\ delimiters_for(c.json, c.opt.format) \in SUBSET (0 .. c.json.length - 1)
      /\ c.opt.static_partition \in BOOLEAN
  BY <1>1 DEF IsText, IsOptions, delimiters_for
<1>3. WorkerCount(c) \in Nat \ {0}
  BY <1>1, ConfigAssumption DEF IsOptions, WorkerCount
<1>4. SliceBytes(c) \in Nat \ {0}
  BY <1>1, ConfigAssumption DEF IsOptions, SliceBytes
<1>5. SliceCount(c) \in Nat
  <2>1. c.json.length + SliceBytes(c) - 1 \in Nat
    BY <1>2, <1>4
  <2>2. Wrap(c.json.length + SliceBytes(c) - 1) \in Nat
    BY <2>1, ConfigAssumption DEF Wrap
  <2>3. QED
    BY <2>2, <1>4 DEF SliceCount
<1>6. QED
  BY <1>2, <1>3, <1>4, <1>5 DEF Workers

LEMMA DocFacts ==
  ASSUME NEW c \in Calls, NEW d \in c.json.docs
  PROVE  /\ d.first \in 0 .. c.json.length - 1
         /\ d.last \in 0 .. c.json.length - 1
         /\ d.first <= d.last
         /\ d.code \in ErrorCodes \union {SUCCESS}
         /\ \A e \in c.json.docs : d = e \/ d.last < e.first \/ e.last < d.first
<1>1. IsText(c.json)
  BY CallsAssumption
<1>2. d \in Documents(c.json.length)
  BY <1>1 DEF IsText
<1>3. QED
  BY <1>1, <1>2 DEF IsText, Documents

\* The documents of a slice, and those of two slices.
LEMMA DocsOfFacts ==
  ASSUME NEW c \in Calls, NEW i \in Nat
  PROVE  /\ DocsOf(c, i) \subseteq c.json.docs
         /\ \A j \in Nat : \A d \in DocsOf(c, i), e \in DocsOf(c, j) :
              i < j => d.last < e.first
         /\ \A j \in Nat : i # j => DocsOf(c, i) \intersect DocsOf(c, j) = {}
<1>1. DocsOf(c, i) \subseteq c.json.docs
  BY DEF DocsOf, DocsIn
<1>2. ASSUME NEW k \in Nat, NEW j \in Nat, NEW d \in DocsOf(c, k), NEW e \in DocsOf(c, j),
             k < j
      PROVE  d.last < e.first
  <2> DEFINE delims == delimiters_for(c.json, c.opt.format)
             slice(n) == SliceAt(c.json.length, delims, SliceBytes(c), n)
  <2>1. /\ ~ IsEmpty(slice(k)) /\ d.last < slice(k).end
        /\ ~ IsEmpty(slice(j)) /\ slice(j).begin <= e.first
        /\ d \in c.json.docs /\ e \in c.json.docs
    BY DEF DocsOf, Piece, DocsIn
  <2>2. slice(k).end <= slice(j).begin
    BY <1>2, <2>1, SlicesInOrder, CallFacts
  <2>3. slice(k).end \in Int /\ slice(j).begin \in Int
    <3>1. /\ c.json.length \in Nat /\ delims \in SUBSET (0 .. c.json.length - 1)
          /\ SliceBytes(c) \in Nat \ {0}
      BY CallFacts
    <3> HIDE DEF delims
    <3>2. \A n \in Nat : ~ IsEmpty(slice(n)) => slice(n).begin \in Nat /\ slice(n).end \in Nat
      BY <3>1, SliceBetweenEdges
    <3>3. QED
      BY <2>1, <3>2
  <2>4. d.last \in Int /\ e.first \in Int
    BY <2>1, DocFacts
  <2> HIDE DEF slice
  <2>5. QED
    BY <2>1, <2>2, <2>3, <2>4
<1>3. ASSUME NEW j \in Nat, i # j, NEW d \in DocsOf(c, i), d \in DocsOf(c, j)
      PROVE  FALSE
  <2>1. d \in c.json.docs
    BY <1>1
  <2>2. d.first <= d.last /\ d.first \in Int /\ d.last \in Int
    BY <2>1, DocFacts
  <2>3. CASE i < j
    BY <1>2, <1>3, <2>2, <2>3
  <2>4. CASE j < i
    BY <1>2, <1>3, <2>2, <2>4
  <2>5. QED
    BY <1>3, <2>3, <2>4
<1>4. QED
  BY <1>1, <1>2, <1>3

\* What a stream yields next comes before the rest of it.
LEMMA FirstOfFacts ==
  ASSUME NEW c \in Calls, NEW docs \in SUBSET c.json.docs, docs # {}
  PROVE  /\ FirstOf(docs) \in docs
         /\ \A e \in docs \ {FirstOf(docs)} : FirstOf(docs).last < e.first
<1> DEFINE starts == {d.first : d \in docs}
<1>1. \A d \in docs : d \in c.json.docs /\ d.first \in Nat /\ d.last \in Nat
  BY DocFacts, CallFacts
<1>2. starts \in SUBSET Nat /\ starts # {}
  BY <1>1
<1>3. PICK n \in starts : \A m \in starts : n <= m
  BY <1>2, LeastElement
<1>4. \E d \in docs : \A e \in docs : d.first <= e.first
  BY <1>3
<1>5. FirstOf(docs) \in docs /\ \A e \in docs : FirstOf(docs).first <= e.first
  BY <1>4 DEF FirstOf
<1>6. ASSUME NEW e \in docs, e # FirstOf(docs)
      PROVE  FirstOf(docs).last < e.first
  <2>1. FirstOf(docs).first <= e.first /\ e.first <= e.last
    BY <1>1, <1>5, DocFacts
  <2>2. FirstOf(docs).last < e.first \/ e.last < FirstOf(docs).first
    BY <1>1, <1>5, <1>6, DocFacts
  <2>3. QED
    BY <1>1, <1>5, <2>1, <2>2
<1>7. QED
  BY <1>5, <1>6

\* The runs of a static partition are shares of the slices, in the order of the workers.
LEMMA StaticBounds ==
  ASSUME NEW c \in Calls, c.opt.static_partition
  PROVE  \A v, w \in 0 .. WorkerCount(c) :
           /\ StaticBound(c, v) = Share(SliceCount(c), WorkerCount(c), v)
           /\ StaticBound(c, v) \in Nat
           /\ v <= w => StaticBound(c, v) <= StaticBound(c, w)
<1> DEFINE N == SliceCount(c)
           W == WorkerCount(c)
<1>1. N \in Nat /\ W \in Nat \ {0} /\ N * W < WordSize /\ WordSize \in Nat \ {0}
  BY CallFacts, StaticFitsAssumption, ConfigAssumption
<1>2. ASSUME NEW v \in 0 .. W
      PROVE  StaticBound(c, v) = Share(N, W, v)
  <2> HIDE DEF N, W
  <2>0. v \in Nat /\ W \in Nat /\ v <= W /\ N * v \in Nat /\ N * W \in Nat
    BY <1>1
  <2>1. N * v <= N * W
    BY <1>1, <2>0, Shares
  <2>2. N * v < WordSize
    BY <1>1, <2>0, <2>1
  <2>3. Wrap(N * v) = N * v
    BY <1>1, <2>0, <2>2, SmallMod DEF Wrap
  <2>4. QED
    BY <2>3 DEF StaticBound, Share, N, W
<1>3. \A v, w \in 0 .. W :
        /\ Share(N, W, v) \in Nat
        /\ v <= w => Share(N, W, v) <= Share(N, W, w)
  <2> HIDE DEF N, W
  <2>1. \A v \in 0 .. W : v \in Nat
    OBVIOUS
  <2>2. QED
    BY <1>1, <2>1, Shares
<1>4. QED
  BY <1>2, <1>3

LEMMA StaticBoundNat ==
  ASSUME NEW c \in Calls, NEW w \in Nat
  PROVE  StaticBound(c, w) \in Nat
<1>1. SliceCount(c) * w \in Nat /\ WorkerCount(c) \in Nat \ {0}
  BY CallFacts
<1>2. Wrap(SliceCount(c) * w) \in Nat
  BY <1>1, ConfigAssumption DEF Wrap
<1>3. QED
  BY <1>1, <1>2 DEF StaticBound

-----------------------------------------------------------------------------
(* Type correctness.                                                       *)

Typed == call \in Calls /\ TypeOK

LEMMA InitTyped == Init => Typed
<1>1. SUFFICES ASSUME Init PROVE Typed
  OBVIOUS
<1>2. call \in Calls
  BY <1>1 DEF Init
<1>3. \A w \in Workers(call) : StaticBound(call, w) \in Nat
  BY <1>2, CallFacts, StaticBoundNat
<1>4. WorkerCount(call) \in Nat
  BY <1>2, CallFacts
<1>5. QED
  BY <1>1, <1>2, <1>3, <1>4 DEF Init, Typed, TypeOK, EmptyResult

LEMMA RecordErrorTyped ==
  ASSUME Typed, NEW w \in Workers(call), NEW e \in ErrorCodes, RecordError(w, e)
  PROVE  /\ errors' \in [Workers(call) -> Nat]
         /\ first' \in [Workers(call) -> ErrorCodes \union {SUCCESS}]
  BY DEF Typed, TypeOK, RecordError

LEMMA ProcessTyped ==
  ASSUME Typed, NEW w \in Workers(call), NEW i \in Nat, Process(w, i)
  PROVE  /\ pc' \in [Workers(call) -> {"unborn", "running", "exited"}]
         /\ todo' \in [Workers(call) -> SUBSET call.json.docs]
         /\ errors' \in [Workers(call) -> Nat]
         /\ first' \in [Workers(call) -> ErrorCodes \union {SUCCESS}]
         /\ dropped' \in SUBSET call.json.docs
<1>1. DocsOf(call, i) \subseteq call.json.docs
  BY DocsOfFacts DEF Typed
<1>2. ASSUME NEW e \in StreamErrors, RecordError(w, e)
      PROVE  /\ errors' \in [Workers(call) -> Nat]
             /\ first' \in [Workers(call) -> ErrorCodes \union {SUCCESS}]
  BY <1>2, RecordErrorTyped, ConfigAssumption
<1>3. CASE /\ \E e \in StreamErrors : RecordError(w, e)
           /\ dropped' = dropped \union DocsOf(call, i)
           /\ UNCHANGED <<pc, todo>>
  BY <1>1, <1>2, <1>3 DEF Typed, TypeOK
<1>4. CASE todo' = [todo EXCEPT ![w] = DocsOf(call, i)] /\ UNCHANGED <<pc, errors, first, dropped>>
  BY <1>1, <1>4 DEF Typed, TypeOK
<1>5. CASE pc' = [pc EXCEPT ![w] = "exited"] /\ UNCHANGED <<todo, errors, first, dropped>>
  BY <1>5 DEF Typed, TypeOK
<1>6. CASE UNCHANGED <<pc, todo, errors, first, dropped>>
  BY <1>6 DEF Typed, TypeOK
<1>7. QED
  BY <1>3, <1>4, <1>5, <1>6 DEF Process

LEMMA NextTyped == Typed /\ [Next]_vars => Typed'
<1>1. SUFFICES ASSUME Typed, [Next]_vars PROVE Typed'
  OBVIOUS
<1>2. call' = call
  BY <1>1 DEF Next, Caller, Worker, Terminated, vars, Spawn, Merge, Return,
              ClaimShared, ClaimOwn, FinishOwn, Extract
<1>3. /\ WorkerCount(call)' = WorkerCount(call)
      /\ Workers(call)' = Workers(call)
      /\ WorkerCount(call) \in Nat \ {0}
      /\ Workers(call) = 0 .. WorkerCount(call) - 1
  BY <1>1, <1>2, CallFacts DEF Typed
<1>4. SUFFICES /\ cursor' \in Nat
               /\ pc' \in [Workers(call) -> {"unborn", "running", "exited"}]
               /\ next' \in [Workers(call) -> Nat]
               /\ todo' \in [Workers(call) -> SUBSET call.json.docs]
               /\ shards' \in [Workers(call) -> Seq(call.json.docs)]
               /\ errors' \in [Workers(call) -> Nat]
               /\ first' \in [Workers(call) -> ErrorCodes \union {SUCCESS}]
               /\ merged' \in 0 .. WorkerCount(call)
               /\ out' \in [returned : BOOLEAN, errors : Nat,
                            first_error : ErrorCodes \union {SUCCESS}]
               /\ dropped' \in SUBSET call.json.docs
  BY <1>1, <1>2, <1>3 DEF Typed, TypeOK
<1>5. CASE \E w \in Workers(call) : Spawn(w)
  BY <1>1, <1>5 DEF Typed, TypeOK, Spawn
<1>6. CASE Merge
  <2>1. /\ merged' = merged + 1
        /\ merged \in Workers(call)
        /\ UNCHANGED <<cursor, pc, next, todo, shards, errors, first, dropped>>
    BY <1>6 DEF Merge
  <2>2. errors[merged] \in Nat /\ first[merged] \in ErrorCodes \union {SUCCESS}
    BY <1>1, <2>1 DEF Typed, TypeOK
  <2>3. out' \in [returned : BOOLEAN, errors : Nat, first_error : ErrorCodes \union {SUCCESS}]
    <3>1. /\ out \in [returned : BOOLEAN, errors : Nat, first_error : ErrorCodes \union {SUCCESS}]
          /\ out.returned \in BOOLEAN /\ out.errors \in Nat
          /\ out.first_error \in ErrorCodes \union {SUCCESS}
      BY <1>1 DEF Typed, TypeOK
    <3>2. out' = [returned    |-> out.returned,
                  errors      |-> out.errors + errors[merged],
                  first_error |-> IF out.first_error = SUCCESS THEN first[merged]
                                  ELSE out.first_error]
      BY <1>6, <3>1 DEF Merge
    <3>3. QED
      BY <2>2, <3>1, <3>2
  <2>4. merged' \in 0 .. WorkerCount(call)
    BY <1>3, <2>1
  <2>5. QED
    BY <1>1, <2>1, <2>3, <2>4 DEF Typed, TypeOK
<1>7. CASE Return
  BY <1>1, <1>7 DEF Typed, TypeOK, Return
<1>8. ASSUME NEW w \in Workers(call), ClaimShared(w)
      PROVE  <1>4!1
  <2>1. cursor \in Nat /\ Process(w, cursor)
    BY <1>1, <1>8 DEF Typed, TypeOK, ClaimShared
  <2>2. cursor' = cursor + 1 /\ UNCHANGED <<next, shards, merged, out>>
    BY <1>8 DEF ClaimShared
  <2>3. QED
    BY <1>1, <2>1, <2>2, ProcessTyped DEF Typed, TypeOK
<1>9. ASSUME NEW w \in Workers(call), ClaimOwn(w)
      PROVE  <1>4!1
  <2>1. next[w] \in Nat /\ Process(w, next[w])
    BY <1>1, <1>9 DEF Typed, TypeOK, ClaimOwn
  <2>2. next' = [next EXCEPT ![w] = @ + 1] /\ UNCHANGED <<cursor, shards, merged, out>>
    BY <1>9 DEF ClaimOwn
  <2>3. QED
    BY <1>1, <2>1, <2>2, ProcessTyped DEF Typed, TypeOK
<1>10. ASSUME NEW w \in Workers(call), FinishOwn(w)
       PROVE  <1>4!1
  BY <1>1, <1>10 DEF Typed, TypeOK, FinishOwn
<1>11. ASSUME NEW w \in Workers(call), Extract(w)
       PROVE  <1>4!1
  <2> DEFINE d == FirstOf(todo[w])
  <2>1. todo[w] \in SUBSET call.json.docs /\ todo[w] # {} /\ shards[w] \in Seq(call.json.docs)
    BY <1>1, <1>11 DEF Typed, TypeOK, Extract
  <2>2. d \in todo[w]
    BY <1>1, <2>1, FirstOfFacts DEF Typed
  <2>3. d \in call.json.docs /\ d.code \in ErrorCodes \union {SUCCESS}
    BY <1>1, <2>1, <2>2, DocFacts DEF Typed
  <2>4. UNCHANGED <<cursor, pc, next, merged, out>> /\ todo' = [todo EXCEPT ![w] = @ \ {d}]
    BY <1>11 DEF Extract
  <2>5. CASE d.code = SUCCESS
    <3>1. shards' = [shards EXCEPT ![w] = Append(@, d)] /\ UNCHANGED <<errors, first, dropped>>
      BY <1>11, <2>5 DEF Extract
    <3> HIDE DEF d
    <3>2. Append(shards[w], d) \in Seq(call.json.docs)
      BY <2>1, <2>3, AppendProperties
    <3>3. QED
      BY <1>1, <2>1, <2>4, <3>1, <3>2 DEF Typed, TypeOK
  <2>6. CASE d.code # SUCCESS
    <3>1. RecordError(w, d.code) /\ dropped' = dropped \union {d} /\ UNCHANGED shards
      BY <1>11, <2>6 DEF Extract
    <3>2. d.code \in ErrorCodes
      BY <2>3, <2>6
    <3> HIDE DEF d
    <3>3. QED
      BY <1>1, <2>1, <2>3, <2>4, <3>1, <3>2, RecordErrorTyped DEF Typed, TypeOK
  <2>7. QED
    BY <2>5, <2>6
<1>12. CASE UNCHANGED vars
  BY <1>1, <1>12 DEF Typed, TypeOK, vars
<1>13. QED
  BY <1>1, <1>5, <1>6, <1>7, <1>8, <1>9, <1>10, <1>11, <1>12
     DEF Next, Caller, Worker, Terminated

\* Every variable keeps its type, in every execution of every call.
THEOREM TypeCorrect == Spec => []TypeOK
<1>1. Typed => TypeOK
  BY DEF Typed
<1>2. QED
  BY <1>1, InitTyped, NextTyped, PTL DEF Spec

-----------------------------------------------------------------------------
(* What a claim does.                                                      *)

LEMMA ReachedInNat ==
  ASSUME Typed, NEW w \in Workers(call)
  PROVE  Reached(w) \subseteq Nat
<1>1. call \in Calls /\ cursor \in Nat /\ next[w] \in Nat
  BY DEF Typed, TypeOK
<1>2. StaticBound(call, w) \in Nat
  BY <1>1, CallFacts, StaticBoundNat
<1>3. QED
  BY <1>1, <1>2 DEF Reached

\* A claimed slice past the end of the text holds no document.
LEMMA PastTheEndIsEmpty ==
  ASSUME call \in Calls, NEW i \in Nat, PastTheEnd(i)
  PROVE  i * SliceBytes(call) >= call.json.length /\ DocsOf(call, i) = {}
<1>1. /\ call.json.length \in Nat /\ SliceBytes(call) \in Nat \ {0}
      /\ WordSize \in Nat \ {0}
  BY CallFacts, ConfigAssumption
<1>2. i * SliceBytes(call) \in Nat
  BY <1>1
<1>3. Wrap(i * SliceBytes(call)) <= i * SliceBytes(call)
  BY <1>1, <1>2 DEF Wrap
<1>4. i * SliceBytes(call) >= call.json.length
  BY <1>1, <1>2, <1>3, ConfigAssumption DEF PastTheEnd, Wrap
<1>5. IsEmpty(Piece(call, i))
  BY <1>4 DEF Piece, SliceAt, IsEmpty, EmptyPiece
<1>6. QED
  BY <1>4, <1>5 DEF DocsOf

LEMMA ProcessEffects ==
  ASSUME call \in Calls, NEW w, NEW i \in Nat, Process(w, i)
  PROVE  \/ /\ todo' = [todo EXCEPT ![w] = DocsOf(call, i)]
            /\ UNCHANGED <<pc, errors, first, dropped>>
         \/ /\ \E e \in StreamErrors : RecordError(w, e)
            /\ dropped' = dropped \union DocsOf(call, i)
            /\ UNCHANGED <<pc, todo>>
         \/ /\ DocsOf(call, i) = {}
            /\ pc' = pc \/ (pc' = [pc EXCEPT ![w] = "exited"] /\ PastTheEnd(i))
            /\ UNCHANGED <<todo, errors, first, dropped>>
  BY PastTheEndIsEmpty DEF Process, DocsOf

Fresh(i) == \A v \in Workers(call) : i \notin Reached(v)

\* A claim hands out a slice nobody has reached, past all those of its worker.
LEMMA ClaimFacts ==
  ASSUME Typed, RunsInBounds, NEW w \in Workers(call), ClaimShared(w) \/ ClaimOwn(w)
  PROVE  \E i \in Nat :
           /\ Idle(w) /\ Process(w, i) /\ UNCHANGED <<call, shards, merged, out>>
           /\ Fresh(i)
           /\ \A j \in Reached(w) : j < i
           /\ i \in Reached(w)'
           /\ \A v \in Workers(call) : /\ Reached(v) \subseteq Reached(v)'
                                       /\ Reached(v)' \subseteq Reached(v) \union {i}
           /\ RunsInBounds'
           /\ IF call.opt.static_partition
                THEN /\ next' = [next EXCEPT ![w] = i + 1] /\ cursor' = cursor /\ i = next[w]
                     /\ i < StaticBound(call, w + 1)
                ELSE i = cursor /\ cursor' = cursor + 1 /\ next' = next
<1>1. /\ call \in Calls /\ cursor \in Nat
      /\ next \in [Workers(call) -> Nat]
      /\ WorkerCount(call) \in Nat \ {0}
      /\ Workers(call) = 0 .. WorkerCount(call) - 1
  BY CallFacts DEF Typed, TypeOK
<1>2. CASE ClaimShared(w)
  <2>1. /\ ~ call.opt.static_partition
        /\ Idle(w) /\ Process(w, cursor) /\ cursor' = cursor + 1
        /\ UNCHANGED <<call, next, shards, merged, out>>
    BY <1>2 DEF ClaimShared
  <2>2. \A v \in Workers(call) : Reached(v) = 0 .. cursor - 1 /\ Reached(v)' = 0 .. cursor
    BY <1>1, <2>1 DEF Reached
  <2>3. Fresh(cursor)
    BY <1>1, <2>2 DEF Fresh
  <2>4. RunsInBounds'
    BY <2>1 DEF RunsInBounds
  <2>5. \A v \in Workers(call) : /\ Reached(v) \subseteq Reached(v)'
                                 /\ Reached(v)' \subseteq Reached(v) \union {cursor}
    BY <1>1, <2>2
  <2>6. cursor \in Reached(w)' /\ \A j \in Reached(w) : j < cursor
    BY <1>1, <2>2
  <2>7. QED
    BY <1>1, <2>1, <2>3, <2>4, <2>5, <2>6
<1>3. CASE ClaimOwn(w)
  <2> DEFINE i == next[w]
             Bound(v) == StaticBound(call, v)
  <2>1. /\ call.opt.static_partition
        /\ Idle(w) /\ Process(w, i) /\ next' = [next EXCEPT ![w] = @ + 1]
        /\ i < Bound(w + 1)
        /\ UNCHANGED <<call, cursor, shards, merged, out>>
    BY <1>3 DEF ClaimOwn
  <2>2. i \in Nat /\ next' = [next EXCEPT ![w] = i + 1]
    BY <1>1, <2>1
  <2>3. \A u, v \in 0 .. WorkerCount(call) : Bound(v) \in Nat /\ (u <= v => Bound(u) <= Bound(v))
    BY <1>1, <2>1, StaticBounds
  <2>4. \A v \in Workers(call) : /\ Bound(v) \in Nat /\ Bound(v + 1) \in Nat
                                 /\ next[v] \in Bound(v) .. Bound(v + 1)
    BY <1>1, <2>1, <2>3 DEF RunsInBounds
  <2>5. \A v \in Workers(call) : Bound(v)' = Bound(v) /\ Bound(v + 1)' = Bound(v + 1)
    BY <2>1
  <2>6. \A v \in Workers(call) : Reached(v) = Bound(v) .. next[v] - 1
    BY <2>1 DEF Reached
  <2>7. \A v \in Workers(call) : Reached(v)' = Bound(v) .. next'[v] - 1
    BY <2>1, <2>5 DEF Reached
  <2>8. \A v \in Workers(call) : next'[v] = IF v = w THEN i + 1 ELSE next[v]
    BY <1>1, <2>2
  <2>9. Fresh(i)
    <3>1. SUFFICES ASSUME NEW v \in Workers(call), i \in Reached(v) PROVE FALSE
      BY DEF Fresh
    <3>2. i \in Bound(v) .. next[v] - 1
      BY <2>6, <3>1
    <3>3. CASE v = w
      BY <2>2, <3>2, <3>3
    <3>4. CASE v < w
      <4>1. Bound(v + 1) <= Bound(w)
        BY <1>1, <2>3, <3>4
      <4>2. QED
        BY <2>2, <2>4, <3>2, <4>1
    <3>5. CASE w < v
      <4>1. Bound(w + 1) <= Bound(v)
        BY <1>1, <2>3, <3>5
      <4>2. QED
        BY <2>1, <2>2, <2>4, <3>2, <4>1
    <3>6. QED
      BY <1>1, <3>3, <3>4, <3>5
  <2>10. RunsInBounds'
    BY <2>1, <2>2, <2>4, <2>5, <2>8 DEF RunsInBounds
  <2>11. ASSUME NEW v \in Workers(call)
         PROVE  /\ Reached(v) \subseteq Reached(v)'
                /\ Reached(v)' \subseteq Reached(v) \union {i}
    <3>1. CASE v = w
      <4>1. Reached(v) = Bound(w) .. i - 1 /\ Reached(v)' = Bound(w) .. (i + 1) - 1
        BY <2>6, <2>7, <2>8, <3>1
      <4>2. Bound(w) \in Nat
        BY <2>4
      <4> HIDE DEF i, Bound
      <4>3. QED
        BY <2>2, <4>1, <4>2
    <3>2. CASE v # w
      BY <2>6, <2>7, <2>8, <3>2
    <3>3. QED
      BY <3>1, <3>2
  <2>12. i \in Reached(w)' /\ \A j \in Reached(w) : j < i
    BY <1>1, <2>2, <2>4, <2>6, <2>7, <2>8
  <2>13. QED
    BY <2>1, <2>2, <2>9, <2>10, <2>11, <2>12
<1>4. QED
  BY <1>2, <1>3

\* The documents of a fresh slice are nobody's, and come after its worker's own.
LEMMA NewDocs ==
  ASSUME Typed, MineIsReached, DroppedIsReached,
         NEW w \in Workers(call), NEW i \in Nat, Fresh(i),
         \A j \in Reached(w) : j < i
  PROVE  /\ \A v \in Workers(call) : DocsOf(call, i) \intersect Mine(v) = {}
         /\ DocsOf(call, i) \intersect dropped = {}
         /\ \A d \in Mine(w), e \in DocsOf(call, i) : d.last < e.first
<1>1. \A v \in Workers(call) : Reached(v) \subseteq Nat
  BY ReachedInNat
<1>2. \A v \in Workers(call) : \A j \in Reached(v) : DocsOf(call, i) \intersect DocsOf(call, j) = {}
  BY <1>1, DocsOfFacts DEF Fresh, Typed
<1>3. \A v \in Workers(call) : DocsOf(call, i) \intersect Mine(v) = {}
  BY <1>2 DEF MineIsReached
<1>4. DocsOf(call, i) \intersect dropped = {}
  BY <1>2 DEF DroppedIsReached
<1>5. ASSUME NEW d \in Mine(w), NEW e \in DocsOf(call, i)
      PROVE  d.last < e.first
  <2>1. PICK j \in Reached(w) : d \in DocsOf(call, j)
    BY DEF MineIsReached
  <2>2. j \in Nat /\ j < i
    BY <1>1, <2>1
  <2>3. QED
    BY <2>1, <2>2, DocsOfFacts DEF Typed
<1>6. QED
  BY <1>3, <1>4, <1>5

-----------------------------------------------------------------------------
(* Documents go through one worker, once and in order.                     *)

LEMMA InitSliceInv == Init => SliceInv
<1>1. SUFFICES ASSUME Init PROVE SliceInv
  OBVIOUS
<1>2. /\ call \in Calls /\ Workers(call) = 0 .. WorkerCount(call) - 1
      /\ WorkerCount(call) \in Nat \ {0}
  BY <1>1, CallFacts DEF Init
<1>3. RunsInBounds
  <2>1. SUFFICES ASSUME call.opt.static_partition, NEW w \in Workers(call)
                 PROVE  next[w] \in StaticBound(call, w) .. StaticBound(call, w + 1)
    BY DEF RunsInBounds
  <2>2. w \in 0 .. WorkerCount(call) /\ w + 1 \in 0 .. WorkerCount(call) /\ w <= w + 1
    BY <1>2
  <2>3. /\ StaticBound(call, w) \in Nat /\ StaticBound(call, w + 1) \in Nat
        /\ StaticBound(call, w) <= StaticBound(call, w + 1)
    BY <1>2, <2>1, <2>2, StaticBounds
  <2>4. next[w] = StaticBound(call, w)
    BY <1>1 DEF Init
  <2>5. QED
    BY <2>3, <2>4
<1>4. \A w \in Workers(call) : todo[w] = {} /\ shards[w] = <<>>
  BY <1>1 DEF Init
<1>5. \A w \in Workers(call) : Len(shards[w]) = 0 /\ Range(shards[w]) = {} /\ Mine(w) = {}
  BY <1>4 DEF Mine, Range
<1>6. dropped = {}
  BY <1>1 DEF Init
<1>7. MineIsReached /\ DroppedIsReached /\ OnlyGoodIsKept
  BY <1>5, <1>6 DEF MineIsReached, DroppedIsReached, OnlyGoodIsKept
<1>8. \A w \in Workers(call) : 1 .. Len(shards[w]) = {}
  BY <1>5
<1>9. EachDocumentOnce /\ OrderWithinShard
  BY <1>5, <1>6, <1>8, Zenon DEF EachDocumentOnce, OrderWithinShard
<1>10. QED
  BY <1>3, <1>7, <1>8, <1>9 DEF SliceInv

\* A step that leaves the documents where they are.
LEMMA SliceInvUnchanged ==
  ASSUME SliceInv, UNCHANGED <<call, cursor, next, todo, shards, dropped>>
  PROVE  SliceInv'
<1>1. RunsInBounds'
  BY DEF SliceInv, RunsInBounds
<1>2. /\ \A w : Mine(w)' = Mine(w)
      /\ \A w : Reached(w)' = Reached(w)
  BY DEF Mine, Reached
<1>3. MineIsReached'
  BY <1>2 DEF SliceInv, MineIsReached
<1>4. DroppedIsReached'
  BY <1>2 DEF SliceInv, DroppedIsReached
<1>5. EachDocumentOnce'
  BY <1>2 DEF SliceInv, EachDocumentOnce
<1>6. OrderWithinShard' /\ OnlyGoodIsKept'
  BY DEF SliceInv, OrderWithinShard, OnlyGoodIsKept
<1>7. QED
  BY <1>1, <1>3, <1>4, <1>5, <1>6 DEF SliceInv

LEMMA ClaimSliceInv ==
  ASSUME Typed, SliceInv, NEW w \in Workers(call), ClaimShared(w) \/ ClaimOwn(w)
  PROVE  SliceInv'
<1>1. /\ RunsInBounds /\ MineIsReached /\ DroppedIsReached
      /\ EachDocumentOnce /\ OrderWithinShard /\ OnlyGoodIsKept
  BY DEF SliceInv
<1>2. PICK i \in Nat :
        /\ Idle(w) /\ Process(w, i) /\ UNCHANGED <<call, shards, merged, out>>
        /\ Fresh(i)
        /\ \A j \in Reached(w) : j < i
        /\ i \in Reached(w)'
        /\ \A v \in Workers(call) : Reached(v) \subseteq Reached(v)'
        /\ RunsInBounds'
  BY <1>1, ClaimFacts
<1> DEFINE new == DocsOf(call, i)
<1>3. /\ \A v \in Workers(call) : new \intersect Mine(v) = {}
      /\ new \intersect dropped = {}
      /\ \A d \in Mine(w), e \in new : d.last < e.first
  BY <1>1, <1>2, NewDocs
<1>4. /\ todo \in [Workers(call) -> SUBSET call.json.docs] /\ call \in Calls
      /\ todo[w] = {}
  BY <1>2 DEF Typed, TypeOK, Idle
<1>5. /\ call' = call /\ shards' = shards
      /\ Workers(call)' = Workers(call)
      /\ \A k : DocsOf(call, k)' = DocsOf(call, k)
  BY <1>2
<1> HIDE DEF new
<1>6. \/ todo' = [todo EXCEPT ![w] = new] /\ dropped' = dropped
      \/ todo' = todo /\ dropped' = dropped \union new
      \/ todo' = todo /\ dropped' = dropped
  BY <1>2, <1>4, ProcessEffects DEF new
<1>7. OnlyGoodIsKept'
  BY <1>1, <1>5 DEF OnlyGoodIsKept
<1>8. CASE todo' = [todo EXCEPT ![w] = new] /\ dropped' = dropped
  <2>1. todo'[w] = new /\ \A v \in Workers(call) : v # w => todo'[v] = todo[v]
    BY <1>4, <1>8
  <2>2. /\ Mine(w)' = Mine(w) \union new /\ Mine(w) = Range(shards[w])
        /\ \A v \in Workers(call) : v # w => Mine(v)' = Mine(v)
    BY <1>4, <1>5, <2>1 DEF Mine
  <2>3. MineIsReached'
    BY <1>1, <1>2, <1>5, <2>2 DEF MineIsReached, new
  <2>4. DroppedIsReached'
    BY <1>1, <1>2, <1>5, <1>8 DEF DroppedIsReached
  <2>5. EachDocumentOnce'
    <3>1. \A v \in Workers(call) :
            \A m, n \in 1 .. Len(shards'[v]) : shards'[v][m] = shards'[v][n] => m = n
      BY <1>1, <1>5 DEF EachDocumentOnce
    <3>2. \A v \in Workers(call) : Range(shards'[v]) \intersect todo'[v] = {}
      BY <1>1, <1>3, <1>5, <2>1, <2>2 DEF EachDocumentOnce
    <3>3. \A v \in Workers(call) : Mine(v)' \intersect dropped' = {}
      BY <1>1, <1>3, <1>8, <2>2 DEF EachDocumentOnce
    <3>4. \A u, v \in Workers(call) : u # v => Mine(u)' \intersect Mine(v)' = {}
      BY <1>1, <1>3, <2>2 DEF EachDocumentOnce
    <3>5. QED
      BY <1>5, <3>1, <3>2, <3>3, <3>4 DEF EachDocumentOnce
  <2>6. OrderWithinShard'
    <3>1. \A n \in 1 .. Len(shards[w]) : shards[w][n] \in Mine(w)
      BY <2>2 DEF Range, Typed, TypeOK
    <3>2. QED
      BY <1>1, <1>3, <1>5, <2>1, <3>1 DEF OrderWithinShard
  <2>7. QED
    BY <1>2, <1>7, <2>3, <2>4, <2>5, <2>6 DEF SliceInv
<1>9. CASE todo' = todo /\ (dropped' = dropped \union new \/ dropped' = dropped)
  <2>1. \A v : Mine(v)' = Mine(v)
    BY <1>5, <1>9 DEF Mine
  <2>2. MineIsReached'
    BY <1>1, <1>2, <1>5, <2>1 DEF MineIsReached
  <2>3. DroppedIsReached'
    BY <1>1, <1>2, <1>5, <1>9 DEF DroppedIsReached, new
  <2>4. EachDocumentOnce'
    BY <1>1, <1>3, <1>5, <1>9, <2>1 DEF EachDocumentOnce
  <2>5. OrderWithinShard'
    BY <1>1, <1>5, <1>9 DEF OrderWithinShard
  <2>6. QED
    BY <1>2, <1>7, <2>2, <2>3, <2>4, <2>5 DEF SliceInv
<1>10. QED
  BY <1>6, <1>8, <1>9

\* What an extraction does: the worker's first document moves to its shard, or
\* is given up.
LEMMA ExtractFacts ==
  ASSUME Typed, NEW w \in Workers(call), Extract(w)
  PROVE  \E d \in todo[w] :
           /\ \A e \in todo[w] \ {d} : d.last < e.first
           /\ d \in call.json.docs
           /\ UNCHANGED <<call, cursor, pc, next, merged, out>>
           /\ pc[w] = "running"
           /\ todo' = [todo EXCEPT ![w] = @ \ {d}]
           /\ \/ /\ d.code = SUCCESS
                 /\ shards' = [shards EXCEPT ![w] = Append(@, d)]
                 /\ UNCHANGED <<errors, first, dropped>>
              \/ /\ d.code \in ErrorCodes
                 /\ RecordError(w, d.code)
                 /\ dropped' = dropped \union {d}
                 /\ UNCHANGED shards
<1>1. call \in Calls /\ todo[w] \in SUBSET call.json.docs /\ todo[w] # {}
  BY DEF Typed, TypeOK, Extract
<1> DEFINE d == FirstOf(todo[w])
<1>2. d \in todo[w] /\ \A e \in todo[w] \ {d} : d.last < e.first
  BY <1>1, FirstOfFacts
<1>3. d \in call.json.docs /\ d.code \in ErrorCodes \union {SUCCESS}
  BY <1>1, <1>2, DocFacts
<1>4. QED
  BY <1>2, <1>3 DEF Extract

LEMMA RangeOfAppend ==
  ASSUME NEW S, NEW s \in Seq(S), NEW d \in S
  PROVE  Range(Append(s, d)) = Range(s) \union {d}
<1>1. /\ Len(s) \in Nat
      /\ DOMAIN s = 1 .. Len(s)
      /\ DOMAIN Append(s, d) = 1 .. Len(s) + 1
      /\ \A n \in 1 .. Len(s) : Append(s, d)[n] = s[n]
      /\ Append(s, d)[Len(s) + 1] = d
  BY AppendProperties
<1>2. \A n \in 1 .. Len(s) + 1 : n \in 1 .. Len(s) \/ n = Len(s) + 1
  BY <1>1
<1>3. \A n \in 1 .. Len(s) : n \in 1 .. Len(s) + 1
  BY <1>1
<1>4. Len(s) + 1 \in 1 .. Len(s) + 1
  BY <1>1
<1>5. Range(Append(s, d)) \subseteq Range(s) \union {d}
  BY <1>1, <1>2 DEF Range
<1>6. Range(s) \union {d} \subseteq Range(Append(s, d))
  BY <1>1, <1>3, <1>4 DEF Range
<1>7. QED
  BY <1>5, <1>6

LEMMA ExtractSliceInv ==
  ASSUME Typed, SliceInv, NEW w \in Workers(call), Extract(w)
  PROVE  SliceInv'
<1>1. /\ RunsInBounds /\ MineIsReached /\ DroppedIsReached
      /\ EachDocumentOnce /\ OrderWithinShard /\ OnlyGoodIsKept
  BY DEF SliceInv
<1>2. PICK d \in todo[w] :
        /\ \A e \in todo[w] \ {d} : d.last < e.first
        /\ d \in call.json.docs
        /\ UNCHANGED <<call, cursor, pc, next, merged, out>>
        /\ todo' = [todo EXCEPT ![w] = @ \ {d}]
        /\ \/ /\ d.code = SUCCESS
              /\ shards' = [shards EXCEPT ![w] = Append(@, d)]
              /\ dropped' = dropped
           \/ /\ dropped' = dropped \union {d}
              /\ shards' = shards
  BY ExtractFacts
<1>3. /\ todo \in [Workers(call) -> SUBSET call.json.docs]
      /\ shards \in [Workers(call) -> Seq(call.json.docs)]
  BY DEF Typed, TypeOK
<1>4. /\ call' = call /\ Workers(call)' = Workers(call)
      /\ \A v \in Workers(call) : Reached(v)' = Reached(v)
      /\ \A k : DocsOf(call, k)' = DocsOf(call, k)
  BY <1>2 DEF Reached
<1>5. RunsInBounds'
  BY <1>1, <1>2 DEF RunsInBounds
<1>6. /\ todo'[w] = todo[w] \ {d}
      /\ \A v \in Workers(call) : v # w => todo'[v] = todo[v]
  BY <1>2, <1>3
<1>7. d \in Mine(w) /\ d \notin Range(shards[w]) /\ d \notin dropped
  BY <1>1 DEF Mine, EachDocumentOnce
<1>8. \A v \in Workers(call) : v # w => d \notin Mine(v)
  BY <1>1, <1>7 DEF EachDocumentOnce
<1>9. CASE /\ d.code = SUCCESS
           /\ shards' = [shards EXCEPT ![w] = Append(@, d)]
           /\ dropped' = dropped
  <2> DEFINE s == shards[w]
             t == shards'[w]
  <2>1. /\ s \in Seq(call.json.docs) /\ t = Append(s, d)
        /\ \A v \in Workers(call) : v # w => shards'[v] = shards[v]
    BY <1>3, <1>9
  <2>2. Range(t) = Range(s) \union {d}
    BY <1>2, <2>1, RangeOfAppend
  <2>3. /\ Len(s) \in Nat /\ Len(t) = Len(s) + 1
        /\ \A n \in 1 .. Len(s) : t[n] = s[n]
        /\ t[Len(s) + 1] = d
    BY <1>2, <2>1, AppendProperties
  <2>4. \A n \in 1 .. Len(s) : s[n] \in Range(s)
    BY <2>1 DEF Range
  <2>5. \A v \in Workers(call) : Mine(v)' = Mine(v)
    <3>1. Mine(w)' = Mine(w)
      BY <1>6, <2>2 DEF Mine
    <3>2. \A v \in Workers(call) : v # w => Mine(v)' = Mine(v)
      BY <1>6, <2>1 DEF Mine
    <3>3. QED
      BY <3>1, <3>2
  <2>6. MineIsReached'
    BY <1>1, <1>4, <2>5 DEF MineIsReached
  <2>7. DroppedIsReached'
    BY <1>1, <1>4, <1>9 DEF DroppedIsReached
  <2>8. OnlyGoodIsKept'
    BY <1>1, <1>4, <1>9, <2>1, <2>2 DEF OnlyGoodIsKept
  <2> HIDE DEF s, t
  <2>9. EachDocumentOnce'
    <3>1. \A m, n \in 1 .. Len(t) : t[m] = t[n] => m = n
      <4>1. \A m, n \in 1 .. Len(s) : s[m] = s[n] => m = n
        BY <1>1 DEF EachDocumentOnce, s
      <4>2. \A n \in 1 .. Len(s) : s[n] # d
        BY <1>7, <2>4 DEF s
      <4>3. \A n \in 1 .. Len(t) : n \in 1 .. Len(s) \/ n = Len(s) + 1
        BY <2>3
      <4>4. QED
        BY <2>3, <4>1, <4>2, <4>3
    <3>2. \A v \in Workers(call) :
            \A m, n \in 1 .. Len(shards'[v]) : shards'[v][m] = shards'[v][n] => m = n
      BY <1>1, <2>1, <3>1 DEF EachDocumentOnce, t
    <3>3. \A v \in Workers(call) : Range(shards'[v]) \intersect todo'[v] = {}
      BY <1>1, <1>6, <2>1, <2>2 DEF EachDocumentOnce, s, t
    <3>4. \A v \in Workers(call) : Mine(v)' \intersect dropped' = {}
      BY <1>1, <1>9, <2>5 DEF EachDocumentOnce
    <3>5. \A u, v \in Workers(call) : u # v => Mine(u)' \intersect Mine(v)' = {}
      BY <1>1, <2>5 DEF EachDocumentOnce
    <3>6. QED
      BY <1>4, <3>2, <3>3, <3>4, <3>5 DEF EachDocumentOnce
  <2>10. OrderWithinShard'
    <3>1. /\ \A m, n \in 1 .. Len(s) : m < n => s[m].last < s[n].first
          /\ \A n \in 1 .. Len(s), e \in todo[w] : s[n].last < e.first
      BY <1>1 DEF OrderWithinShard, s
    <3>2. \A n \in 1 .. Len(t) : n \in 1 .. Len(s) \/ n = Len(s) + 1
      BY <2>3
    <3>3. ASSUME NEW m \in 1 .. Len(t), NEW n \in 1 .. Len(t), m < n
          PROVE  t[m].last < t[n].first
      <4>1. m \in 1 .. Len(s)
        BY <2>3, <3>3
      <4>2. QED
        BY <2>3, <3>1, <3>2, <3>3, <4>1
    <3>4. \A n \in 1 .. Len(t), e \in todo'[w] : t[n].last < e.first
      BY <1>2, <1>6, <2>3, <3>1, <3>2
    <3>5. ASSUME NEW v \in Workers(call), v # w
          PROVE  /\ \A m, n \in 1 .. Len(shards'[v]) :
                      m < n => shards'[v][m].last < shards'[v][n].first
                 /\ \A n \in 1 .. Len(shards'[v]), e \in todo'[v] :
                      shards'[v][n].last < e.first
      BY <1>1, <1>6, <2>1, <3>5 DEF OrderWithinShard
    <3>6. QED
      BY <1>4, <3>3, <3>4, <3>5 DEF OrderWithinShard, t
  <2>11. QED
    BY <1>5, <2>6, <2>7, <2>8, <2>9, <2>10 DEF SliceInv
<1>10. CASE dropped' = dropped \union {d} /\ shards' = shards
  <2>1. /\ Mine(w)' = Mine(w) \ {d}
        /\ \A v \in Workers(call) : v # w => Mine(v)' = Mine(v)
    BY <1>6, <1>7, <1>10 DEF Mine
  <2>2. MineIsReached'
    BY <1>1, <1>4, <2>1 DEF MineIsReached
  <2>3. DroppedIsReached'
    <3>1. \E v \in Workers(call) : \E i \in Reached(v) : d \in DocsOf(call, i)
      BY <1>1, <1>7 DEF MineIsReached
    <3>2. QED
      BY <1>1, <1>4, <1>10, <3>1 DEF DroppedIsReached
  <2>4. EachDocumentOnce'
    <3>1. \A v \in Workers(call) :
            \A m, n \in 1 .. Len(shards'[v]) : shards'[v][m] = shards'[v][n] => m = n
      BY <1>1, <1>10 DEF EachDocumentOnce
    <3>2. \A v \in Workers(call) : Range(shards'[v]) \intersect todo'[v] = {}
      BY <1>1, <1>6, <1>10 DEF EachDocumentOnce
    <3>3. \A v \in Workers(call) : Mine(v)' \intersect dropped' = {}
      BY <1>1, <1>8, <1>10, <2>1 DEF EachDocumentOnce
    <3>4. \A u, v \in Workers(call) : u # v => Mine(u)' \intersect Mine(v)' = {}
      BY <1>1, <2>1 DEF EachDocumentOnce
    <3>5. QED
      BY <1>4, <3>1, <3>2, <3>3, <3>4 DEF EachDocumentOnce
  <2>5. OrderWithinShard'
    BY <1>1, <1>4, <1>6, <1>10 DEF OrderWithinShard
  <2>6. OnlyGoodIsKept'
    BY <1>1, <1>4, <1>10 DEF OnlyGoodIsKept
  <2>7. QED
    BY <1>5, <2>2, <2>3, <2>4, <2>5, <2>6 DEF SliceInv
<1>11. QED
  BY <1>2, <1>9, <1>10

LEMMA NextSliceInv == Typed /\ SliceInv /\ [Next]_vars => SliceInv'
<1>1. SUFFICES ASSUME Typed, SliceInv, [Next]_vars PROVE SliceInv'
  OBVIOUS
<1>2. ASSUME NEW w \in Workers(call), ClaimShared(w) \/ ClaimOwn(w) PROVE SliceInv'
  BY <1>1, <1>2, ClaimSliceInv
<1>3. ASSUME NEW w \in Workers(call), Extract(w) PROVE SliceInv'
  BY <1>1, <1>3, ExtractSliceInv
<1>4. CASE \/ \E w \in Workers(call) : Spawn(w) \/ FinishOwn(w)
           \/ Merge \/ Return \/ Terminated \/ UNCHANGED vars
  <2>1. UNCHANGED <<call, cursor, next, todo, shards, dropped>>
    BY <1>4 DEF Spawn, FinishOwn, Merge, Return, Terminated, vars
  <2>2. QED
    BY <1>1, <2>1, SliceInvUnchanged
<1>5. QED
  BY <1>1, <1>2, <1>3, <1>4 DEF Next, Caller, Worker

LEMMA SliceInvariant == Spec => []SliceInv
<1>1. QED
  BY InitTyped, NextTyped, InitSliceInv, NextSliceInv, PTL DEF Spec

\* However many workers there are and however their claims interleave, each
\* document goes through at most one of them, at most once.
THEOREM ExtractedOnce == Spec => []EachDocumentOnce
<1>1. SliceInv => EachDocumentOnce
  BY DEF SliceInv
<1>2. QED
  BY <1>1, SliceInvariant, PTL

\* A shard keeps the order of the input, whichever slices its worker claimed.
THEOREM ShardsInOrder == Spec => []OrderWithinShard
<1>1. SliceInv => OrderWithinShard
  BY DEF SliceInv
<1>2. QED
  BY <1>1, SliceInvariant, PTL

\* Under static partitioning each shard is a run of the input, and the shards in
\* the order of the workers are the input in its order.
THEOREM StaticRuns == Spec => []StaticShardsAreRuns
<1>1. ASSUME Typed, SliceInv PROVE StaticShardsAreRuns
  <2>1. SUFFICES ASSUME call.opt.static_partition,
                        NEW v \in Workers(call), NEW w \in Workers(call), v < w,
                        NEW d \in Mine(v), NEW e \in Mine(w)
                 PROVE  d.last < e.first
    BY DEF StaticShardsAreRuns
  <2>2. PICK i \in Reached(v) : d \in DocsOf(call, i)
    BY <1>1 DEF SliceInv, MineIsReached
  <2>3. PICK j \in Reached(w) : e \in DocsOf(call, j)
    BY <1>1 DEF SliceInv, MineIsReached
  <2>4. i \in Nat /\ j \in Nat
    BY <1>1, ReachedInNat
  <2>5. /\ call \in Calls /\ WorkerCount(call) \in Nat
        /\ Workers(call) = 0 .. WorkerCount(call) - 1
    BY <1>1, CallFacts DEF Typed
  <2>6. /\ v + 1 \in 0 .. WorkerCount(call) /\ w \in 0 .. WorkerCount(call) /\ v + 1 <= w
        /\ v \in 0 .. WorkerCount(call)
    BY <2>1, <2>5
  <2>7. /\ StaticBound(call, v + 1) \in Nat /\ StaticBound(call, w) \in Nat
        /\ StaticBound(call, v) \in Nat
        /\ StaticBound(call, v + 1) <= StaticBound(call, w)
    BY <2>1, <2>5, <2>6, StaticBounds
  <2>8. next[v] \in StaticBound(call, v) .. StaticBound(call, v + 1)
    BY <1>1, <2>1 DEF SliceInv, RunsInBounds
  <2>9. i <= next[v] - 1 /\ StaticBound(call, w) <= j
    BY <2>1, <2>2, <2>3 DEF Reached
  <2>10. i < j
    BY <2>4, <2>7, <2>8, <2>9
  <2>11. QED
    BY <2>2, <2>3, <2>4, <2>5, <2>10, DocsOfFacts
<1>2. QED
  BY <1>1, InitTyped, NextTyped, SliceInvariant, PTL DEF Spec

\* The precondition of the slicing rule: documents do not contain the delimiter.
DelimiterFreeCalls ==
  \A c \in Calls : DelimiterFree(delimiters_for(c.json, c.opt.format), c.json.docs)

\* No slice splits a document the delimiter does not occur in.
THEOREM NoDocumentSplit ==
  ASSUME DelimiterFreeCalls
  PROVE  Spec => []NeverSplitsADocument
<1>1. ASSUME NEW c \in Calls, NEW i \in Nat, NEW d \in c.json.docs
      PROVE  ~ Splits(Piece(c, i), d)
  <2> DEFINE delims == delimiters_for(c.json, c.opt.format)
  <2>1. /\ c.json.length \in Nat /\ SliceBytes(c) \in Nat \ {0}
        /\ delims \in SUBSET (0 .. c.json.length - 1)
    BY CallFacts
  <2>2. \A e \in c.json.docs : /\ e.first \in 0 .. c.json.length - 1
                               /\ e.last \in 0 .. c.json.length - 1
    BY DocFacts
  <2>3. DelimiterFree(delims, c.json.docs)
    BY DEF DelimiterFreeCalls
  <2> HIDE DEF delims
  <2>4. ~ Splits(SliceAt(c.json.length, delims, SliceBytes(c), i), d)
    BY <2>1, <2>2, <2>3, SlicesNeverSplit
  <2>5. QED
    BY <2>4 DEF Piece, delims
<1>2. Typed => NeverSplitsADocument
  <2>1. SUFFICES ASSUME Typed, NEW i \in 0 .. call.json.length + WorkerCount(call),
                        NEW d \in call.json.docs
                 PROVE  ~ Splits(Piece(call, i), d)
    BY DEF NeverSplitsADocument
  <2>2. call \in Calls /\ i \in Nat
    BY <2>1, CallFacts DEF Typed
  <2>3. QED
    BY <1>1, <2>1, <2>2
<1>3. QED
  BY <1>2, InitTyped, NextTyped, PTL DEF Spec

-----------------------------------------------------------------------------
(* Every document is gone through.                                         *)

LEMMA InitDoneInv == Init => DoneInv
<1>1. SUFFICES ASSUME Init PROVE DoneInv
  OBVIOUS
<1>2. ASSUME NEW w \in Workers(call) PROVE Reached(w) = {}
  <2>1. cursor = 0 /\ next[w] = StaticBound(call, w) /\ call \in Calls
    BY <1>1 DEF Init
  <2>2. StaticBound(call, w) \in Nat
    BY <2>1, CallFacts, StaticBoundNat
  <2>3. QED
    BY <2>1, <2>2 DEF Reached
<1>3. ReachedIsTaken
  BY <1>2 DEF ReachedIsTaken
<1>4. ExitedIsDone
  BY <1>1 DEF Init, ExitedIsDone
<1>5. QED
  BY <1>3, <1>4 DEF DoneInv

LEMMA ClaimDoneInv ==
  ASSUME Typed, SliceInv, DoneInv, NEW w \in Workers(call), ClaimShared(w) \/ ClaimOwn(w)
  PROVE  DoneInv'
<1>1. ReachedIsTaken /\ ExitedIsDone /\ RunsInBounds
  BY DEF SliceInv, DoneInv
<1>2. PICK i \in Nat :
        /\ Idle(w) /\ Process(w, i) /\ UNCHANGED <<call, shards, merged, out>>
        /\ \A v \in Workers(call) : Reached(v)' \subseteq Reached(v) \union {i}
        /\ IF call.opt.static_partition
             THEN /\ next' = [next EXCEPT ![w] = i + 1] /\ cursor' = cursor /\ i = next[w]
                  /\ i < StaticBound(call, w + 1)
             ELSE i = cursor /\ cursor' = cursor + 1 /\ next' = next
  BY <1>1, ClaimFacts
<1> DEFINE new == DocsOf(call, i)
<1>3. /\ call \in Calls /\ cursor \in Nat
      /\ next \in [Workers(call) -> Nat]
      /\ pc \in [Workers(call) -> {"unborn", "running", "exited"}]
      /\ todo \in [Workers(call) -> SUBSET call.json.docs]
      /\ todo[w] = {} /\ pc[w] = "running"
  BY <1>2 DEF Typed, TypeOK, Idle
<1>4. /\ call' = call /\ shards' = shards /\ Workers(call)' = Workers(call)
      /\ \A k : DocsOf(call, k)' = DocsOf(call, k)
  BY <1>2
<1>5. \/ todo' = [todo EXCEPT ![w] = new] /\ dropped' = dropped /\ pc' = pc
      \/ todo' = todo /\ dropped' = dropped \union new /\ pc' = pc
      \/ /\ todo' = todo /\ dropped' = dropped /\ new = {}
         /\ pc' = pc \/ (pc' = [pc EXCEPT ![w] = "exited"] /\ PastTheEnd(i))
  BY <1>2, <1>3, ProcessEffects
<1> HIDE DEF new
<1>6. /\ \A v \in Workers(call) : Mine(v) \subseteq Mine(v)'
      /\ new \subseteq dropped' \union Mine(w)'
      /\ dropped \subseteq dropped'
  <2>1. CASE todo' = [todo EXCEPT ![w] = new] /\ dropped' = dropped
    BY <1>3, <1>4, <2>1 DEF Mine
  <2>2. CASE todo' = todo /\ (dropped' = dropped \union new \/ (dropped' = dropped /\ new = {}))
    BY <1>4, <2>2 DEF Mine
  <2>3. QED
    BY <1>5, <2>1, <2>2
<1>7. ReachedIsTaken'
  <2>1. ASSUME NEW v \in Workers(call), NEW k \in Reached(v)', NEW d \in DocsOf(call, k)
        PROVE  d \in dropped' \/ \E u \in Workers(call) : d \in Mine(u)'
    <3>1. CASE k \in Reached(v)
      BY <1>1, <1>6, <3>1 DEF ReachedIsTaken
    <3>2. CASE k = i
      BY <1>6, <3>2 DEF new
    <3>3. QED
      BY <1>2, <3>1, <3>2
  <2>2. QED
    BY <1>4, <2>1 DEF ReachedIsTaken
<1>8. ExitedIsDone'
  <2>1. ASSUME NEW v \in Workers(call), v # w, pc'[v] = "exited"
        PROVE  /\ todo'[v] = {}
               /\ \A k \in 0 .. call.json.length :
                    k * SliceBytes(call) < call.json.length =>
                      IF call.opt.static_partition
                        THEN k \notin next'[v] .. StaticBound(call, v + 1) - 1
                        ELSE k < cursor'
    <3>1. pc[v] = "exited" /\ todo'[v] = todo[v] /\ next'[v] = next[v]
      BY <1>2, <1>3, <1>5, <2>1
    <3>2. ~ call.opt.static_partition => \A k \in Nat : k < cursor => k < cursor'
      BY <1>2, <1>3
    <3>3. /\ todo[v] = {}
          /\ \A k \in 0 .. call.json.length :
               k * SliceBytes(call) < call.json.length =>
                 IF call.opt.static_partition
                   THEN k \notin next[v] .. StaticBound(call, v + 1) - 1
                   ELSE k < cursor
      BY <1>1, <3>1 DEF ExitedIsDone
    <3>4. \A k \in 0 .. call.json.length : k \in Nat
      BY <1>3, CallFacts
    <3>5. QED
      BY <3>1, <3>2, <3>3, <3>4
  <2>2. ASSUME pc'[w] = "exited"
        PROVE  /\ todo'[w] = {}
               /\ \A k \in 0 .. call.json.length :
                    k * SliceBytes(call) < call.json.length =>
                      IF call.opt.static_partition
                        THEN k \notin next'[w] .. StaticBound(call, w + 1) - 1
                        ELSE k < cursor'
    <3>1. todo' = todo /\ PastTheEnd(i)
      BY <1>3, <1>5, <2>2
    <3>2. i * SliceBytes(call) >= call.json.length
      BY <1>3, <3>1, PastTheEndIsEmpty
    <3>3. /\ call.json.length \in Nat /\ SliceBytes(call) \in Nat \ {0}
      BY <1>3, CallFacts
    <3>4. ASSUME NEW k \in 0 .. call.json.length, k * SliceBytes(call) < call.json.length
          PROVE  k \in Nat /\ k < i
      <4>1. k \in Nat
        BY <3>3
      <4>2. SUFFICES ASSUME i <= k PROVE FALSE
        BY <4>1
      <4>3. i * SliceBytes(call) <= k * SliceBytes(call) /\ k * SliceBytes(call) \in Nat
            /\ i * SliceBytes(call) \in Nat
        BY <3>3, <4>1, <4>2, Products
      <4>4. QED
        BY <3>2, <3>3, <3>4, <4>3
    <3>5. IF call.opt.static_partition THEN next'[w] = i + 1 ELSE cursor' = i + 1
      BY <1>2, <1>3
    <3>6. QED
      BY <1>3, <3>1, <3>4, <3>5
  <2>3. QED
    BY <1>4, <2>1, <2>2 DEF ExitedIsDone
<1>9. QED
  BY <1>7, <1>8 DEF DoneInv

LEMMA ExtractDoneInv ==
  ASSUME Typed, DoneInv, NEW w \in Workers(call), Extract(w)
  PROVE  DoneInv'
<1>1. ReachedIsTaken /\ ExitedIsDone
  BY DEF DoneInv
<1>2. PICK d \in todo[w] :
        /\ d \in call.json.docs
        /\ UNCHANGED <<call, cursor, pc, next, merged, out>>
        /\ pc[w] = "running"
        /\ todo' = [todo EXCEPT ![w] = @ \ {d}]
        /\ \/ /\ shards' = [shards EXCEPT ![w] = Append(@, d)]
              /\ dropped' = dropped
           \/ /\ dropped' = dropped \union {d}
              /\ shards' = shards
  BY ExtractFacts
<1>3. /\ todo \in [Workers(call) -> SUBSET call.json.docs]
      /\ shards \in [Workers(call) -> Seq(call.json.docs)]
  BY DEF Typed, TypeOK
<1>4. /\ todo'[w] = todo[w] \ {d}
      /\ \A v \in Workers(call) : v # w => todo'[v] = todo[v]
  BY <1>2, <1>3
<1>5. \/ /\ Range(shards'[w]) = Range(shards[w]) \union {d}
         /\ \A v \in Workers(call) : v # w => shards'[v] = shards[v]
         /\ dropped' = dropped
      \/ dropped' = dropped \union {d} /\ shards' = shards
  <2>1. CASE shards' = [shards EXCEPT ![w] = Append(@, d)] /\ dropped' = dropped
    <3>1. shards'[w] = Append(shards[w], d) /\ shards[w] \in Seq(call.json.docs)
      BY <1>3, <2>1
    <3>2. Range(shards'[w]) = Range(shards[w]) \union {d}
      BY <1>2, <3>1, RangeOfAppend
    <3>3. QED
      BY <1>3, <2>1, <3>2
  <2>2. QED
    BY <1>2, <2>1
<1>6. \A v \in Workers(call) : Mine(v) \subseteq Mine(v)' \union dropped'
  BY <1>4, <1>5 DEF Mine
<1>7. /\ call' = call /\ Workers(call)' = Workers(call)
      /\ \A v : Reached(v)' = Reached(v)
      /\ \A k : DocsOf(call, k)' = DocsOf(call, k)
      /\ dropped \subseteq dropped'
  BY <1>2 DEF Reached
<1>8. ReachedIsTaken'
  BY <1>1, <1>6, <1>7 DEF ReachedIsTaken
<1>9. ExitedIsDone'
  BY <1>1, <1>2, <1>4 DEF ExitedIsDone
<1>10. QED
  BY <1>8, <1>9 DEF DoneInv

LEMMA FinishDoneInv ==
  ASSUME Typed, DoneInv, NEW w \in Workers(call), FinishOwn(w)
  PROVE  DoneInv'
<1>1. ReachedIsTaken /\ ExitedIsDone
  BY DEF DoneInv
<1>2. /\ call.opt.static_partition /\ todo[w] = {}
      /\ next[w] >= StaticBound(call, w + 1)
      /\ pc' = [pc EXCEPT ![w] = "exited"]
      /\ UNCHANGED <<call, cursor, next, todo, shards, errors, first, merged, out, dropped>>
  BY DEF FinishOwn, Idle
<1>3. /\ pc \in [Workers(call) -> {"unborn", "running", "exited"}]
      /\ next[w] \in Nat /\ call \in Calls
  BY DEF Typed, TypeOK
<1>4. StaticBound(call, w + 1) \in Nat
  <2>1. w + 1 \in Nat
    BY <1>3, CallFacts
  <2>2. QED
    BY <1>3, <2>1, StaticBoundNat
<1>5. next[w] .. StaticBound(call, w + 1) - 1 = {}
  BY <1>2, <1>3, <1>4
<1>6. \A v \in Workers(call) : pc'[v] = IF v = w THEN "exited" ELSE pc[v]
  BY <1>2, <1>3
<1>7. ExitedIsDone'
  BY <1>1, <1>2, <1>5, <1>6 DEF ExitedIsDone
<1>8. ReachedIsTaken'
  BY <1>1, <1>2 DEF ReachedIsTaken, Reached, Mine
<1>9. QED
  BY <1>7, <1>8 DEF DoneInv

LEMMA NextDoneInv == Typed /\ SliceInv /\ DoneInv /\ [Next]_vars => DoneInv'
<1>1. SUFFICES ASSUME Typed, SliceInv, DoneInv, [Next]_vars PROVE DoneInv'
  OBVIOUS
<1>2. ASSUME NEW w \in Workers(call), ClaimShared(w) \/ ClaimOwn(w) PROVE DoneInv'
  BY <1>1, <1>2, ClaimDoneInv
<1>3. ASSUME NEW w \in Workers(call), Extract(w) PROVE DoneInv'
  BY <1>1, <1>3, ExtractDoneInv
<1>4. ASSUME NEW w \in Workers(call), FinishOwn(w) PROVE DoneInv'
  BY <1>1, <1>4, FinishDoneInv
<1>5. CASE \/ \E w \in Workers(call) : Spawn(w)
           \/ Merge \/ Return \/ Terminated \/ UNCHANGED vars
  <2>1. UNCHANGED <<call, cursor, next, todo, shards, dropped>>
    BY <1>5 DEF Spawn, Merge, Return, Terminated, vars
  <2>2. \A v \in Workers(call) : pc'[v] = "exited" => pc[v] = "exited"
    BY <1>1, <1>5 DEF Spawn, Merge, Return, Terminated, vars, Typed, TypeOK
  <2>3. ReachedIsTaken'
    BY <1>1, <2>1 DEF DoneInv, ReachedIsTaken, Reached, Mine
  <2>4. ExitedIsDone'
    BY <1>1, <2>1, <2>2 DEF DoneInv, ExitedIsDone
  <2>5. QED
    BY <2>3, <2>4 DEF DoneInv
<1>6. QED
  BY <1>1, <1>2, <1>3, <1>4, <1>5 DEF Next, Caller, Worker

LEMMA DoneInvariant == Spec => []DoneInv
<1>1. QED
  BY InitTyped, NextTyped, SliceInvariant, InitDoneInv, NextDoneInv, PTL DEF Spec

-----------------------------------------------------------------------------
(* What a call that returns has done.                                      *)


\* Rounding the length of a text up to whole slices does not overflow.
SlicesCountable ==
  \A c \in Calls :
    c.opt.static_partition => c.json.length + SliceBytes(c) - 1 < WordSize

-----------------------------------------------------------------------------
(* Errors.                                                                 *)

LEMMA InitErrorInv == Init => ErrorInv
<1>1. SUFFICES ASSUME Init PROVE ErrorInv
  OBVIOUS
<1>2. ErrorsAreNamed
  BY <1>1 DEF Init, ErrorsAreNamed
<1>3. MergedErrors
  <2>1. Workers(call) = 0 .. WorkerCount(call) - 1 /\ WorkerCount(call) \in Nat
    BY <1>1, CallFacts DEF Init
  <2>2. QED
    BY <1>1, <2>1 DEF Init, MergedErrors, EmptyResult
<1>4. QED
  BY <1>2, <1>3 DEF ErrorInv

\* A step of a worker: nothing is merged yet, and an error is recorded for
\* whatever is given up.
LEMMA WorkerErrorInv ==
  ASSUME Typed, ErrorInv, NEW w \in Workers(call), pc[w] = "running",
         UNCHANGED <<call, merged, out>>,
         \/ UNCHANGED <<errors, first, dropped>>
         \/ \E e \in ErrorCodes : RecordError(w, e)
  PROVE  ErrorInv'
<1>1. ErrorsAreNamed /\ MergedErrors
  BY DEF ErrorInv
<1>2. ~ Joined
  BY DEF Joined
<1>3. merged = 0 /\ ~ out.returned
  BY <1>1, <1>2 DEF MergedErrors, Typed, TypeOK
<1>4. /\ errors \in [Workers(call) -> Nat]
      /\ first \in [Workers(call) -> ErrorCodes \union {SUCCESS}]
      /\ Workers(call) = 0 .. WorkerCount(call) - 1
      /\ WorkerCount(call) \in Nat
      /\ SUCCESS \notin ErrorCodes
  BY CallFacts, ConfigAssumption DEF Typed, TypeOK
<1>5. MergedErrors'
  <2>1. merged' = 0 /\ ~ out'.returned /\ out' = out /\ Workers(call)' = Workers(call)
    BY <1>3
  <2>2. \A v \in Workers(call) : ~ (v < 0)
    BY <1>4
  <2>3. QED
    BY <1>1, <2>1, <2>2 DEF MergedErrors
<1>6. CASE UNCHANGED <<errors, first, dropped>>
  BY <1>1, <1>5, <1>6 DEF ErrorInv, ErrorsAreNamed
<1>7. ASSUME NEW e \in ErrorCodes, RecordError(w, e)
      PROVE  ErrorsAreNamed'
  <2>1. /\ \A v \in Workers(call) : v # w => errors'[v] = errors[v] /\ first'[v] = first[v]
        /\ errors'[w] = errors[w] + 1
        /\ first'[w] = IF first[w] = SUCCESS THEN e ELSE first[w]
    BY <1>4, <1>7 DEF RecordError
  <2>2. errors'[w] > 0 /\ errors'[w] # 0 /\ first'[w] # SUCCESS
    BY <1>4, <2>1
  <2>3. \A v \in Workers(call) : first'[v] = SUCCESS <=> errors'[v] = 0
    BY <1>1, <2>1, <2>2 DEF ErrorsAreNamed
  <2>4. QED
    BY <2>2, <2>3 DEF ErrorsAreNamed
<1>8. QED
  BY <1>5, <1>6, <1>7 DEF ErrorInv

LEMMA MergeErrorInv ==
  ASSUME Typed, ErrorInv, Merge
  PROVE  ErrorInv'
<1>1. ErrorsAreNamed /\ MergedErrors
  BY DEF ErrorInv
<1>2. /\ Joined /\ merged \in Workers(call) /\ merged' = merged + 1
      /\ UNCHANGED <<call, pc, errors, first, dropped>>
  BY DEF Merge
<1>3. /\ errors \in [Workers(call) -> Nat]
      /\ first \in [Workers(call) -> ErrorCodes \union {SUCCESS}]
      /\ Workers(call) = 0 .. WorkerCount(call) - 1
      /\ WorkerCount(call) \in Nat
      /\ out \in [returned : BOOLEAN, errors : Nat, first_error : ErrorCodes \union {SUCCESS}]
      /\ out.errors \in Nat
  BY CallFacts DEF Typed, TypeOK
<1>4. /\ out'.returned = out.returned
      /\ out'.errors = out.errors + errors[merged]
      /\ out'.first_error = IF out.first_error = SUCCESS THEN first[merged] ELSE out.first_error
  BY <1>3 DEF Merge
<1>5. errors[merged] \in Nat /\ (first[merged] = SUCCESS <=> errors[merged] = 0)
  BY <1>1, <1>2, <1>3 DEF ErrorsAreNamed
<1>6. ErrorsAreNamed'
  BY <1>1, <1>2 DEF ErrorsAreNamed
<1>7. ~ out.returned
  BY <1>1, <1>2, <1>3 DEF MergedErrors
<1>8. out'.first_error = SUCCESS <=> out'.errors = 0
  <2>1. out.first_error = SUCCESS <=> out.errors = 0
    BY <1>1 DEF MergedErrors
  <2>2. CASE out.first_error = SUCCESS
    BY <1>3, <1>4, <1>5, <2>1, <2>2
  <2>3. CASE out.first_error # SUCCESS
    BY <1>3, <1>4, <1>5, <2>1, <2>3
  <2>4. QED
    BY <2>2, <2>3
<1>9. ASSUME NEW w \in Workers(call), w < merged', errors[w] > 0
      PROVE  out'.errors > 0
  <2>1. CASE w = merged
    BY <1>3, <1>4, <1>5, <1>9, <2>1
  <2>2. CASE w < merged
    <3>1. out.errors > 0
      BY <1>1, <1>9, <2>2 DEF MergedErrors
    <3>2. QED
      BY <1>3, <1>4, <1>5, <3>1
  <2>3. QED
    BY <1>2, <1>3, <1>9, <2>1, <2>2
<1>10. Joined'
  BY <1>2 DEF Joined
<1>11. MergedErrors'
  BY <1>2, <1>4, <1>7, <1>8, <1>9, <1>10 DEF MergedErrors
<1>12. QED
  BY <1>6, <1>11 DEF ErrorInv

LEMMA NextErrorInv == Typed /\ ErrorInv /\ [Next]_vars => ErrorInv'
<1>1. SUFFICES ASSUME Typed, ErrorInv, [Next]_vars PROVE ErrorInv'
  OBVIOUS
<1>2. ErrorsAreNamed /\ MergedErrors
  BY <1>1 DEF ErrorInv
<1>3. ASSUME NEW w \in Workers(call), ClaimShared(w) \/ ClaimOwn(w) PROVE ErrorInv'
  <2>1. PICK i \in Nat : Idle(w) /\ Process(w, i) /\ UNCHANGED <<call, shards, merged, out>>
    <3>1. cursor \in Nat /\ next[w] \in Nat
      BY <1>1 DEF Typed, TypeOK
    <3>2. QED
      BY <1>3, <3>1 DEF ClaimShared, ClaimOwn
  <2>2. \/ UNCHANGED <<errors, first, dropped>>
        \/ \E e \in ErrorCodes : RecordError(w, e)
    BY <2>1, ConfigAssumption DEF Process
  <2>3. QED
    BY <1>1, <2>1, <2>2, WorkerErrorInv DEF Idle
<1>4. ASSUME NEW w \in Workers(call), Extract(w) PROVE ErrorInv'
  BY <1>1, <1>4, ExtractFacts, WorkerErrorInv
<1>5. ASSUME NEW w \in Workers(call), FinishOwn(w) PROVE ErrorInv'
  BY <1>1, <1>5, WorkerErrorInv DEF FinishOwn, Idle
<1>6. CASE Merge
  BY <1>1, <1>6, MergeErrorInv
<1>7. CASE Return
  <2>1. /\ Joined /\ merged \notin Workers(call)
        /\ out' = [out EXCEPT !.returned = TRUE]
        /\ UNCHANGED <<call, pc, errors, first, merged, dropped>>
    BY <1>7 DEF Return
  <2>2. /\ out \in [returned : BOOLEAN, errors : Nat, first_error : ErrorCodes \union {SUCCESS}]
        /\ merged \in 0 .. WorkerCount(call) /\ WorkerCount(call) \in Nat
        /\ Workers(call) = 0 .. WorkerCount(call) - 1
    BY <1>1, CallFacts DEF Typed, TypeOK
  <2>3. merged = WorkerCount(call)
    BY <2>1, <2>2
  <2>4. out'.errors = out.errors /\ out'.first_error = out.first_error
    BY <2>1, <2>2
  <2>5. Joined' /\ WorkerCount(call)' = WorkerCount(call)
    BY <2>1 DEF Joined
  <2>6. ErrorsAreNamed'
    BY <1>2, <2>1 DEF ErrorsAreNamed
  <2>7. MergedErrors'
    BY <1>2, <2>1, <2>3, <2>4, <2>5 DEF MergedErrors
  <2>8. QED
    BY <2>6, <2>7 DEF ErrorInv
<1>8. ASSUME NEW w \in Workers(call), Spawn(w) PROVE ErrorInv'
  <2>1. /\ pc[w] = "unborn" /\ pc' = [pc EXCEPT ![w] = "running"]
        /\ UNCHANGED <<call, errors, first, merged, out, dropped>>
    BY <1>8 DEF Spawn
  <2>2. ~ Joined
    BY <2>1 DEF Joined
  <2>3. ErrorsAreNamed'
    BY <1>2, <2>1 DEF ErrorsAreNamed
  <2>4. MergedErrors'
    BY <1>2, <2>1, <2>2 DEF MergedErrors
  <2>5. QED
    BY <2>3, <2>4 DEF ErrorInv
<1>9. CASE UNCHANGED vars
  BY <1>2, <1>9 DEF ErrorInv, ErrorsAreNamed, MergedErrors, Joined, vars
<1>10. QED
  BY <1>1, <1>3, <1>4, <1>5, <1>6, <1>7, <1>8, <1>9 DEF Next, Caller, Worker, Terminated

LEMMA ErrorInvariant == Spec => []ErrorInv
<1>1. QED
  BY InitTyped, NextTyped, InitErrorInv, NextErrorInv, PTL DEF Spec

\* Documents are given up only if the caller is told of an error, and an error
\* is named exactly when one is counted.
THEOREM LossReported == Spec => []LossIsReported
<1>1. ASSUME Typed, ErrorInv PROVE LossIsReported
  <2>1. SUFFICES ASSUME out.returned
                 PROVE  /\ out.errors = 0 => dropped = {}
                        /\ out.first_error = SUCCESS <=> out.errors = 0
    BY DEF LossIsReported
  <2>2. out.first_error = SUCCESS <=> out.errors = 0
    BY <1>1 DEF ErrorInv, MergedErrors
  <2>3. ASSUME dropped # {} PROVE out.errors # 0
    <3>1. PICK w \in Workers(call) : errors[w] > 0
      BY <1>1, <2>3 DEF ErrorInv, ErrorsAreNamed
    <3>2. w < merged
      <4>1. merged = WorkerCount(call)
        BY <1>1, <2>1 DEF ErrorInv, MergedErrors
      <4>2. QED
        BY <1>1, <4>1, CallFacts DEF Typed
    <3>3. out.errors > 0 /\ out.errors \in Nat
      BY <1>1, <3>1, <3>2 DEF ErrorInv, MergedErrors, Typed, TypeOK
    <3>4. QED
      BY <3>3
  <2>4. QED
    BY <2>2, <2>3
<1>2. QED
  BY <1>1, InitTyped, NextTyped, ErrorInvariant, PTL DEF Spec

\* The join is a barrier: once the call has returned no worker is left to
\* touch a shard or to count an error, and no error is left to add up.
THEOREM ReturnedIsFinal == Spec => ResultIsFinal
<1>1. ASSUME Typed, ErrorInv, [Next]_vars
      PROVE  out.returned => UNCHANGED <<shards, errors, out>>
  <2>1. SUFFICES ASSUME out.returned PROVE UNCHANGED <<shards, errors, out>>
    OBVIOUS
  <2>2. Joined /\ merged = WorkerCount(call)
    BY <1>1, <2>1 DEF ErrorInv, MergedErrors
  <2>3. \A w \in Workers(call) : pc[w] # "running" /\ pc[w] # "unborn"
    BY <2>2 DEF Joined
  <2>4. merged \notin Workers(call)
    BY <1>1, <2>2, CallFacts DEF Typed
  <2>5. ASSUME NEW w \in Workers(call) PROVE ~ Worker(w) /\ ~ Spawn(w)
    BY <2>3 DEF Worker, ClaimShared, ClaimOwn, FinishOwn, Extract, Idle, Spawn
  <2>6. ~ Merge
    BY <2>4 DEF Merge
  <2>7. ~ Return
    BY <2>1 DEF Return
  <2>8. QED
    BY <1>1, <2>5, <2>6, <2>7 DEF Next, Caller, Terminated, vars
<1>2. Typed /\ ErrorInv =>
        [[Next]_vars => (out.returned => UNCHANGED <<shards, errors, out>>)]_vars
  BY <1>1
<1>3. [][out.returned => UNCHANGED <<shards, errors, out>>]_vars <=> ResultIsFinal
  BY DEF ResultIsFinal
<1>4. QED
  BY <1>1, <1>3, InitTyped, NextTyped, ErrorInvariant, PTL DEF Spec

-----------------------------------------------------------------------------
(* Completeness.                                                           *)

\* The runs of a static partition cover every slice of the text.
LEMMA RunsCover ==
  ASSUME SlicesCountable,
         NEW c \in Calls, c.opt.static_partition,
         NEW i \in Nat, i * SliceBytes(c) < c.json.length
  PROVE  \E v \in Workers(c) : StaticBound(c, v) <= i /\ i < StaticBound(c, v + 1)
<1> DEFINE N == SliceCount(c)
           W == WorkerCount(c)
           L == c.json.length
           S == SliceBytes(c)
<1>1. /\ L \in Nat /\ S \in Nat \ {0} /\ W \in Nat \ {0} /\ N \in Nat
      /\ Workers(c) = 0 .. W - 1 /\ WordSize \in Nat \ {0}
      /\ L + S - 1 < WordSize
  BY CallFacts, ConfigAssumption DEF SlicesCountable
<1>2. i < N
  <2>1. L + S - 1 \in Nat
    BY <1>1
  <2>2. Wrap(L + S - 1) = L + S - 1
    BY <1>1, <2>1, SmallMod DEF Wrap
  <2>3. N = (L + S - 1) \div S
    BY <2>2 DEF SliceCount
  <2>4. i * S + S <= L + S - 1
    <3>1. i * S \in Nat /\ i * S < L
      BY <1>1
    <3> HIDE DEF L, S
    <3>2. QED
      BY <1>1, <3>1
  <2>5. QED
    BY <1>1, <2>1, <2>3, <2>4, BlockCount
<1>3. PICK v \in 0 .. W - 1 : Share(N, W, v) <= i /\ i < Share(N, W, v + 1)
  BY <1>1, <1>2, Shares
<1>4. v \in 0 .. W /\ v + 1 \in 0 .. W
  BY <1>1
<1>5. QED
  BY <1>1, <1>3, <1>4, StaticBounds

\* Once every worker has exited nothing is left of the text.
LEMMA NothingLeft ==
  ASSUME DelimiterFreeCalls, SlicesCountable, Typed, SliceInv, DoneInv, Joined
  PROVE  /\ \A w \in Workers(call) : todo[w] = {}
         /\ call.json.docs = Kept \union dropped
<1>1. /\ call \in Calls /\ WorkerCount(call) \in Nat \ {0}
      /\ Workers(call) = 0 .. WorkerCount(call) - 1
      /\ call.json.length \in Nat /\ SliceBytes(call) \in Nat \ {0}
      /\ delimiters_for(call.json, call.opt.format) \in SUBSET (0 .. call.json.length - 1)
  BY CallFacts DEF Typed
<1>2. \A w \in Workers(call) :
        /\ todo[w] = {}
        /\ \A i \in 0 .. call.json.length :
             i * SliceBytes(call) < call.json.length =>
               IF call.opt.static_partition
                 THEN i \notin next[w] .. StaticBound(call, w + 1) - 1
                 ELSE i < cursor
  BY DEF Joined, DoneInv, ExitedIsDone
<1>3. ASSUME NEW d \in call.json.docs
      PROVE  d \in Kept \union dropped
  <2>1. PICK i \in Nat : i * SliceBytes(call) < call.json.length /\ d \in DocsOf(call, i)
    <3>1. \A e \in call.json.docs : /\ e.first \in 0 .. call.json.length - 1
                                    /\ e.last \in 0 .. call.json.length - 1
                                    /\ e.first <= e.last
      BY <1>1, DocFacts
    <3>2. DelimiterFree(delimiters_for(call.json, call.opt.format), call.json.docs)
      BY <1>1 DEF DelimiterFreeCalls
    <3>3. QED
      BY <1>1, <3>1, <3>2, EveryDocumentInASlice DEF DocsOf, Piece
  <2>2. i \in 0 .. call.json.length
    <3>1. i <= i * SliceBytes(call) /\ i * SliceBytes(call) \in Nat
      BY <1>1
    <3>2. QED
      BY <1>1, <2>1, <3>1
  <2>3. \E v \in Workers(call) : i \in Reached(v)
    <3>1. CASE call.opt.static_partition
      <4>1. PICK v \in Workers(call) : StaticBound(call, v) <= i /\ i < StaticBound(call, v + 1)
        BY <1>1, <2>1, <3>1, RunsCover
      <4>2. /\ next[v] \in Nat /\ StaticBound(call, v) \in Nat
            /\ StaticBound(call, v + 1) \in Nat
        <5>1. v \in Nat /\ v + 1 \in Nat
          BY <1>1
        <5>2. QED
          BY <1>1, <5>1, StaticBoundNat DEF Typed, TypeOK
      <4>3. i \notin next[v] .. StaticBound(call, v + 1) - 1
        BY <1>2, <2>1, <2>2, <3>1
      <4>4. i \in StaticBound(call, v) .. next[v] - 1
        BY <4>1, <4>2, <4>3
      <4>5. QED
        BY <3>1, <4>4 DEF Reached
    <3>2. CASE ~ call.opt.static_partition
      <4>1. 0 \in Workers(call)
        BY <1>1
      <4>2. i < cursor /\ cursor \in Nat
        BY <1>2, <2>1, <2>2, <3>2, <4>1 DEF Typed, TypeOK
      <4>3. QED
        BY <3>2, <4>1, <4>2 DEF Reached
    <3>3. QED
      BY <3>1, <3>2
  <2>4. d \in dropped \/ \E v \in Workers(call) : d \in Mine(v)
    BY <2>1, <2>3 DEF DoneInv, ReachedIsTaken
  <2>5. QED
    BY <1>2, <2>4 DEF Mine, Kept
<1>4. Kept \union dropped \subseteq call.json.docs
  <2>1. \A w \in Workers(call) : Mine(w) \subseteq call.json.docs
    BY <1>1, ReachedInNat, DocsOfFacts DEF SliceInv, MineIsReached
  <2>2. dropped \subseteq call.json.docs
    BY DEF Typed, TypeOK
  <2>3. QED
    BY <2>1, <2>2 DEF Mine, Kept
<1>5. QED
  BY <1>2, <1>3, <1>4

\* A call that returns has gone through every document; those that fail are not
\* in its result.
THEOREM NothingLost ==
  ASSUME DelimiterFreeCalls, SlicesCountable
  PROVE  Spec => []NothingIsLost
<1>1. ASSUME Typed, SliceInv, DoneInv, ErrorInv PROVE NothingIsLost
  <2>1. SUFFICES ASSUME out.returned
                 PROVE  /\ call.json.docs = Kept \union dropped
                        /\ {d \in call.json.docs : d.code # SUCCESS} \subseteq dropped
    BY DEF NothingIsLost
  <2>2. Joined
    BY <1>1, <2>1 DEF ErrorInv, MergedErrors
  <2>3. call.json.docs = Kept \union dropped
    BY <1>1, <2>2, NothingLeft
  <2>4. \A d \in Kept : d.code = SUCCESS
    BY <1>1 DEF SliceInv, OnlyGoodIsKept, Kept
  <2>5. QED
    BY <2>3, <2>4
<1>2. QED
  BY <1>1, InitTyped, NextTyped, SliceInvariant, DoneInvariant, ErrorInvariant, PTL DEF Spec

-----------------------------------------------------------------------------
(* The abstract specification.                                             *)

Pending == call.json.docs \ (dropped \union UNION {Mine(w) : w \in Workers(call)})
Taken   == UNION {todo[w] : w \in Workers(call)}

LEMMA InitExact == Init => Exact!Init
<1>1. SUFFICES ASSUME Init PROVE Exact!Init
  OBVIOUS
<1>2. /\ call \in Calls /\ dropped = {} /\ ~ out.returned /\ out.returned = FALSE
      /\ \A w \in Workers(call) : todo[w] = {} /\ shards[w] = <<>>
  BY <1>1 DEF Init, EmptyResult
<1>3. \A w \in Workers(call) : Range(shards[w]) = {} /\ Mine(w) = {}
  BY <1>2 DEF Range, Mine
<1>4. Taken = {} /\ Kept = {} /\ Pending = call.json.docs
  BY <1>2, <1>3 DEF Taken, Kept, Pending
<1>5. QED
  BY <1>2, <1>4 DEF Exact!Init, Taken, Pending

LEMMA ClaimExact ==
  ASSUME Typed, SliceInv, NEW w \in Workers(call), ClaimShared(w) \/ ClaimOwn(w)
  PROVE  [Exact!Next]_(Exact!vars)
<1>1. PICK i \in Nat :
        /\ Idle(w) /\ Process(w, i) /\ UNCHANGED <<call, shards, merged, out>>
        /\ Fresh(i)
        /\ \A j \in Reached(w) : j < i
  BY ClaimFacts DEF SliceInv
<1>0. PICK new : new = DocsOf(call, i)
  OBVIOUS
<1>2. /\ \A v \in Workers(call) : new \intersect Mine(v) = {}
      /\ new \intersect dropped = {}
  BY <1>0, <1>1, NewDocs DEF SliceInv
<1>3. /\ call \in Calls /\ todo \in [Workers(call) -> SUBSET call.json.docs]
      /\ todo[w] = {}
  BY <1>1 DEF Typed, TypeOK, Idle
<1>4. new \in SUBSET Pending
  BY <1>0, <1>2, <1>3, DocsOfFacts DEF Pending
<1>5. call' = call /\ Workers(call)' = Workers(call) /\ shards' = shards /\ out' = out
  BY <1>1
<1>6. \/ todo' = [todo EXCEPT ![w] = new] /\ dropped' = dropped
      \/ todo' = todo /\ dropped' = dropped \union new
      \/ todo' = todo /\ dropped' = dropped
  BY <1>0, <1>1, <1>3, ProcessEffects
<1>7. Kept' = Kept
  BY <1>5 DEF Kept
<1>8. CASE todo' = [todo EXCEPT ![w] = new] /\ dropped' = dropped
  <2>1. todo'[w] = new /\ \A v \in Workers(call) : v # w => todo'[v] = todo[v]
    BY <1>3, <1>8
  <2>2. /\ Mine(w)' = Mine(w) \union new
        /\ \A v \in Workers(call) : v # w => Mine(v)' = Mine(v)
    BY <1>3, <1>5, <2>1 DEF Mine
  <2>3. UNION {Mine(v)' : v \in Workers(call)} = new \union UNION {Mine(v) : v \in Workers(call)}
    BY <2>2
  <2>4. Pending' = Pending \ new
    BY <1>5, <1>8, <2>3 DEF Pending
  <2>5. UNION {todo'[v] : v \in Workers(call)} = new \union UNION {todo[v] : v \in Workers(call)}
    BY <1>3, <2>1
  <2>6. Taken' = Taken \union new
    BY <1>5, <2>5 DEF Taken
  <2>7. Exact!Take(new)
    BY <1>4, <1>5, <1>7, <1>8, <2>4, <2>6 DEF Exact!Take, Pending, Taken
  <2>8. \E docs \in SUBSET Pending : Exact!Take(docs) \/ Exact!GiveUp(docs)
    BY <1>4, <2>7
  <2>9. QED
    BY <2>8 DEF Exact!Next, Pending
<1>9. CASE todo' = todo /\ dropped' = dropped \union new
  <2>1. Pending' = Pending \ new /\ Taken' = Taken
    BY <1>5, <1>9 DEF Pending, Taken, Mine
  <2>2. Exact!GiveUp(new)
    BY <1>4, <1>5, <1>7, <1>9, <2>1 DEF Exact!GiveUp, Pending, Taken
  <2>3. QED
    BY <1>4, <2>2 DEF Exact!Next, Pending
<1>10. CASE todo' = todo /\ dropped' = dropped
  <2>1. Pending' = Pending /\ Taken' = Taken
    BY <1>5, <1>10 DEF Pending, Taken, Mine
  <2>2. QED
    BY <1>5, <1>7, <1>10, <2>1 DEF Exact!vars, Pending, Taken
<1>11. QED
  BY <1>6, <1>8, <1>9, <1>10

LEMMA ExtractExact ==
  ASSUME Typed, SliceInv, NEW w \in Workers(call), Extract(w)
  PROVE  Exact!Next
<1>1. PICK d \in todo[w] :
        /\ d \in call.json.docs
        /\ UNCHANGED <<call, cursor, pc, next, merged, out>>
        /\ todo' = [todo EXCEPT ![w] = @ \ {d}]
        /\ \/ /\ shards' = [shards EXCEPT ![w] = Append(@, d)]
              /\ dropped' = dropped
           \/ /\ dropped' = dropped \union {d}
              /\ shards' = shards
  BY ExtractFacts
<1>2. /\ todo \in [Workers(call) -> SUBSET call.json.docs]
      /\ shards \in [Workers(call) -> Seq(call.json.docs)]
  BY DEF Typed, TypeOK
<1>3. /\ todo'[w] = todo[w] \ {d}
      /\ \A v \in Workers(call) : v # w => todo'[v] = todo[v]
      /\ Workers(call)' = Workers(call) /\ call' = call /\ out' = out
  BY <1>1, <1>2
<1>4. d \in Mine(w) /\ d \notin Range(shards[w]) /\ d \notin dropped
  BY DEF Mine, SliceInv, EachDocumentOnce
<1>5. \A v \in Workers(call) : v # w => d \notin Mine(v) /\ d \notin todo[v]
  BY <1>4 DEF Mine, SliceInv, EachDocumentOnce
<1>6. d \in Taken
  BY DEF Taken
<1>7. UNION {todo'[v] : v \in Workers(call)} = (UNION {todo[v] : v \in Workers(call)}) \ {d}
  BY <1>3, <1>5
<1>8. Taken' = Taken \ {d}
  BY <1>3, <1>7 DEF Taken
<1>9. CASE shards' = [shards EXCEPT ![w] = Append(@, d)] /\ dropped' = dropped
  <2>1. shards'[w] = Append(shards[w], d) /\ shards[w] \in Seq(call.json.docs)
    BY <1>2, <1>9
  <2>2. Range(shards'[w]) = Range(shards[w]) \union {d}
    BY <1>1, <2>1, RangeOfAppend
  <2>3. \A v \in Workers(call) : v # w => shards'[v] = shards[v]
    BY <1>2, <1>9
  <2>4. Kept' = Kept \union {d}
    <3>1. UNION {Range(shards'[v]) : v \in Workers(call)} =
            {d} \union UNION {Range(shards[v]) : v \in Workers(call)}
      BY <2>2, <2>3
    <3>2. QED
      BY <1>3, <3>1 DEF Kept
  <2>5. \A v \in Workers(call) : Mine(v)' = Mine(v)
    BY <1>3, <2>2, <2>3 DEF Mine
  <2>6. Pending' = Pending
    BY <1>3, <1>9, <2>5 DEF Pending
  <2>7. Exact!Keep(d)
    BY <1>3, <1>6, <1>8, <1>9, <2>4, <2>6 DEF Exact!Keep, Pending, Taken
  <2>8. QED
    BY <1>6, <2>7 DEF Exact!Next, Taken
<1>10. CASE dropped' = dropped \union {d} /\ shards' = shards
  <2>1. /\ Mine(w)' = Mine(w) \ {d}
        /\ \A v \in Workers(call) : v # w => Mine(v)' = Mine(v)
    BY <1>3, <1>4, <1>10 DEF Mine
  <2>2. {d} \union UNION {Mine(v)' : v \in Workers(call)} = UNION {Mine(v) : v \in Workers(call)}
    BY <1>4, <2>1
  <2>3. Pending' = Pending
    BY <1>3, <1>10, <2>2 DEF Pending
  <2>4. Kept' = Kept
    BY <1>3, <1>10 DEF Kept
  <2>5. Exact!Drop(d)
    BY <1>3, <1>6, <1>8, <1>10, <2>3, <2>4 DEF Exact!Drop, Pending, Taken
  <2>6. QED
    BY <1>6, <2>5 DEF Exact!Next, Taken
<1>11. QED
  BY <1>1, <1>9, <1>10

\* Every step of parse_many is a step of ExactlyOnce, or changes nothing of it.
LEMMA NextExact ==
  ASSUME DelimiterFreeCalls, SlicesCountable
  PROVE  Typed /\ SliceInv /\ DoneInv /\ ErrorInv /\ [Next]_vars => [Exact!Next]_(Exact!vars)
<1>1. SUFFICES ASSUME Typed, SliceInv, DoneInv, ErrorInv, [Next]_vars
               PROVE  [Exact!Next]_(Exact!vars)
  OBVIOUS
<1>2. ASSUME NEW w \in Workers(call), ClaimShared(w) \/ ClaimOwn(w)
      PROVE  [Exact!Next]_(Exact!vars)
  BY <1>1, <1>2, ClaimExact
<1>3. ASSUME NEW w \in Workers(call), Extract(w)
      PROVE  Exact!Next
  BY <1>1, <1>3, ExtractExact
<1>4. CASE Return
  <2>1. Joined /\ ~ out.returned /\ out' = [out EXCEPT !.returned = TRUE]
        /\ UNCHANGED <<call, todo, shards, dropped>>
    BY <1>4 DEF Return
  <2>2. out \in [returned : BOOLEAN, errors : Nat, first_error : ErrorCodes \union {SUCCESS}]
    BY <1>1 DEF Typed, TypeOK
  <2>3. out'.returned = TRUE
    BY <2>1, <2>2
  <2>4. \A w \in Workers(call) : todo[w] = {}
    BY <1>1, <2>1, NothingLeft
  <2>5. call.json.docs = Kept \union dropped
    BY <1>1, <2>1, NothingLeft
  <2>6. Taken = {} /\ Pending = {}
    BY <2>4, <2>5 DEF Taken, Pending, Kept, Mine
  <2>7. UNCHANGED <<Taken, Pending, Kept>>
    BY <2>1 DEF Taken, Pending, Kept, Mine
  <2>8. Exact!Return
    BY <2>1, <2>3, <2>6, <2>7 DEF Exact!Return, Taken, Pending
  <2>9. QED
    BY <2>8 DEF Exact!Next
<1>5. CASE \/ \E w \in Workers(call) : Spawn(w) \/ FinishOwn(w)
           \/ Merge \/ Terminated \/ UNCHANGED vars
  <2>1. UNCHANGED <<call, todo, shards, dropped>>
    BY <1>5 DEF Spawn, FinishOwn, Merge, Terminated, vars
  <2>2. UNCHANGED <<Taken, Pending, Kept>>
    BY <2>1 DEF Taken, Pending, Kept, Mine
  <2>3. out'.returned = out.returned
    <3>1. out \in [returned : BOOLEAN, errors : Nat, first_error : ErrorCodes \union {SUCCESS}]
      BY <1>1 DEF Typed, TypeOK
    <3>2. QED
      BY <1>5, <3>1 DEF Spawn, FinishOwn, Merge, Terminated, vars
  <2>4. QED
    BY <2>1, <2>2, <2>3 DEF Exact!vars, Taken, Pending
<1>6. QED
  BY <1>1, <1>2, <1>3, <1>4, <1>5 DEF Next, Caller, Worker

\* parse_many implements ExactlyOnce.
THEOREM Implementation ==
  ASSUME DelimiterFreeCalls, SlicesCountable
  PROVE  Spec => ImplementsExactlyOnce
<1>1. Typed /\ SliceInv /\ DoneInv /\ ErrorInv /\ [Next]_vars => [Exact!Next]_(Exact!vars)
  BY NextExact
<1>2. QED
  BY <1>1, InitTyped, NextTyped, InitExact, SliceInvariant, DoneInvariant, ErrorInvariant, PTL
     DEF Spec, ImplementsExactlyOnce, Exact!Spec

-----------------------------------------------------------------------------
(* Which error is named: under static partitioning, when every slice can be  *)
(* opened, the earliest of the input.                                        *)

\* The documents worker w has given up.
DroppedBy(w) == {d \in dropped : \E i \in Reached(w) : d \in DocsOf(call, i)}

\* Each worker names the earliest of them, and what it has left comes after them.
NamesEarliest(w) ==
  /\ DroppedBy(w) = {} => first[w] = SUCCESS
  /\ DroppedBy(w) # {} =>
       \E d \in DroppedBy(w) : /\ first[w] = d.code /\ d.code # SUCCESS
                               /\ \A e \in DroppedBy(w) \ {d} : d.last < e.first
  /\ \A d \in DroppedBy(w), e \in todo[w] : d.last < e.first

\* The caller names the error of the first worker that has one.
NamesLowest ==
  /\ merged > 0 => Joined
  /\ IF out.first_error = SUCCESS
       THEN \A v \in Workers(call) : v < merged => first[v] = SUCCESS
       ELSE \E v \in Workers(call) :
              /\ v < merged /\ first[v] = out.first_error
              /\ \A u \in Workers(call) : u < v => first[u] = SUCCESS

EarliestInv ==
  /\ call.opt.static_partition => \A w \in Workers(call) : NamesEarliest(w)
  /\ NamesLowest

\* Nothing is given up and no error named before the first step.
LEMMA InitEarliestInv == Init => EarliestInv
<1>1. SUFFICES ASSUME Init PROVE EarliestInv
  OBVIOUS
<1>2. \A w \in Workers(call) : DroppedBy(w) = {} /\ todo[w] = {} /\ first[w] = SUCCESS
  BY <1>1 DEF Init, DroppedBy
<1>3. merged = 0 /\ out.first_error = SUCCESS
  BY <1>1 DEF Init, EmptyResult
<1>4. NamesLowest
  BY <1>2, <1>3 DEF NamesLowest
<1>5. QED
  BY <1>2, <1>4 DEF EarliestInv, NamesEarliest

\* The slices of a later run come after those of an earlier one.
LEMMA RunsInOrder ==
  ASSUME Typed, RunsInBounds, call.opt.static_partition,
         NEW v \in Workers(call), NEW w \in Workers(call), v < w,
         NEW i \in Reached(v), NEW j \in Reached(w)
  PROVE  i < j
<1>1. i \in Nat /\ j \in Nat
  BY ReachedInNat
<1>2. /\ call \in Calls /\ WorkerCount(call) \in Nat
      /\ Workers(call) = 0 .. WorkerCount(call) - 1
  BY CallFacts DEF Typed
<1>3. /\ v + 1 \in 0 .. WorkerCount(call) /\ w \in 0 .. WorkerCount(call) /\ v + 1 <= w
      /\ v \in 0 .. WorkerCount(call)
  BY <1>2
<1>4. /\ StaticBound(call, v + 1) \in Nat /\ StaticBound(call, w) \in Nat
      /\ StaticBound(call, v) \in Nat
      /\ StaticBound(call, v + 1) <= StaticBound(call, w)
  BY <1>2, <1>3, StaticBounds
<1>5. next[v] \in StaticBound(call, v) .. StaticBound(call, v + 1)
  BY DEF RunsInBounds
<1>6. i <= next[v] - 1 /\ StaticBound(call, w) <= j
  BY DEF Reached
<1>7. QED
  BY <1>1, <1>4, <1>5, <1>6

\* A claim gives up nothing, and what it brings comes after all of the worker's own.
LEMMA ClaimEarliest ==
  ASSUME StreamErrors = {}, Typed, SliceInv, call.opt.static_partition,
         NEW w \in Workers(call), ClaimShared(w) \/ ClaimOwn(w),
         \A v \in Workers(call) : NamesEarliest(v)
  PROVE  \A v \in Workers(call) : NamesEarliest(v)'
<1>1. MineIsReached /\ DroppedIsReached /\ RunsInBounds
  BY DEF SliceInv
<1>2. PICK i \in Nat :
        /\ Process(w, i) /\ UNCHANGED call
        /\ Fresh(i)
        /\ \A j \in Reached(w) : j < i
        /\ \A v \in Workers(call) : /\ Reached(v) \subseteq Reached(v)'
                                    /\ Reached(v)' \subseteq Reached(v) \union {i}
  BY <1>1, ClaimFacts
<1>3. DocsOf(call, i) \intersect dropped = {}
  BY <1>1, <1>2, NewDocs
<1>4. /\ UNCHANGED <<first, dropped>>
      /\ \/ todo' = [todo EXCEPT ![w] = DocsOf(call, i)]
         \/ UNCHANGED todo
  BY <1>2, ProcessEffects DEF Typed
<1>5. ASSUME NEW v \in Workers(call) PROVE DroppedBy(v)' = DroppedBy(v)
  <2>1. \A j : DocsOf(call, j)' = DocsOf(call, j)
    BY <1>2 DEF DocsOf, Piece
  <2>2. QED
    BY <1>2, <1>3, <1>4, <2>1 DEF DroppedBy
<1>6. \A d \in DroppedBy(w), e \in DocsOf(call, i) : d.last < e.first
  <2>1. SUFFICES ASSUME NEW d \in DroppedBy(w), NEW e \in DocsOf(call, i) PROVE d.last < e.first
    OBVIOUS
  <2>2. PICK j \in Reached(w) : d \in DocsOf(call, j)
    BY DEF DroppedBy
  <2>3. j \in Nat /\ j < i
    BY <1>2, <2>2, ReachedInNat
  <2>4. QED
    BY <2>1, <2>2, <2>3, DocsOfFacts DEF Typed
<1>7. ASSUME NEW v \in Workers(call) PROVE NamesEarliest(v)'
  <2>1. todo'[v] = todo[v] \/ (v = w /\ todo'[v] = DocsOf(call, i))
    BY <1>4 DEF Typed, TypeOK
  <2>2. NamesEarliest(v)
    OBVIOUS
  <2>3. QED
    BY <1>4, <1>5, <1>6, <2>1, <2>2 DEF NamesEarliest
<1>8. QED
  BY <1>2, <1>7

\* A document that fails is the worker's next: after those it gave up before.
LEMMA ExtractEarliest ==
  ASSUME Typed, SliceInv, call.opt.static_partition,
         NEW w \in Workers(call), Extract(w),
         \A v \in Workers(call) : NamesEarliest(v)
  PROVE  \A v \in Workers(call) : NamesEarliest(v)'
<1>1. MineIsReached /\ RunsInBounds
  BY DEF SliceInv
<1>2. PICK d \in todo[w] :
        /\ \A e \in todo[w] \ {d} : d.last < e.first
        /\ UNCHANGED <<call, cursor, next>>
        /\ todo' = [todo EXCEPT ![w] = @ \ {d}]
        /\ \/ d.code = SUCCESS /\ UNCHANGED <<first, dropped>>
           \/ /\ d.code \in ErrorCodes
              /\ RecordError(w, d.code)
              /\ dropped' = dropped \union {d}
  BY ExtractFacts
<1>3. /\ todo'[w] = todo[w] \ {d}
      /\ \A v \in Workers(call) : v # w => todo'[v] = todo[v]
  BY <1>2 DEF Typed, TypeOK
<1>4. \A v : Reached(v)' = Reached(v)
  BY <1>2 DEF Reached, StaticBound, SliceCount, SliceBytes, WorkerCount
<1>5. \A j : DocsOf(call, j)' = DocsOf(call, j)
  BY <1>2 DEF DocsOf, Piece
<1>6. CASE d.code = SUCCESS /\ UNCHANGED <<first, dropped>>
  <2>1. \A v : DroppedBy(v)' = DroppedBy(v)
    BY <1>4, <1>5, <1>6 DEF DroppedBy
  <2>2. QED
    BY <1>2, <1>3, <1>6, <2>1 DEF NamesEarliest
<1>7. CASE d.code \in ErrorCodes /\ RecordError(w, d.code) /\ dropped' = dropped \union {d}
  <2>1. PICK i \in Reached(w) : d \in DocsOf(call, i)
    BY <1>1 DEF MineIsReached, Mine
  <2>2. DroppedBy(w)' = DroppedBy(w) \union {d}
    BY <1>4, <1>5, <1>7, <2>1 DEF DroppedBy
  <2>3. ASSUME NEW v \in Workers(call), v # w PROVE DroppedBy(v)' = DroppedBy(v)
    <3>1. ASSUME NEW j \in Reached(v), d \in DocsOf(call, j) PROVE FALSE
      <4>1. v < w \/ w < v
        BY <2>3, CallFacts DEF Typed
      <4>2. i # j
        BY <1>1, <4>1, <2>1, <3>1, RunsInOrder, ReachedInNat
      <4>3. QED
        BY <2>1, <3>1, <4>2, DocsOfFacts, ReachedInNat DEF Typed
    <3>2. QED
      BY <1>4, <1>5, <1>7, <3>1 DEF DroppedBy
  <2>4. /\ first'[w] = IF first[w] = SUCCESS THEN d.code ELSE first[w]
        /\ \A v \in Workers(call) : v # w => first'[v] = first[v]
    BY <1>7 DEF RecordError, Typed, TypeOK
  <2>5. d.code # SUCCESS
    BY <1>7, ConfigAssumption
  <2>6. NamesEarliest(w)'
    <3>1. \A x \in DroppedBy(w)', e \in todo'[w] : x.last < e.first
      BY <1>2, <1>3, <2>2 DEF NamesEarliest
    <3>2. \E x \in DroppedBy(w)' : /\ first'[w] = x.code /\ x.code # SUCCESS
                                   /\ \A e \in DroppedBy(w)' \ {x} : x.last < e.first
      <4>1. CASE DroppedBy(w) = {}
        BY <2>2, <2>4, <2>5, <4>1 DEF NamesEarliest
      <4>2. CASE DroppedBy(w) # {}
        <5>1. PICK x \in DroppedBy(w) : /\ first[w] = x.code /\ x.code # SUCCESS
                                        /\ \A e \in DroppedBy(w) \ {x} : x.last < e.first
          BY <4>2 DEF NamesEarliest
        <5>2. x.last < d.first
          BY <1>2, <5>1 DEF NamesEarliest
        <5>3. QED
          BY <2>2, <2>4, <5>1, <5>2
      <4>3. QED
        BY <4>1, <4>2
    <3>3. QED
      BY <2>2, <3>1, <3>2 DEF NamesEarliest
  <2>7. ASSUME NEW v \in Workers(call), v # w PROVE NamesEarliest(v)'
    BY <1>3, <2>3, <2>4, <2>7 DEF NamesEarliest
  <2>8. QED
    BY <1>2, <2>6, <2>7
<1>8. QED
  BY <1>2, <1>6, <1>7

\* The caller keeps the error it has, or takes that of the next worker.
LEMMA MergeLowest ==
  ASSUME Typed, NamesLowest, Merge
  PROVE  NamesLowest'
<1>1. /\ Joined /\ merged \in Workers(call) /\ merged' = merged + 1
      /\ UNCHANGED <<call, pc, first>>
  BY DEF Merge
<1>2. /\ Workers(call) = 0 .. WorkerCount(call) - 1 /\ WorkerCount(call) \in Nat
      /\ Workers(call)' = Workers(call)
  BY <1>1, CallFacts DEF Typed
<1>3. out'.first_error = IF out.first_error = SUCCESS THEN first[merged] ELSE out.first_error
  BY DEF Merge, Typed, TypeOK
<1>4. \A v \in Workers(call) : v < merged' <=> v < merged \/ v = merged
  BY <1>1, <1>2
<1>5. Joined'
  BY <1>1, <1>2 DEF Joined
<1>6. CASE out.first_error = SUCCESS
  <2>1. \A v \in Workers(call) : v < merged => first[v] = SUCCESS
    BY <1>6 DEF NamesLowest
  <2>2. QED
    BY <1>1, <1>2, <1>3, <1>4, <1>5, <1>6, <2>1 DEF NamesLowest
<1>7. CASE out.first_error # SUCCESS
  <2>1. PICK v \in Workers(call) :
          /\ v < merged /\ first[v] = out.first_error
          /\ \A u \in Workers(call) : u < v => first[u] = SUCCESS
    BY <1>7 DEF NamesLowest
  <2>2. QED
    BY <1>1, <1>2, <1>3, <1>4, <1>5, <1>7, <2>1 DEF NamesLowest
<1>8. QED
  BY <1>6, <1>7

\* Every step preserves both.
LEMMA NextEarliestInv ==
  ASSUME StreamErrors = {}
  PROVE  Typed /\ SliceInv /\ EarliestInv /\ [Next]_vars => EarliestInv'
<1>1. SUFFICES ASSUME Typed, SliceInv, EarliestInv, [Next]_vars PROVE EarliestInv'
  OBVIOUS
<1>2. ASSUME UNCHANGED <<call, cursor, next, todo, first, dropped>>,
             call.opt.static_partition
      PROVE  \A w \in Workers(call)' : NamesEarliest(w)'
  <2>1. \A w : Reached(w)' = Reached(w)
    BY <1>2 DEF Reached, StaticBound, SliceCount, SliceBytes, WorkerCount
  <2>2. \A j : DocsOf(call, j)' = DocsOf(call, j)
    BY <1>2 DEF DocsOf, Piece
  <2>3. \A w : DroppedBy(w)' = DroppedBy(w)
    BY <1>2, <2>1, <2>2 DEF DroppedBy
  <2>4. Workers(call)' = Workers(call)
    BY <1>2
  <2>5. QED
    BY <1>1, <1>2, <2>3, <2>4 DEF EarliestInv, NamesEarliest
<1>3. ASSUME UNCHANGED <<call, merged, out>>, merged > 0 => Joined',
             merged = 0 \/ UNCHANGED first
      PROVE  NamesLowest'
  <2>1. Workers(call)' = Workers(call) /\ \A v \in Workers(call) : v \in Nat
    BY <1>1, <1>3, CallFacts DEF Typed
  <2>2. QED
    BY <1>1, <1>3, <2>1 DEF EarliestInv, NamesLowest
<1>4. ASSUME NEW w \in Workers(call), pc[w] # "exited" PROVE merged = 0
  BY <1>1, <1>4, CallFacts DEF EarliestInv, NamesLowest, Joined, Typed, TypeOK
<1>5. ASSUME NEW w \in Workers(call), ClaimShared(w) \/ ClaimOwn(w) PROVE EarliestInv'
  <2>1. pc[w] # "exited" /\ UNCHANGED <<call, merged, out>>
    BY <1>5 DEF ClaimShared, ClaimOwn, Idle
  <2>2. NamesLowest'
    BY <1>3, <1>4, <2>1
  <2>3. QED
    BY <1>1, <1>5, <2>1, <2>2, ClaimEarliest DEF EarliestInv
<1>6. ASSUME NEW w \in Workers(call), Extract(w) PROVE EarliestInv'
  <2>1. pc[w] # "exited" /\ UNCHANGED <<call, merged, out>>
    BY <1>6 DEF Extract
  <2>2. NamesLowest'
    BY <1>3, <1>4, <2>1
  <2>3. QED
    BY <1>1, <1>6, <2>1, <2>2, ExtractEarliest DEF EarliestInv
<1>7. ASSUME NEW w \in Workers(call), Spawn(w) \/ FinishOwn(w) PROVE EarliestInv'
  <2>1. /\ pc[w] # "exited"
        /\ UNCHANGED <<call, cursor, next, todo, first, dropped, merged, out>>
    BY <1>7 DEF Spawn, FinishOwn, Idle
  <2>2. NamesLowest'
    BY <1>3, <1>4, <2>1
  <2>3. QED
    BY <1>2, <2>1, <2>2 DEF EarliestInv
<1>8. CASE Merge
  <2>1. NamesLowest'
    BY <1>1, <1>8, MergeLowest DEF EarliestInv
  <2>2. UNCHANGED <<call, cursor, next, todo, first, dropped>>
    BY <1>8 DEF Merge
  <2>3. QED
    BY <1>2, <2>1, <2>2 DEF EarliestInv
<1>9. CASE Return \/ Terminated \/ UNCHANGED vars
  <2>1. /\ UNCHANGED <<call, pc, cursor, next, todo, first, dropped, merged>>
        /\ out'.first_error = out.first_error
    BY <1>1, <1>9 DEF Return, Terminated, vars, Typed, TypeOK
  <2>2. NamesLowest'
    <3>1. Workers(call)' = Workers(call) /\ Joined' = Joined
      BY <2>1 DEF Joined
    <3>2. QED
      BY <1>1, <2>1, <3>1 DEF EarliestInv, NamesLowest
  <2>3. QED
    BY <1>2, <2>1, <2>2 DEF EarliestInv
<1>10. QED
  BY <1>1, <1>5, <1>6, <1>7, <1>8, <1>9 DEF Next, Caller, Worker

\* Under static partitioning the error the caller is given is the earliest of the
\* input, in whatever order the workers meet theirs.
THEOREM EarliestErrorNamed ==
  ASSUME StreamErrors = {}
  PROVE  Spec => []StaticFirstErrorIsEarliest
<1>1. ASSUME Typed, SliceInv, ErrorInv, EarliestInv PROVE StaticFirstErrorIsEarliest
  <2>1. SUFFICES ASSUME out.returned, call.opt.static_partition, dropped # {}
                 PROVE  out.first_error = FirstOf(dropped).code
    BY DEF StaticFirstErrorIsEarliest
  <2>2. /\ call \in Calls /\ dropped \in SUBSET call.json.docs
        /\ Workers(call) = 0 .. WorkerCount(call) - 1 /\ WorkerCount(call) \in Nat
        /\ merged = WorkerCount(call)
    BY <1>1, <2>1, CallFacts DEF Typed, TypeOK, ErrorInv, MergedErrors
  <2>3. \A e \in dropped : \E w \in Workers(call) : e \in DroppedBy(w)
    BY <1>1 DEF SliceInv, DroppedIsReached, DroppedBy
  <2>4. \A w \in Workers(call) : NamesEarliest(w) /\ w < merged
    BY <1>1, <2>1, <2>2 DEF EarliestInv
  <2>5. out.first_error # SUCCESS
    <3>1. PICK w \in Workers(call) : DroppedBy(w) # {}
      BY <2>1, <2>3
    <3>2. first[w] # SUCCESS
      BY <2>4, <3>1 DEF NamesEarliest
    <3>3. QED
      BY <1>1, <2>4, <3>2 DEF EarliestInv, NamesLowest
  <2>6. PICK v \in Workers(call) :
          /\ first[v] = out.first_error
          /\ \A u \in Workers(call) : u < v => first[u] = SUCCESS
    BY <1>1, <2>5 DEF EarliestInv, NamesLowest
  <2>7. PICK d \in DroppedBy(v) : /\ first[v] = d.code
                                  /\ \A e \in DroppedBy(v) \ {d} : d.last < e.first
    BY <2>4, <2>5, <2>6 DEF NamesEarliest
  <2>8. ASSUME NEW e \in dropped \ {d} PROVE d.last < e.first
    <3>1. PICK w \in Workers(call) : e \in DroppedBy(w)
      BY <2>3
    <3>2. ~ (w < v)
      BY <2>4, <2>6, <3>1 DEF NamesEarliest
    <3>3. CASE w = v
      BY <2>7, <2>8, <3>1, <3>3
    <3>4. CASE v < w
      <4>1. PICK i \in Reached(v) : d \in DocsOf(call, i)
        BY DEF DroppedBy
      <4>2. PICK j \in Reached(w) : e \in DocsOf(call, j)
        BY <3>1 DEF DroppedBy
      <4>3. i < j
        BY <1>1, <2>1, <3>4, RunsInOrder DEF SliceInv
      <4>4. i \in Nat /\ j \in Nat
        BY <1>1, ReachedInNat
      <4>5. QED
        BY <2>2, <4>1, <4>2, <4>3, <4>4, DocsOfFacts
    <3>5. QED
      BY <2>2, <3>2, <3>3, <3>4
  <2>9. FirstOf(dropped) = d
    <3>1. FirstOf(dropped) \in dropped /\ \A e \in dropped \ {FirstOf(dropped)} : FirstOf(dropped).last < e.first
      BY <2>1, <2>2, FirstOfFacts
    <3>2. d \in dropped
      BY DEF DroppedBy
    <3>3. SUFFICES ASSUME FirstOf(dropped) # d PROVE FALSE
      OBVIOUS
    <3>4. FirstOf(dropped).last < d.first /\ d.last < FirstOf(dropped).first
      BY <2>8, <3>1, <3>2, <3>3
    <3>5. /\ d.first \in Nat /\ d.last \in Nat /\ d.first <= d.last
          /\ FirstOf(dropped).first \in Nat /\ FirstOf(dropped).last \in Nat
          /\ FirstOf(dropped).first <= FirstOf(dropped).last
      BY <2>2, <3>1, <3>2, DocFacts
    <3>6. QED
      BY <3>4, <3>5
  <2>10. QED
    BY <2>6, <2>7, <2>9
<1>2. QED
  BY <1>1, InitTyped, NextTyped, SliceInvariant, ErrorInvariant, InitEarliestInv,
     NextEarliestInv, PTL DEF Spec

-----------------------------------------------------------------------------
(* How many errors there are.                                              *)

\* As many as documents were given up.
CountInv == IsFiniteSet(dropped) /\ SumFunction(errors) = Cardinality(dropped)

LEMMA InitCountInv == Init => CountInv
<1>1. SUFFICES ASSUME Init PROVE CountInv
  OBVIOUS
<1>2. IsFiniteSet(Workers(call))
  BY <1>1, CallFacts, FS_Interval DEF Init
<1>3. SumFunction([w \in Workers(call) |-> 0]) = 0
  BY <1>2, SumOfZeros
<1>4. QED
  BY <1>1, <1>3, FS_EmptySet DEF Init, CountInv

\* A worker counts an error for a document, which had not been given up before.
LEMMA NextCountInv ==
  ASSUME StreamErrors = {}
  PROVE  Typed /\ SliceInv /\ CountInv /\ [Next]_vars => CountInv'
<1>1. SUFFICES ASSUME Typed, SliceInv, CountInv, [Next]_vars PROVE CountInv'
  OBVIOUS
<1>2. ASSUME UNCHANGED <<errors, dropped>> PROVE CountInv'
  BY <1>1, <1>2 DEF CountInv
<1>3. ASSUME NEW w \in Workers(call), ClaimShared(w) \/ ClaimOwn(w) PROVE CountInv'
  <2>1. PICK i \in Nat : Process(w, i)
    BY <1>1, <1>3, ClaimFacts DEF SliceInv
  <2>2. UNCHANGED <<errors, dropped>>
    BY <1>1, <2>1, ProcessEffects DEF Typed
  <2>3. QED
    BY <1>2, <2>2
<1>4. ASSUME NEW w \in Workers(call), Extract(w) PROVE CountInv'
  <2>1. PICK d \in todo[w] :
          \/ UNCHANGED <<errors, dropped>>
          \/ RecordError(w, d.code) /\ dropped' = dropped \union {d}
    BY <1>1, <1>4, ExtractFacts
  <2>2. CASE RecordError(w, d.code) /\ dropped' = dropped \union {d}
    <3>1. d \notin dropped
      BY <1>1 DEF SliceInv, EachDocumentOnce, Mine
    <3>2. /\ IsFiniteSet(dropped \union {d})
          /\ Cardinality(dropped \union {d}) = Cardinality(dropped) + 1
      BY <1>1, <3>1, FS_AddElement DEF CountInv
    <3>3. IsFiniteSet(Workers(call)) /\ errors \in [Workers(call) -> Nat]
      <4>1. call \in Calls /\ errors \in [Workers(call) -> Nat]
        BY <1>1 DEF Typed, TypeOK
      <4>2. Workers(call) = 0 .. WorkerCount(call) - 1 /\ WorkerCount(call) \in Nat
        BY <4>1, CallFacts
      <4>3. QED
        BY <4>1, <4>2, FS_Interval
    <3>4. SumFunction([errors EXCEPT ![w] = @ + 1]) = SumFunction(errors) + 1
      BY <3>3, SumOneMore
    <3>5. QED
      BY <1>1, <2>2, <3>2, <3>4 DEF CountInv, RecordError
  <2>3. QED
    BY <1>2, <2>1, <2>2
<1>5. CASE \/ \E w \in Workers(call) : Spawn(w) \/ FinishOwn(w)
           \/ Merge \/ Return \/ Terminated \/ UNCHANGED vars
  <2>1. UNCHANGED <<errors, dropped>>
    BY <1>5 DEF Spawn, FinishOwn, Merge, Return, Terminated, vars
  <2>2. QED
    BY <1>2, <2>1
<1>6. QED
  BY <1>1, <1>3, <1>4, <1>5 DEF Next, Caller, Worker

\* When every slice can be opened, there is an error for each document given up, in
\* every state and over all workers.
THEOREM EachLossCounted == Spec => []ErrorsAreCounted
<1>1. CASE StreamErrors = {}
  <2>1. CountInv => ErrorsAreCounted
    BY DEF CountInv, ErrorsAreCounted
  <2>2. Typed /\ SliceInv /\ CountInv /\ [Next]_vars => CountInv'
    BY <1>1, NextCountInv
  <2>3. QED
    BY <2>1, <2>2, InitTyped, NextTyped, SliceInvariant, InitCountInv, PTL DEF Spec
<1>2. CASE StreamErrors # {}
  <2>1. ErrorsAreCounted
    BY <1>2 DEF ErrorsAreCounted
  <2>2. QED
    BY <2>1, PTL
<1>3. QED
  BY <1>1, <1>2

-----------------------------------------------------------------------------
(* The inductive invariant as one theorem, and run_parallel.               *)

\* The inductive invariant, whole.
THEOREM Invariant == Spec => []IInv
<1>1. SliceInv /\ DoneInv /\ ErrorInv => IInv
  BY DEF IInv
<1>2. QED
  BY <1>1, SliceInvariant, DoneInvariant, ErrorInvariant, PTL

-----------------------------------------------------------------------------
\* A value that is kept is in one place of one shard.
LEMMA AddedOnce ==
  ASSUME Typed, EachDocumentOnce, NEW d \in Kept
  PROVE  Cardinality({x \in Added : shards[x[1]][x[2]] = d}) = 1
<1> DEFINE Places == {x \in Added : shards[x[1]][x[2]] = d}
<1>1. PICK w \in Workers(call) : d \in Range(shards[w])
  BY DEF Kept
<1>2. PICK n \in DOMAIN shards[w] : shards[w][n] = d
  BY <1>1 DEF Range
<1>3. <<w, n>> \in Places
  BY <1>2 DEF Added
<1>4. ASSUME NEW x \in Places PROVE x = <<w, n>>
  <2>1. PICK v \in Workers(call) : x \in {v} \X DOMAIN shards[v]
    BY <1>4 DEF Added
  <2>2. PICK m \in DOMAIN shards[v] : x = <<v, m>> /\ shards[v][m] = d
    BY <1>4, <2>1
  <2>3. d \in Mine(v) /\ d \in Mine(w)
    BY <1>1, <2>2 DEF Mine, Range
  <2>4. v = w
    BY <2>3 DEF EachDocumentOnce
  <2>5. DOMAIN shards[w] = 1 .. Len(shards[w])
    BY DEF Typed, TypeOK
  <2>6. m = n
    BY <1>2, <2>2, <2>4, <2>5 DEF EachDocumentOnce
  <2>7. QED
    BY <2>2, <2>4, <2>6
<1>5. Places = {<<w, n>>}
  BY <1>3, <1>4
<1>6. QED
  BY <1>5, FS_Singleton

\* run_parallel adds each value once, whatever the slices and the workers, and lacks
\* only those of the documents that were given up.
THEOREM ParallelReproducesSerial ==
  ASSUME DelimiterFreeCalls, SlicesCountable
  PROVE  Spec => []ParallelAgrees
<1>1. ASSUME Typed, EachDocumentOnce, OnlyGoodIsKept, NothingIsLost, LossIsReported
      PROVE  ParallelAgrees
  <2>1. SUFFICES ASSUME out.returned
                 PROVE  /\ ParallelTotal = [d \in Good \ dropped |-> 1]
                        /\ ParallelTotal # SerialTotal(TRUE) => out.errors > 0
    BY DEF ParallelAgrees
  <2>2. \A d \in Kept : d.code = SUCCESS /\ d \notin dropped
    BY <1>1 DEF OnlyGoodIsKept, EachDocumentOnce, Kept, Mine
  <2>3. Kept = Good \ dropped
    BY <1>1, <2>1, <2>2 DEF NothingIsLost, Good
  <2>4. ParallelTotal = [d \in Kept |-> 1]
    BY <1>1, AddedOnce DEF ParallelTotal
  <2>5. out.errors \in Nat /\ (out.errors = 0 => dropped = {})
    BY <1>1, <2>1 DEF Typed, TypeOK, LossIsReported
  <2>6. out.errors > 0 \/ ParallelTotal = SerialTotal(TRUE)
    BY <2>3, <2>4, <2>5 DEF SerialTotal
  <2>7. QED
    BY <2>3, <2>4, <2>6
<1>2. SliceInv => OnlyGoodIsKept
  BY DEF SliceInv
<1>3. QED
  BY <1>1, <1>2, InitTyped, NextTyped, ExtractedOnce, SliceInvariant, NothingLost,
     LossReported, PTL DEF Spec
=============================================================================
