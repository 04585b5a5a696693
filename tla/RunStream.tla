------------------------------ MODULE RunStream ------------------------------
(***************************************************************************)
(* pison::run_stream of src/pison_engine.cpp: the records of a table are   *)
(* indexed and queried, serially or by threads that claim them in chunks   *)
(* from one atomic counter.  Each thread adds what it extracts to a shard  *)
(* of its own; the caller joins the threads and merges the shards.         *)
(*                                                                         *)
(* An extraction is a commutative sum, so it is modelled by the bag of the *)
(* record contents it was made from.                                       *)
(***************************************************************************)
EXTENDS Integers, FiniteSets, Bags

CONSTANTS
  Chunk,    \* how many records a claim takes: 64
  Broken    \* bytes with which Pison builds no index of a record

VARIABLES
  text,     \* the buffer: a function from positions to bytes
  records,  \* the record table: a sequence of [offset, length]
  threads,  \* the number of threads asked for
  cursor,   \* the atomic counter of records
  pc,       \* of each thread: unborn, running or exited
  todo,     \* of each thread: the records left in its chunk
  shards,   \* of each thread: its extraction
  merged,   \* how many shards the caller has merged
  total     \* the caller's extraction

vars == <<text, records, threads, cursor, pc, todo, shards, merged, total>>

Pool == IF threads <= 1 THEN {} ELSE 0 .. threads - 1

Count == Cardinality(DOMAIN records)

Content(i) ==
  [b \in 0 .. records[i + 1].length - 1 |-> text[records[i + 1].offset + b]]

Indexed(i) == \A b \in DOMAIN Content(i) : Content(i)[b] \notin Broken

\* do_record: what record i adds to an extraction.
do_record(i) == IF Indexed(i) THEN SetToBag({Content(i)}) ELSE EmptyBag

InitState ==
  /\ cursor = 0
  /\ pc = [t \in Pool |-> "unborn"]
  /\ todo = [t \in Pool |-> {}]
  /\ shards = [t \in Pool |-> EmptyBag]
  /\ merged = 0
  /\ total = EmptyBag

-----------------------------------------------------------------------------
\* The serial loop: with at most one thread the caller goes through the table.
SerialRecord ==
  /\ threads <= 1
  /\ cursor < Count
  /\ total' = total (+) do_record(cursor)
  /\ cursor' = cursor + 1
  /\ UNCHANGED <<text, records, threads, pc, todo, shards, merged>>

Spawn(t) ==
  /\ pc[t] = "unborn"
  /\ \A u \in Pool : u < t => pc[u] # "unborn"
  /\ pc' = [pc EXCEPT ![t] = "running"]
  /\ UNCHANGED <<text, records, threads, cursor, todo, shards, merged, total>>

Idle(t) == pc[t] = "running" /\ todo[t] = {}

\* Bug: the last chunk is claimed only when it is whole.
ClaimWholeChunk(t) ==
  /\ Idle(t)
  /\ cursor' = cursor + Chunk
  /\ IF cursor + Chunk > Count
       THEN pc' = [pc EXCEPT ![t] = "exited"] /\ UNCHANGED todo
       ELSE todo' = [todo EXCEPT ![t] = cursor .. cursor + Chunk - 1] /\ UNCHANGED pc
  /\ UNCHANGED <<text, records, threads, shards, merged, total>>

\* Bug: the last chunk is not cut off at the end of the table.
ClaimPastTable(t) ==
  /\ Idle(t)
  /\ cursor' = cursor + Chunk
  /\ IF cursor >= Count
       THEN pc' = [pc EXCEPT ![t] = "exited"] /\ UNCHANGED todo
       ELSE todo' = [todo EXCEPT ![t] = cursor .. cursor + Chunk - 1] /\ UNCHANGED pc
  /\ UNCHANGED <<text, records, threads, shards, merged, total>>

\* A claim (fetch_add): the next chunk of the table, or its end.
Claim(t) ==
  /\ Idle(t)
  /\ cursor' = cursor + Chunk
  /\ \/ /\ cursor >= Count
        /\ pc' = [pc EXCEPT ![t] = "exited"]
        /\ UNCHANGED todo
     \/ /\ cursor < Count
        /\ todo' = [todo EXCEPT ![t] = {i \in cursor .. cursor + Chunk - 1 : i < Count}]
        /\ UNCHANGED pc
  /\ UNCHANGED <<text, records, threads, shards, merged, total>>

\* Bug: a record no index can be built of is tried again.
RecordRetried(t) ==
  /\ pc[t] = "running" /\ todo[t] # {}
  /\ LET i == CHOOSE i \in todo[t] : \A j \in todo[t] : i <= j
     IN IF Indexed(i)
          THEN /\ todo' = [todo EXCEPT ![t] = @ \ {i}]
               /\ shards' = [shards EXCEPT ![t] = @ (+) do_record(i)]
          ELSE UNCHANGED <<todo, shards>>
  /\ UNCHANGED <<text, records, threads, cursor, pc, merged, total>>

\* The next record of the thread's chunk.
Record(t) ==
  /\ pc[t] = "running" /\ todo[t] # {}
  /\ LET i == CHOOSE i \in todo[t] : \A j \in todo[t] : i <= j
     IN /\ todo' = [todo EXCEPT ![t] = @ \ {i}]
        /\ shards' = [shards EXCEPT ![t] = @ (+) do_record(i)]
  /\ UNCHANGED <<text, records, threads, cursor, pc, merged, total>>

Joined == \A t \in Pool : pc[t] = "exited"

Merge ==
  /\ merged \in Pool
  /\ Joined
  /\ total' = total (+) shards[merged]
  /\ merged' = merged + 1
  /\ UNCHANGED <<text, records, threads, cursor, pc, todo, shards>>

Returned == IF threads <= 1 THEN cursor = Count ELSE merged = threads

Caller == SerialRecord \/ (\E t \in Pool : Spawn(t)) \/ Merge

Thread(t) == Claim(t) \/ Record(t)

-----------------------------------------------------------------------------
TypeOK ==
  /\ cursor \in Nat
  /\ pc \in [Pool -> {"unborn", "running", "exited"}]
  /\ todo \in [Pool -> SUBSET (0 .. Count - 1)]
  /\ \A t \in Pool : IsABag(shards[t])
  /\ merged \in Nat /\ merged <= threads
  /\ IsABag(total)
=============================================================================
