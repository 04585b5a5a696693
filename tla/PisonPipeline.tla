---------------------------- MODULE PisonPipeline ----------------------------
(***************************************************************************)
(* The Pison side of an end-to-end measurement of src/main.cpp: fast_loader*)
(* lays the stream out with some threads, and run_stream goes through the  *)
(* table it made with as many, reading the buffer it filled.               *)
(***************************************************************************)
EXTENDS FastLoader

CONSTANTS Chunk, Broken

ASSUME ChunkAssumption == Chunk \in Nat \ {0}

VARIABLES cursor, pc, todo, shards, merged, total

Stream == INSTANCE RunStream WITH
  text <- bytes, records <- table, threads <- load.threads

streamVars == <<cursor, pc, todo, shards, merged, total>>

PipelineInit ==
  /\ Init
  /\ Stream!InitState

\* A thread of the loader; all of them have returned before the query begins.
LoaderThread(t) ==
  /\ t \in Threads(load)
  /\ Scan(t) \/ Fill(t) \/ FillEnd(t)
  /\ UNCHANGED streamVars

\* The caller, which makes the loader's plan and then runs the query.
MainThread ==
  \/ Plan /\ UNCHANGED streamVars
  \/ Loaded /\ UNCHANGED vars /\ Stream!Caller

\* A thread of the query.
QueryThread(t) ==
  /\ Loaded
  /\ t \in Stream!Pool
  /\ UNCHANGED vars
  /\ Stream!Thread(t)

Finished == Loaded /\ Stream!Returned

ThreadIds == UNION {Threads(c) : c \in Loads}

pipelineVars == <<vars, streamVars>>

PipelineNext ==
  \/ MainThread
  \/ \E t \in ThreadIds : LoaderThread(t) \/ QueryThread(t)
  \/ Finished /\ UNCHANGED pipelineVars

\* Every step changes one of these.
progress == <<phase, written, pc, cursor, todo, merged>>

\* The caller and every thread of the query the operating system has started are
\* scheduled again and again; the loader has no loop that could turn without end.
PipelineSpec ==
  /\ PipelineInit
  /\ [][PipelineNext]_pipelineVars
  /\ WF_progress(MainThread)
  /\ \A t \in ThreadIds : WF_progress(QueryThread(t))

-----------------------------------------------------------------------------
PipelineTypeOK == TypeOK /\ Stream!TypeOK

\* Both halves together query each record of the stream once, in its own padded
\* layout, whatever the threads of either: the result is that of the stream, not
\* of the buffer.
Expected ==
  LET recs      == ScanRange(load.text, 0, load.text.length)
      padded(i) == Slot(recs[i], 0)
      good      == {i \in 1 .. Len(recs) : Range(padded(i)) \intersect Broken = {}}
  IN [c \in {padded(i) : i \in good} |-> Cardinality({i \in good : padded(i) = c})]

QueriesTheStream == Finished => total = Expected

\* Once the stream is loaded the query returns, also when an index cannot be built.
Returns == Loaded ~> Finished
=============================================================================
