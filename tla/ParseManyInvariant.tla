-------------------------- MODULE ParseManyInvariant --------------------------
(***************************************************************************)
(* The inductive invariant of ParseMany: where each document is, which     *)
(* slices have been claimed, and what the workers' errors say of what was  *)
(* given up.  ParseManyProofs proves it, TLC checks it.                    *)
(***************************************************************************)
EXTENDS ParseMany

\* The slices worker w may have claimed so far: its own run up to `next`, or
\* anything the shared counter has handed out.
Reached(w) ==
  IF call.opt.static_partition
    THEN StaticBound(call, w) .. next[w] - 1
    ELSE 0 .. cursor - 1

\* The parts of the inductive invariant.
RunsInBounds ==
  call.opt.static_partition =>
    \A w \in Workers(call) : next[w] \in StaticBound(call, w) .. StaticBound(call, w + 1)

MineIsReached ==
  \A w \in Workers(call) : \A d \in Mine(w) : \E i \in Reached(w) : d \in DocsOf(call, i)

DroppedIsReached ==
  \A d \in dropped : \E w \in Workers(call) : \E i \in Reached(w) : d \in DocsOf(call, i)

ReachedIsTaken ==
  \A w \in Workers(call) : \A i \in Reached(w) : \A d \in DocsOf(call, i) :
    d \in dropped \/ \E v \in Workers(call) : d \in Mine(v)

OnlyGoodIsKept ==
  \A w \in Workers(call) : \A d \in Range(shards[w]) : d.code = SUCCESS

\* A worker exits when no slice it could claim holds a document.
ExitedIsDone ==
  \A w \in Workers(call) : pc[w] = "exited" =>
    /\ todo[w] = {}
    /\ \A i \in 0 .. call.json.length :
         i * SliceBytes(call) < call.json.length =>
           IF call.opt.static_partition
             THEN i \notin next[w] .. StaticBound(call, w + 1) - 1
             ELSE i < cursor

ErrorsAreNamed ==
  /\ \A w \in Workers(call) : first[w] = SUCCESS <=> errors[w] = 0
  /\ dropped # {} => \E w \in Workers(call) : errors[w] > 0

MergedErrors ==
  /\ merged > 0 \/ out.returned => Joined
  /\ out.returned => merged = WorkerCount(call)
  /\ out.first_error = SUCCESS <=> out.errors = 0
  /\ \A w \in Workers(call) : w < merged /\ errors[w] > 0 => out.errors > 0

SliceInv == /\ RunsInBounds
            /\ MineIsReached
            /\ DroppedIsReached
            /\ EachDocumentOnce
            /\ OrderWithinShard
            /\ OnlyGoodIsKept

DoneInv == /\ ReachedIsTaken
           /\ ExitedIsDone

ErrorInv == /\ ErrorsAreNamed
            /\ MergedErrors

\* Together with TypeOK these are preserved by every step: what is in a shard comes
\* from claimed slices, what has been claimed is someone's, and errors add up.
IInv == SliceInv /\ DoneInv /\ ErrorInv
=============================================================================
