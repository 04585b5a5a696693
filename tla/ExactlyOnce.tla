----------------------------- MODULE ExactlyOnce -----------------------------
(***************************************************************************)
(* What every parallel driver of the benchmark promises of a stream,       *)
(* whatever its slices, threads and scheduling: each document is taken by  *)
(* one worker, its extraction is kept or dropped once, and the call        *)
(* returns only when none is left.                                         *)
(***************************************************************************)
CONSTANT Streams   \* the streams it may be called on, each a set of documents

VARIABLES pending,   \* documents no worker has taken yet
          taken,     \* documents in the slice some worker is going through
          kept,      \* documents whose value is in the result
          dropped,   \* documents given up with an error
          returned   \* the call has returned

vars == <<pending, taken, kept, dropped, returned>>

Init ==
  /\ pending \in Streams
  /\ taken = {}
  /\ kept = {}
  /\ dropped = {}
  /\ returned = FALSE

\* A worker takes the documents of a slice.
Take(docs) ==
  /\ docs \subseteq pending
  /\ pending' = pending \ docs
  /\ taken' = taken \union docs
  /\ UNCHANGED <<kept, dropped, returned>>

\* A slice whose stream cannot be opened is given up as a whole.
GiveUp(docs) ==
  /\ docs \subseteq pending
  /\ pending' = pending \ docs
  /\ dropped' = dropped \union docs
  /\ UNCHANGED <<taken, kept, returned>>

Keep(d) ==
  /\ d \in taken
  /\ taken' = taken \ {d}
  /\ kept' = kept \union {d}
  /\ UNCHANGED <<pending, dropped, returned>>

Drop(d) ==
  /\ d \in taken
  /\ taken' = taken \ {d}
  /\ dropped' = dropped \union {d}
  /\ UNCHANGED <<pending, kept, returned>>

Return ==
  /\ pending = {}
  /\ taken = {}
  /\ ~ returned
  /\ returned' = TRUE
  /\ UNCHANGED <<pending, taken, kept, dropped>>

Next ==
  \/ \E docs \in SUBSET pending : Take(docs) \/ GiveUp(docs)
  \/ \E d \in taken : Keep(d) \/ Drop(d)
  \/ Return

Spec == Init /\ [][Next]_vars
=============================================================================
