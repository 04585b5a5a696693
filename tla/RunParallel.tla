----------------------------- MODULE RunParallel -----------------------------
(***************************************************************************)
(* run_parallel of src/simdjson_engine.cpp: parse_many, and the sum of all *)
(* that its shards hold, which is compared with what run_serial_format     *)
(* extracts document by document.  An extraction is the bag of the         *)
(* documents whose values are in it.                                       *)
(***************************************************************************)
EXTENDS ParseMany

\* The documents on which the query succeeds.
Good == {d \in call.json.docs : d.code = SUCCESS}

\* run_serial_format: the values of a document count if the query succeeds on it, and
\* there are none if the stream cannot be opened.
SerialTotal(opened) == [d \in IF opened THEN Good ELSE {} |-> 1]

\* The loop over the shards and what is in each: how often the values of a document
\* are added.
Added == UNION {{w} \X DOMAIN shards[w] : w \in Workers(call)}
ParallelTotal == [d \in Kept |-> Cardinality({x \in Added : shards[x[1]][x[2]] = d})]

\* run_parallel never looks at errors(), and main, which has the serial run checked,
\* never compares the parallel one (main.cpp:719-722): its total has each value once,
\* however the slices were claimed, but for those of slices that were given up; and
\* when it is not that of a serial run whose stream opens, parse_many has said so.
ParallelAgrees ==
  out.returned =>
    /\ ParallelTotal = [d \in Good \ dropped |-> 1]
    /\ ParallelTotal # SerialTotal(TRUE) => out.errors > 0
=============================================================================
