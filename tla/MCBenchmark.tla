----------------------------- MODULE MCBenchmark -----------------------------
(***************************************************************************)
(* Instances of Benchmark for TLC, with two DOM libraries.                 *)
(***************************************************************************)
EXTENDS Benchmark

MCLibraries == <<"yyjson", "rapidjson">>

\* `single` and `scaling` are asked for together.
MCInvocations ==
  [sections : {s \in SUBSET Sections : "single" \in s <=> "scaling" \in s},
   single_record : BOOLEAN, verify_only : BOOLEAN, dump : BOOLEAN, no_dom : BOOLEAN]

\* Either library, or none, may differ in parallel, and any one encoding.
MCWorlds ==
  [query : BOOLEAN, decode : BOOLEAN, bulky : BOOLEAN, records_long : BOOLEAN,
   serial : {Range(MCLibraries), {"rapidjson"}},
   parallel : {Range(MCLibraries), {"yyjson"}, {"rapidjson"}},
   formats : {2 .. 6, {2, 3, 4, 5}, {3, 4, 5, 6}}]

\* A run with --verify, whatever its sections.
VerifyInvocations ==
  [sections : SUBSET Sections,
   single_record : {FALSE}, verify_only : {TRUE}, dump : {FALSE}, no_dom : {FALSE}]
=============================================================================
