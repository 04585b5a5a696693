------------------------------ MODULE Benchmark ------------------------------
(***************************************************************************)
(* main of src/main.cpp: what one run of the benchmark does with its       *)
(* options, in which order it checks that the engines agree and prints     *)
(* RESULT lines, and with which status it exits.  A run is sequential;     *)
(* what varies is the options and what the engines compute, both chosen in *)
(* the initial state: the run finds out as it compares their results.      *)
(***************************************************************************)
EXTENDS Integers, Sequences, FiniteSets, Functions

CONSTANTS
  Libraries,   \* the DOM libraries that were built, in order
  Invocations, \* the options of a run
  Worlds       \* what the engines compute

Sections == {"load", "verify", "single", "format", "scaling", "e2e"}

\* The encodings the format study compares, in order, serial runs first.
Encodings ==
  <<[name |-> "newline", threaded |-> FALSE], [name |-> "whitespace", threaded |-> FALSE],
    [name |-> "comma", threaded |-> FALSE], [name |-> "newline", threaded |-> TRUE],
    [name |-> "whitespace", threaded |-> TRUE], [name |-> "comma", threaded |-> TRUE]>>

\* A world: which results equal simdjson's (query and decode for Pison, decode for
\* each DOM library, serially and in parallel), whether both engines agree on the
\* bulky record, which encodings give the result of the first, and whether every
\* record is longer than five bytes.
IsWorld(w) ==
  /\ w.query \in BOOLEAN /\ w.decode \in BOOLEAN /\ w.bulky \in BOOLEAN
  /\ w.serial \subseteq Range(Libraries) /\ w.parallel \subseteq Range(Libraries)
  /\ w.formats \subseteq 2 .. Len(Encodings)
  /\ w.records_long \in BOOLEAN

IsInvocation(v) ==
  /\ v.sections \subseteq Sections
  /\ v.single_record \in BOOLEAN /\ v.verify_only \in BOOLEAN
  /\ v.dump \in BOOLEAN /\ v.no_dom \in BOOLEAN

ASSUME BenchmarkAssumption ==
  /\ Libraries \in Seq(Range(Libraries))
  /\ (\A w \in Worlds : IsWorld(w)) /\ (\A v \in Invocations : IsInvocation(v))

VARIABLES
  o,        \* the options
  world,    \* what the engines compute
  stage,    \* where main is
  i,        \* the next library or encoding of a loop
  agree,    \* what the agreement section has found so far
  results,  \* the RESULT lines printed so far
  status    \* the exit status, Running before

vars == <<o, world, stage, i, agree, results, status>>

Running == -1

wants(section) == section \in o.sections

\* A RESULT line; encoding is 0 but in the format study.
Result(phase, encoding) == [phase |-> phase, encoding |-> encoding]

Init ==
  /\ o \in Invocations
  /\ world \in Worlds
  /\ stage = IF o.single_record THEN "bulky" ELSE "load"
  /\ i = 1
  /\ agree = TRUE
  /\ results = <<>>
  /\ status = Running

At(s) == stage = s /\ status = Running

Exit(code) ==
  /\ status' = code
  /\ UNCHANGED <<o, world, stage, i, agree, results>>

\* The next part of main, after the RESULT lines of this one.
GoTo(s, printed) ==
  /\ stage' = s
  /\ results' = results \o printed
  /\ i' = 1
  /\ UNCHANGED <<o, world, status>>

-----------------------------------------------------------------------------
\* The bulky record: nothing is timed unless both engines agree on it.
Bulky ==
  /\ At("bulky")
  /\ \/ ~ world.bulky /\ Exit(2)
     \/ /\ world.bulky
        /\ GoTo("bulky_timed", <<Result("bulky", 0)>>)
        /\ UNCHANGED agree

BulkyEnd == At("bulky_timed") /\ Exit(0)

\* The loaders are run for their timings, or only for the record table.
Load ==
  /\ At("load")
  /\ GoTo("verify", IF wants("load") THEN <<Result("load", 0)>> ELSE <<>>)
  /\ UNCHANGED agree

\* Pison's query and decode results against simdjson's.
Verify ==
  /\ At("verify")
  /\ \/ /\ wants("verify") \/ o.dump
        /\ agree' = (world.query /\ world.decode)
        /\ GoTo("verify_dom", <<>>)
     \/ /\ ~ (wants("verify") \/ o.dump)
        /\ GoTo("decide", <<>>)
        /\ UNCHANGED agree

\* Bug: a library that agrees makes up for one that does not.
VerifyDomLastOnly ==
  /\ At("verify_dom")
  /\ \/ /\ i <= Len(Libraries) /\ ~ o.no_dom
        /\ agree' = (Libraries[i] \in world.serial \intersect world.parallel)
        /\ i' = i + 1
        /\ UNCHANGED <<o, world, stage, results, status>>
     \/ /\ i > Len(Libraries) \/ o.no_dom
        /\ GoTo("decide", <<>>)
        /\ UNCHANGED agree

\* Each DOM library's decode result, serial and parallel, against simdjson's.
VerifyDom ==
  /\ At("verify_dom")
  /\ \/ /\ i <= Len(Libraries) /\ ~ o.no_dom
        /\ agree' = (agree /\ Libraries[i] \in world.serial \intersect world.parallel)
        /\ i' = i + 1
        /\ UNCHANGED <<o, world, stage, results, status>>
     \/ /\ i > Len(Libraries) \/ o.no_dom
        /\ GoTo("decide", <<>>)
        /\ UNCHANGED agree

\* Bug: a disagreement does not stop the run.
DecideIgnores ==
  /\ At("decide")
  /\ \/ o.dump /\ Exit(0)
     \/ ~ o.dump /\ o.verify_only /\ Exit(IF agree THEN 0 ELSE 2)
     \/ ~ o.dump /\ ~ o.verify_only /\ GoTo("single", <<>>) /\ UNCHANGED agree

\* --dump and --verify end the run; otherwise it goes on unless the engines were
\* found to disagree.
Decide ==
  /\ At("decide")
  /\ \/ o.dump /\ Exit(0)
     \/ /\ ~ o.dump /\ o.verify_only
        /\ Exit(IF agree THEN 0 ELSE 2)
     \/ ~ o.dump /\ ~ o.verify_only /\ wants("verify") /\ ~ agree /\ Exit(2)
     \/ /\ ~ o.dump /\ ~ o.verify_only /\ (wants("verify") => agree)
        /\ GoTo("single", <<>>)
        /\ UNCHANGED agree

\* The timings of one thread.
Single ==
  /\ At("single")
  /\ GoTo("format_input", IF wants("single") THEN <<Result("single", 0)>> ELSE <<>>)
  /\ UNCHANGED agree

\* The format study needs an input in which both rules see the same records.  With
\* records longer than five bytes the number of them is that of the loader's table, so
\* the second exit, which compares the two, is not taken.
FormatInput ==
  /\ At("format_input")
  /\ \/ wants("format") /\ ~ world.records_long /\ Exit(2)
     \/ /\ wants("format") /\ world.records_long
        /\ GoTo("format", <<>>)
        /\ UNCHANGED agree
     \/ /\ ~ wants("format")
        /\ GoTo("scaling", <<>>)
        /\ UNCHANGED agree

\* Each encoding is measured, compared with the first, and reported.
Format ==
  /\ At("format")
  /\ \/ /\ i <= Len(Encodings) /\ i # 1 /\ i \notin world.formats
        /\ Exit(2)
     \/ /\ i <= Len(Encodings) /\ (i = 1 \/ i \in world.formats)
        /\ results' = Append(results, Result("format", i))
        /\ i' = i + 1
        /\ UNCHANGED <<o, world, stage, agree, status>>
     \/ i > Len(Encodings) /\ GoTo("scaling", <<>>) /\ UNCHANGED agree

Scaling ==
  /\ At("scaling")
  /\ GoTo("e2e", IF wants("scaling") THEN <<Result("scaling", 0)>> ELSE <<>>)
  /\ UNCHANGED agree

EndToEnd ==
  /\ At("e2e")
  /\ GoTo("end", IF wants("e2e") THEN <<Result("e2e", 0)>> ELSE <<>>)
  /\ UNCHANGED agree

End == At("end") /\ Exit(0)

Terminated == status # Running /\ UNCHANGED vars

Step == \/ Bulky \/ BulkyEnd \/ Load \/ Verify \/ VerifyDom \/ Decide
        \/ Single \/ FormatInput \/ Format \/ Scaling \/ EndToEnd \/ End

Next == Step \/ Terminated

Spec == Init /\ [][Next]_vars

-----------------------------------------------------------------------------
Timed == {r.phase : r \in Range(results)}

\* What the agreement section compares, and finds the same.
EnginesAgree ==
  /\ world.query /\ world.decode
  /\ ~ o.no_dom => Range(Libraries) \subseteq world.serial \intersect world.parallel

TypeOK ==
  /\ o \in Invocations /\ world \in Worlds
  /\ i \in 1 .. CASE stage = "verify_dom" -> Len(Libraries) + 1
                 [] stage = "format"     -> Len(Encodings) + 1
                 [] OTHER                -> 1
  /\ agree \in BOOLEAN
  /\ Timed \subseteq {"bulky", "load", "single", "format", "scaling", "e2e"}
  /\ status \in {Running, 0, 2}

\* No engine is timed on a stream whose answers differ, if the run was to verify
\* them, nor on a bulky record (main.cpp:339: "must agree on the query before
\* anything is timed").
AgreeBeforeTiming ==
  /\ wants("verify") /\ Timed \intersect {"single", "format", "scaling", "e2e"} # {} =>
       EnginesAgree
  /\ "bulky" \in Timed => world.bulky

\* The status of a run that verified tells whether the engines agree: 2 only for a
\* disagreement or an input the format study cannot take, 0 never for one, nor when
\* an encoding of the format study gave other values.
StatusTellsAgreement ==
  /\ status = 2 =>
       \/ ~ o.single_record /\ ~ EnginesAgree
       \/ o.single_record /\ ~ world.bulky
       \/ wants("format") /\ (~ world.records_long \/ 2 .. Len(Encodings) # world.formats)
  /\ status = 0 /\ wants("verify") /\ ~ o.dump /\ ~ o.single_record => EnginesAgree
  /\ status = 0 /\ "format" \in Timed => world.formats = 2 .. Len(Encodings)

\* --verify: "check that the engines agree, then exit" (README.md:35): a status of
\* 0 says that they do.
VerifyChecks ==
  o.verify_only /\ ~ o.dump /\ ~ o.single_record /\ status = 0 => EnginesAgree
=============================================================================
