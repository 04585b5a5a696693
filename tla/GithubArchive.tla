---------------------------- MODULE GithubArchive ----------------------------
(***************************************************************************)
(* main of cujson_baseline/github_archive.cpp: one query over one corpus,  *)
(* in four ways.  Each configuration runs once untimed and Reps times      *)
(* timed; a RESULT line is printed for it if every run has extracted       *)
(* something, the same in each, and the same as the first configuration    *)
(* that was measured.                                                      *)
(*                                                                         *)
(* The program is sequential; what a run extracts is external to main, and *)
(* may differ from one run to the next (the parallel driver and the        *)
(* threaded stream are concurrent).  An extraction is a value of a small   *)
(* set, Nothing for one without matches.                                   *)
(***************************************************************************)
EXTENDS Integers, Sequences, FiniteSets, Functions

CONSTANTS
  Reps,         \* timed runs per configuration
  Counts,       \* how many thread counts the parallel driver is run with
  Extractions,  \* what a run may extract
  Nothing       \* an extraction without a match, also that of a run with an error

ASSUME GithubArchiveAssumption ==
  Reps \in Nat \ {0} /\ Counts \subseteq Nat /\ Nothing \in Extractions

\* The configurations in the order they are measured: the driver at each thread
\* count, iterate_many with one thread and with two, and the one document.
Configurations(count, document) ==
  [t \in 1 .. count |-> "parallel"] \o <<"serial", "threaded">>
    \o IF document THEN <<"document">> ELSE <<>>

VARIABLES
  configs,    \* the configurations of this run of the program
  index,      \* the one that is measured
  run,        \* the number of its run; run 0 is untimed
  found,      \* what its run 0 extracted
  reference,  \* the extraction every configuration must return
  reported,   \* the RESULT lines: of which configuration, and with what extraction
  status,     \* the exit status, Running before
  extracted   \* history: what the runs of each configuration have extracted

vars == <<configs, index, run, found, reference, reported, status, extracted>>

Running == -1

Init ==
  /\ configs \in {Configurations(n, d) : n \in Counts, d \in BOOLEAN}
  /\ index = 1
  /\ run = 0
  /\ found = Nothing
  /\ reference = Nothing
  /\ reported = <<>>
  /\ status = Running
  /\ extracted = [c \in 1 .. Len(configs) |-> {}]

Measuring == status = Running /\ index <= Len(configs)

\* On to the next configuration.
NextConfiguration ==
  /\ index' = index + 1
  /\ run' = 0
  /\ found' = Nothing

\* A configuration failed: the parallel driver and the document end the program,
\* the two serial streams only print it.
Fail ==
  /\ \/ /\ configs[index] \in {"parallel", "document"}
        /\ status' = 1
        /\ UNCHANGED <<index, run, found>>
     \/ /\ configs[index] \in {"serial", "threaded"}
        /\ NextConfiguration
        /\ UNCHANGED status
  /\ UNCHANGED <<configs, reference, reported>>

\* The parallel driver's first result is the reference; it is compared with it from
\* then on, and the other configurations always are.
Agrees(e) ==
  (configs[index] = "parallel" /\ reference = Nothing) \/ e = reference

Report(e) ==
  /\ reference' = IF configs[index] = "parallel" /\ reference = Nothing THEN e ELSE reference
  /\ reported' = Append(reported, [config |-> index, extraction |-> e])
  /\ NextConfiguration
  /\ UNCHANGED <<configs, status>>

\* Bug: only the last run is compared with the first.
OutcomeAtEnd(e) ==
  \/ /\ e = Nothing \/ (run = Reps /\ (e # found \/ ~ Agrees(e)))
     /\ Fail
  \/ /\ e # Nothing /\ run < Reps
     /\ run' = run + 1
     /\ found' = IF run = 0 THEN e ELSE found
     /\ UNCHANGED <<configs, index, reference, reported, status>>
  \/ /\ e # Nothing /\ run = Reps /\ e = found /\ Agrees(e)
     /\ Report(e)

\* What measure makes of an extraction, and main after the last run.
Outcome(e) ==
  \/ /\ \/ e = Nothing
        \/ run > 0 /\ e # found
        \/ run = Reps /\ ~ Agrees(e)
     /\ Fail
  \/ /\ e # Nothing /\ (run > 0 => e = found)
     /\ run < Reps
     /\ run' = run + 1
     /\ found' = e
     /\ UNCHANGED <<configs, index, reference, reported, status>>
  \/ /\ e # Nothing /\ e = found /\ Agrees(e)
     /\ run = Reps
     /\ Report(e)

\* One run of a configuration.
Run ==
  /\ Measuring
  /\ \E e \in Extractions :
       /\ Outcome(e)
       /\ extracted' = [extracted EXCEPT ![index] = @ \union {e}]

Finish ==
  /\ status = Running /\ index > Len(configs)
  /\ status' = 0
  /\ UNCHANGED <<configs, index, run, found, reference, reported, extracted>>

Next == Run \/ Finish \/ (status # Running /\ UNCHANGED vars)

Spec == Init /\ [][Next]_vars

-----------------------------------------------------------------------------
\* "Every run must return the same number of names and the same hash of them"
\* (github_archive.cpp:24): whatever is reported, each of its runs extracted the
\* names that each run of every other configuration reported did, and some.
ReportedAgree ==
  \A r, s \in Range(reported) :
    /\ extracted[r.config] = extracted[s.config]
    /\ extracted[r.config] = {r.extraction}
    /\ r.extraction # Nothing

\* "Every configuration must return the same number of names with the same hash, or
\* the program fails" (cujson_baseline/README.md:60-61).
EveryConfigurationOrFailure ==
  status = 0 => \A c \in 1 .. Len(configs) : \E r \in Range(reported) : r.config = c
=============================================================================
