------------------------------ MODULE Datasets ------------------------------
(***************************************************************************)
(* datasets.sh, which obtains the corpus: it downloads OpenAlex with curl  *)
(* and the bulky records with gdown, and derives the JSON lines of each    *)
(* with src/tools/make_ndjson.cpp.  A file that is there is not fetched    *)
(* again, so the disk is what one run of the script leaves to the next.    *)
(*                                                                         *)
(* A run may be killed between any two steps.  What curl, gdown and        *)
(* make_ndjson leave behind is external; a file is absent, empty, whole,   *)
(* or a part: not empty, and not what it should be.  A program that is not *)
(* installed ends a run as a kill does.  Copying the corpus from another   *)
(* machine (--corpus-from) is left out.                                    *)
(***************************************************************************)
EXTENDS Integers, FiniteSets

CONSTANTS
  Names,     \* the datasets
  NoName,    \* none of them
  Attempts,  \* downloads of a bulky record before it is given up: 5
  MaxRuns    \* bound: runs of the script

ASSUME DatasetsAssumption == NoName \notin Names /\ Attempts \in Nat \ {0} /\ MaxRuns \in Nat \ {0}

Contents == {"absent", "empty", "part", "whole"}

VARIABLES
  openalex,  \* the file of OpenAlex
  bulky,     \* of each dataset: its bulky record
  derived,   \* of each dataset: its JSON lines
  stage,     \* where the script is, or how it ended
  todo,      \* the datasets left in its loop
  name,      \* the one it is at
  attempt,   \* the download attempts for it so far
  failed,    \* whether a bulky record was given up
  runs,      \* how often the script has been run
  fetched,   \* history: the datasets whose record a gdown that succeeded has left
  cut        \* history: those a run was killed at while their record was fetched

scriptVars == <<openalex, bulky, derived, stage, todo, name, attempt, failed, runs, fetched, cut>>

disk == <<openalex, bulky, derived>>
loop == <<todo, name, attempt, failed>>
history == <<runs, fetched, cut>>

\* The test [ -s file ].
Present(file) == file \in {"part", "whole"}

ScriptInit ==
  /\ openalex = "absent"
  /\ bulky = [n \in Names |-> "absent"]
  /\ derived = [n \in Names |-> "absent"]
  /\ stage = "openalex"
  /\ todo = {} /\ name = NoName /\ attempt = 0 /\ failed = FALSE
  /\ runs = 1 /\ fetched = {} /\ cut = {}

Ended == stage \in {"ready", "died", "killed"}

\* A run that ends early; set -e makes a command that fails end it too.
Die == stage' = "died" /\ UNCHANGED <<loop, history>>

-----------------------------------------------------------------------------
\* What a command that failed or was killed leaves of a file it was to make.
Rest(file) == {file, "empty", "part"}

\* Bug: the file is downloaded again whether it is there or not.
DownloadAlways ==
  /\ stage = "openalex"
  /\ stage' = "downloading"
  /\ UNCHANGED <<disk, loop, history>>

\* fetch_openalex: curl writes to the file itself.
Download ==
  /\ stage = "openalex" /\ ~ Present(openalex)
  /\ stage' = "downloading"
  /\ UNCHANGED <<disk, loop, history>>

DownloadEnds ==
  /\ stage = "downloading"
  /\ \/ /\ openalex' = "whole"
        /\ stage' = "bulky"
        /\ UNCHANGED <<loop, history>>
     \/ openalex' = "absent" /\ Die          \* the size differs: removed
     \/ openalex' \in Rest(openalex) /\ Die  \* curl fails
  /\ UNCHANGED <<bulky, derived>>

AlreadyDownloaded ==
  /\ stage = "openalex" /\ Present(openalex)
  /\ stage' = "bulky"
  /\ UNCHANGED <<disk, loop, history>>

\* Bug: one file is enough for the records to count as fetched.
CountBulkyOne ==
  /\ stage = "bulky"
  /\ todo' = Names
  /\ stage' = IF \A n \in Names : bulky[n] = "absent" THEN "fetch" ELSE "derive"
  /\ UNCHANGED <<disk, name, attempt, failed, history>>

\* The bulky records are fetched unless there are six files, whatever is in them.
CountBulky ==
  /\ stage = "bulky"
  /\ todo' = Names
  /\ stage' = IF \E n \in Names : bulky[n] = "absent" THEN "fetch" ELSE "derive"
  /\ UNCHANGED <<disk, name, attempt, failed, history>>

\* The next dataset, in the order of this host.
FetchBulky(n) ==
  /\ stage = "fetch" /\ n \in todo
  /\ todo' = todo \ {n}
  /\ \/ Present(bulky[n]) /\ UNCHANGED <<stage, name, attempt>>
     \/ ~ Present(bulky[n]) /\ stage' = "fetching" /\ name' = n /\ attempt' = 0
  /\ UNCHANGED <<disk, failed, history>>

\* gdown.  When it succeeds whatever is there is taken, unless it is empty.
Attempt ==
  /\ stage = "fetching" /\ attempt < Attempts
  /\ attempt' = attempt + 1
  /\ \/ /\ \E file \in {"part", "whole"} : bulky' = [bulky EXCEPT ![name] = file]
        /\ stage' = "fetch" /\ fetched' = fetched \union {name}
     \/ /\ \E file \in Rest(bulky[name]) : bulky' = [bulky EXCEPT ![name] = file]
        /\ stage' = "removing" /\ UNCHANGED fetched
  /\ UNCHANGED <<openalex, derived, todo, name, failed, runs, cut>>

\* Bug: what a failed attempt leaves is not removed before the next one.
RemoveNothing ==
  /\ stage = "removing"
  /\ stage' = "fetching"
  /\ UNCHANGED <<disk, loop, history>>

\* rm, and the back-off, after an attempt that failed.
Remove ==
  /\ stage = "removing"
  /\ bulky' = [bulky EXCEPT ![name] = "absent"]
  /\ stage' = "fetching"
  /\ UNCHANGED <<openalex, derived, loop, history>>

GiveUp ==
  /\ stage = "fetching" /\ attempt = Attempts
  /\ stage' = "fetch" /\ failed' = TRUE
  /\ UNCHANGED <<disk, todo, name, attempt, history>>

Fetched ==
  /\ stage = "fetch" /\ todo = {}
  /\ \/ failed /\ Die
     \/ /\ ~ failed
        /\ stage' = "derive" /\ todo' = Names
        /\ UNCHANGED <<name, attempt, failed, history>>
  /\ UNCHANGED disk

\* The next dataset to derive: skipped when its lines are there, or its bulky record
\* is not; otherwise make_ndjson is run.
Derive(n) ==
  /\ stage = "derive" /\ n \in todo
  /\ todo' = todo \ {n}
  /\ \/ /\ Present(derived[n]) \/ bulky[n] = "absent"
        /\ UNCHANGED <<stage, name>>
     \/ /\ ~ Present(derived[n]) /\ bulky[n] # "absent"
        /\ stage' = "deriving" /\ name' = n
  /\ UNCHANGED <<disk, attempt, failed, history>>

\* make_ndjson fails before it opens its output when it finds no array of records, as
\* in an empty file.  Then it writes a record at a time.  It skips one it cannot read
\* and does not look at what fwrite returns, so it may succeed with a part of the
\* records, or none; it fails when one cannot be minified.
DeriveEnds ==
  /\ stage = "deriving"
  /\ \/ UNCHANGED derived /\ Die
     \/ /\ Present(bulky[name])
        /\ \E file \in {"empty", "part"} : derived' = [derived EXCEPT ![name] = file]
        /\ \/ Die
           \/ stage' = "derive" /\ UNCHANGED <<loop, history>>
     \/ /\ bulky[name] = "whole"
        /\ derived' = [derived EXCEPT ![name] = "whole"]
        /\ stage' = "derive" /\ UNCHANGED <<loop, history>>
  /\ UNCHANGED <<openalex, bulky>>

\* The comparison with the published files only warns.
Validate ==
  /\ stage = "derive" /\ todo = {}
  /\ stage' = "ready"
  /\ UNCHANGED <<disk, loop, history>>

\* The script is killed, and a download or a derivation with it.
Kill ==
  /\ ~ Ended
  /\ stage' = "killed"
  /\ \/ stage = "downloading" /\ openalex' \in Rest(openalex)
     \/ UNCHANGED openalex
  /\ \/ /\ stage = "fetching" /\ attempt < Attempts
        /\ \E file \in Rest(bulky[name]) : bulky' = [bulky EXCEPT ![name] = file]
     \/ UNCHANGED bulky
  /\ cut' = IF stage \in {"fetching", "removing"} THEN cut \union {name} ELSE cut
  /\ \/ /\ stage = "deriving" /\ Present(bulky[name])
        /\ \E file \in {"empty", "part"} : derived' = [derived EXCEPT ![name] = file]
     \/ UNCHANGED derived
  /\ UNCHANGED <<loop, runs, fetched>>

\* And run again.
RunAgain ==
  /\ Ended /\ runs < MaxRuns
  /\ stage' = "openalex"
  /\ todo' = {} /\ name' = NoName /\ attempt' = 0 /\ failed' = FALSE
  /\ runs' = runs + 1
  /\ UNCHANGED <<disk, fetched, cut>>

ScriptNext ==
  \/ Download \/ DownloadEnds \/ AlreadyDownloaded \/ CountBulky
  \/ (\E n \in Names : FetchBulky(n) \/ Derive(n))
  \/ Attempt \/ Remove \/ GiveUp \/ Fetched \/ DeriveEnds \/ Validate
  \/ Kill \/ RunAgain
  \/ Ended /\ UNCHANGED scriptVars

ScriptSpec == ScriptInit /\ [][ScriptNext]_scriptVars

-----------------------------------------------------------------------------
TypeOK ==
  /\ openalex \in Contents
  /\ bulky \in [Names -> Contents] /\ derived \in [Names -> Contents]
  /\ todo \subseteq Names /\ name \in Names \union {NoName}
  /\ attempt \in 0 .. Attempts
  /\ runs \in 1 .. MaxRuns
  /\ fetched \subseteq Names /\ cut \subseteq Names

\* No run undoes what another has obtained: a file that is whole stays so, whatever
\* fails or is killed.
WholeStaysWhole ==
  [][/\ openalex = "whole" => openalex' = "whole"
     /\ \A n \in Names : /\ bulky[n] = "whole" => bulky'[n] = "whole"
                         /\ derived[n] = "whole" => derived'[n] = "whole"]_scriptVars

\* A run that says "corpus ready" (datasets.sh:178) has passed over no dataset, although
\* it warns and goes on when a download fails (:146) or a record is missing (:161), and
\* does not fetch at all when it counts six files (:132): each has its lines, and a
\* record that a download which succeeded has left, in this run or an earlier one.
\* It is never what a failed attempt left (:124), unless a run was killed at it.
ReadySkipsNone ==
  stage = "ready" =>
    \A n \in Names : /\ derived[n] # "absent"
                     /\ Present(bulky[n])
                     /\ n \in fetched \union cut

\* "corpus ready in $DIR/ndjson" (datasets.sh:178), OpenAlex being "part of the corpus
\* by default" (:25-26): a run that says so has the whole of the file, whose size is
\* checked (:53).
ReadyHasOpenAlex == stage = "ready" => openalex = "whole"
=============================================================================
