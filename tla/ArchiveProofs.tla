---------------------------- MODULE ArchiveProofs ----------------------------
(***************************************************************************)
(* github_archive: all that it reports agrees, for any number of timed     *)
(* runs and thread counts and whatever the runs extract.  Two RESULT lines *)
(* are never compared with each other: each run is compared with run 0 of  *)
(* its configuration, and run 0 with the reference, which is the first     *)
(* extraction that was reported.  The invariant says what either           *)
(* comparison has established so far.                                      *)
(*                                                                         *)
(* datasets.sh: what it keeps across runs that fail or are killed, for any *)
(* datasets and any number of attempts and runs.  The step that must not   *)
(* undo anything is the one that writes a file.  What makes it safe is     *)
(* known one step earlier: the script only begins to write a file that is  *)
(* not there.  The invariant says that this is still so while it writes.   *)
(***************************************************************************)
EXTENDS GithubArchive, Datasets, SequenceTheorems, TLAPS

\* A RESULT line.
Line == [config : Nat, extraction : Extractions]

Typed ==
  /\ Len(configs) \in Nat
  /\ index \in Nat \ {0} /\ run \in 0 .. Reps
  /\ found \in Extractions /\ reference \in Extractions
  /\ reported \in Seq(Line)
  /\ extracted \in [1 .. Len(configs) -> SUBSET Extractions]

\* Every run of a configuration that was reported extracted the reference.
ReferenceReported ==
  \A r \in Range(reported) :
    /\ r.config \in 1 .. Len(configs) /\ r.config < index
    /\ extracted[r.config] = {reference}
    /\ r.extraction = reference
    /\ reference # Nothing

\* Every run so far of the one that is measured extracted what its run 0 did.
RunsAgree ==
  Measuring =>
    /\ extracted[index] = IF run = 0 THEN {} ELSE {found}
    /\ run > 0 => found # Nothing
    /\ \A c \in index + 1 .. Len(configs) : extracted[c] = {}

IInv == Typed /\ ReferenceReported /\ RunsAgree

-----------------------------------------------------------------------------
LEMMA Lines ==
  ASSUME NEW lines \in Seq(Line), NEW line \in Line
  PROVE  /\ Append(lines, line) \in Seq(Line)
         /\ Range(Append(lines, line)) \subseteq Range(lines) \union {line}
<1>1. /\ DOMAIN Append(lines, line) = 1 .. Len(lines) + 1
      /\ DOMAIN lines = 1 .. Len(lines) /\ Len(lines) \in Nat
      /\ Append(lines, line)[Len(lines) + 1] = line
      /\ \A k \in 1 .. Len(lines) : Append(lines, line)[k] = lines[k]
  OBVIOUS
<1>2. QED
  BY <1>1 DEF Range

\* The program begins with as many configurations as its thread counts ask for.
LEMMA SomeConfigurations ==
  ASSUME Init PROVE Len(configs) \in Nat
<1>1. PICK n \in Counts, d \in BOOLEAN : configs = Configurations(n, d)
  BY DEF Init
<1>2. n \in Nat
  BY GithubArchiveAssumption
<1> DEFINE Ways == {"parallel", "serial", "threaded", "document"}
           drivers == [t \in 1 .. n |-> "parallel"]
           rest == IF d THEN <<"document">> ELSE <<>>
<1>3. drivers \in Seq(Ways)
  <2>1. drivers \in [1 .. n -> Ways]
    OBVIOUS
  <2>2. QED
    BY <1>2, <2>1, SeqDef
<1>4. <<"serial", "threaded">> \in Seq(Ways) /\ rest \in Seq(Ways)
  <2>1. \A a, b \in Ways : <<a, b>> \in Seq(Ways) /\ <<a>> \in Seq(Ways)
    <3> HIDE DEF Ways
    <3>1. QED
      OBVIOUS
  <2>2. <<>> \in Seq(Ways)
    OBVIOUS
  <2>3. QED
    BY <2>1, <2>2
<1>5. configs = (drivers \o <<"serial", "threaded">>) \o rest
  BY <1>1 DEF Configurations
<1>6. QED
  <2> HIDE DEF drivers, rest, Ways
  <2>1. drivers \o <<"serial", "threaded">> \in Seq(Ways)
    BY <1>3, <1>4, ConcatProperties
  <2>2. configs \in Seq(Ways)
    BY <1>4, <1>5, <2>1, ConcatProperties
  <2>3. QED
    BY <2>2, LenProperties

\* The configuration that was measured is left for the next, its own line being
\* the only one that may have been added.
LEMMA Left ==
  ASSUME IInv, Measuring, NextConfiguration, UNCHANGED <<configs, status>>,
         extracted' \in [1 .. Len(configs) -> SUBSET Extractions],
         \A c \in index + 1 .. Len(configs) : extracted'[c] = extracted[c],
         reference' \in Extractions, reported' \in Seq(Line), ReferenceReported'
  PROVE  IInv'
<1>1. Typed'
  BY GithubArchiveAssumption DEF IInv, Typed, NextConfiguration
<1>2. RunsAgree'
  <2> SUFFICES ASSUME index' <= Len(configs) PROVE RunsAgree'
    BY DEF RunsAgree, Measuring
  <2>1. /\ index' \in index + 1 .. Len(configs)
        /\ \A c \in index' + 1 .. Len(configs) : c \in index + 1 .. Len(configs)
    BY DEF IInv, Typed, NextConfiguration
  <2>2. QED
    BY <2>1 DEF IInv, RunsAgree, NextConfiguration
<1>3. QED
  BY <1>1, <1>2 DEF IInv

\* The invariant of github_archive: what either comparison has established.
THEOREM Invariant == Spec => []IInv
<1>1. Init => IInv
  <2> SUFFICES ASSUME Init PROVE IInv
    OBVIOUS
  <2>1. Typed
    BY SomeConfigurations, GithubArchiveAssumption DEF Init, Typed
  <2>2. ReferenceReported /\ RunsAgree
    BY <2>1 DEF Init, Typed, ReferenceReported, RunsAgree, Measuring, Range
  <2>3. QED
    BY <2>1, <2>2 DEF IInv
<1>2. IInv /\ [Next]_vars => IInv'
  <2> SUFFICES ASSUME IInv, [Next]_vars PROVE IInv'
    OBVIOUS
  <2>1. CASE UNCHANGED vars
    BY <2>1 DEF vars, IInv, Typed, ReferenceReported, RunsAgree, Measuring
  <2>2. CASE Finish
    BY <2>2 DEF Finish, IInv, Typed, ReferenceReported, RunsAgree, Measuring, Running
  <2>3. CASE Run
    <3>1. PICK e \in Extractions :
            Outcome(e) /\ extracted' = [extracted EXCEPT ![index] = @ \union {e}]
      BY <2>3 DEF Run
    <3>2. Measuring /\ index \in 1 .. Len(configs) /\ index \in Nat
      BY <2>3 DEF Run, Measuring, IInv, Typed
    <3>3. /\ extracted' \in [1 .. Len(configs) -> SUBSET Extractions]
          /\ extracted'[index] = extracted[index] \union {e}
          /\ \A c \in 1 .. Len(configs) : c # index => extracted'[c] = extracted[c]
      BY <3>1, <3>2 DEF IInv, Typed
    <3>4. \A c \in index + 1 .. Len(configs) : extracted'[c] = extracted[c]
      BY <3>2, <3>3
    <3>5. ASSUME UNCHANGED <<configs, reference, reported>>, index' \in Nat, index' >= index
          PROVE  ReferenceReported'
      <4> SUFFICES ASSUME NEW r \in Range(reported)
                   PROVE  /\ r.config \in 1 .. Len(configs) /\ r.config < index'
                          /\ extracted'[r.config] = {reference}
                          /\ r.extraction = reference
                          /\ reference # Nothing
        BY <3>5 DEF ReferenceReported
      <4>1. /\ r.config \in 1 .. Len(configs) /\ r.config < index
            /\ extracted[r.config] = {reference} /\ r.extraction = reference
            /\ reference # Nothing
        BY DEF IInv, ReferenceReported
      <4>2. r.config # index /\ r.config < index'
        <5>1. r.config \in Nat
          BY <4>1
        <5>2. QED
          BY <3>2, <3>5, <4>1, <5>1
      <4>3. QED
        BY <3>3, <4>1, <4>2
    <3>6. CASE Fail
      <4>1. CASE status' = 1 /\ UNCHANGED <<index, run, found>>
        BY <3>3, <3>5, <3>2, <3>6, <4>1
        DEF Fail, IInv, Typed, RunsAgree, Measuring, Running
      <4>2. CASE NextConfiguration /\ UNCHANGED status
        <5>1. ReferenceReported'
          BY <3>2, <3>5, <3>6, <4>2 DEF Fail, NextConfiguration
        <5>2. reference' \in Extractions /\ reported' \in Seq(Line) /\ UNCHANGED configs
          BY <3>6 DEF Fail, IInv, Typed
        <5>3. QED
          BY <3>2, <3>3, <3>4, <4>2, <5>1, <5>2, Left
      <4>3. QED
        BY <3>6, <4>1, <4>2 DEF Fail
    <3>7. CASE /\ e # Nothing /\ (run > 0 => e = found) /\ run < Reps
               /\ run' = run + 1 /\ found' = e
               /\ UNCHANGED <<configs, index, reference, reported, status>>
      <4>1. Typed'
        BY <3>3, <3>7, GithubArchiveAssumption DEF IInv, Typed
      <4>2. ReferenceReported'
        BY <3>2, <3>5, <3>7
      <4>3. extracted'[index] = {e}
        BY <3>2, <3>3, <3>7 DEF IInv, Typed, RunsAgree
      <4>4. run' > 0
        BY <3>7 DEF IInv, Typed
      <4>5. RunsAgree'
        BY <3>2, <3>4, <3>7, <4>3, <4>4 DEF IInv, Typed, RunsAgree, Measuring
      <4>6. QED
        BY <4>1, <4>2, <4>5 DEF IInv
    <3>8. CASE e # Nothing /\ e = found /\ Agrees(e) /\ run = Reps /\ Report(e)
      <4>1. extracted'[index] = {e}
        BY <3>2, <3>3, <3>8, GithubArchiveAssumption DEF IInv, Typed, RunsAgree
      <4>2. /\ reference' = e
            /\ reference' = reference \/ reference = Nothing
        BY <3>8 DEF Report, Agrees
      <4> DEFINE line == [config |-> index, extraction |-> e]
      <4>4. line \in Line /\ line.config = index /\ line.extraction = e
        BY <3>2 DEF Line
      <4>5. /\ reported' = Append(reported, line)
            /\ NextConfiguration /\ UNCHANGED <<configs, status>>
        BY <3>8 DEF Report
      <4>6. reported' \in Seq(Line) /\ Range(reported') \subseteq Range(reported) \union {line}
        BY <4>4, <4>5, Lines DEF IInv, Typed
      <4>7. ReferenceReported'
        <5> HIDE DEF line
        <5> SUFFICES ASSUME NEW r \in Range(reported')
                     PROVE  /\ r.config \in 1 .. Len(configs) /\ r.config < index'
                            /\ extracted'[r.config] = {reference'}
                            /\ r.extraction = reference'
                            /\ reference' # Nothing
          BY <4>5 DEF ReferenceReported
        <5>1. index' = index + 1
          BY <4>5 DEF NextConfiguration
        <5>2. CASE r = line
          BY <3>2, <3>8, <4>1, <4>2, <4>4, <5>1, <5>2
        <5>3. CASE r \in Range(reported)
          <6>1. /\ r.config \in 1 .. Len(configs) /\ r.config < index
                /\ extracted[r.config] = {reference} /\ r.extraction = reference
                /\ reference # Nothing
            BY <5>3 DEF IInv, ReferenceReported
          <6>2. r.config # index /\ r.config < index'
            BY <3>2, <5>1, <6>1
          <6>3. QED
            BY <3>3, <4>2, <6>1, <6>2
        <5>4. QED
          BY <4>6, <5>2, <5>3
      <4>8. QED
        BY <3>2, <3>3, <3>4, <4>2, <4>5, <4>6, <4>7, Left
    <3>9. QED
      BY <3>1, <3>6, <3>7, <3>8 DEF Outcome
  <2>4. QED
    BY <2>1, <2>2, <2>3 DEF Next
<1>3. QED
  BY <1>1, <1>2, PTL DEF Spec

\* Every run of every configuration that is reported extracted the same, and
\* something.
THEOREM AllReportedAgree == Spec => []ReportedAgree
<1>1. IInv => ReportedAgree
  BY DEF IInv, ReferenceReported, ReportedAgree
<1>2. QED
  BY Invariant, <1>1, PTL

-----------------------------------------------------------------------------
(* datasets.sh                                                             *)

\* A record is being fetched.
Fetching == stage \in {"fetching", "removing"}

\* What is being written was missing, and so is what depends on it.
WritesWhatIsMissing ==
  /\ stage = "downloading" => ~ Present(openalex)
  /\ Fetching \/ stage = "deriving" => name \in Names /\ ~ Present(derived[name])
  /\ stage = "fetching" => ~ Present(bulky[name])
  /\ stage = "removing" => bulky[name] # "whole"

\* A record is there because a download succeeded or was killed, or it is about to
\* be removed; and lines are there only with their record.
NothingFromNowhere ==
  \A n \in Names :
    /\ Present(bulky[n]) => n \in fetched \union cut \/ (stage = "removing" /\ n = name)
    /\ Present(derived[n]) => Present(bulky[n])

\* The loops have gone through the datasets that are not in todo: each record is there
\* unless a download was given up, and each record has its lines.
LoopsDone ==
  /\ stage = "fetch" \/ Fetching =>
       failed \/ \A n \in Names \ todo : Present(bulky[n]) \/ (Fetching /\ n = name)
  /\ stage \in {"derive", "deriving", "ready"} => \A n \in Names : bulky[n] # "absent"
  /\ stage \in {"derive", "deriving", "ready"} =>
       \A n \in Names \ todo :
         \/ Present(bulky[n]) /\ derived[n] # "absent"
         \/ stage = "deriving" /\ n = name
  /\ stage = "ready" => todo = {}

ScriptInv == TypeOK /\ WritesWhatIsMissing /\ NothingFromNowhere /\ LoopsDone

\* The invariant of datasets.sh: what is written was missing, what is there was
\* obtained, and the loops do all they have gone through.
THEOREM ScriptInvariant == ScriptSpec => []ScriptInv
<1> USE DEF Contents, Present, disk, loop, history, Ended, Fetching
<1>1. ScriptInit => ScriptInv
  BY DatasetsAssumption
  DEF ScriptInit, ScriptInv, TypeOK, WritesWhatIsMissing, NothingFromNowhere, LoopsDone
<1>2. ScriptInv /\ [ScriptNext]_scriptVars => ScriptInv'
  <2> SUFFICES ASSUME ScriptInv, [ScriptNext]_scriptVars PROVE ScriptInv'
    OBVIOUS
  <2> USE DatasetsAssumption DEF ScriptInv, TypeOK
  <2>1. CASE Download
    <3>1. TypeOK'
      BY <2>1 DEF Download
    <3>2. WritesWhatIsMissing'
      BY <2>1 DEF Download, WritesWhatIsMissing
    <3>3. NothingFromNowhere'
      BY <2>1 DEF Download, NothingFromNowhere
    <3>4. LoopsDone'
      BY <2>1 DEF Download, LoopsDone
    <3>5. QED
      BY <3>1, <3>2, <3>3, <3>4
  <2>2. CASE DownloadEnds
    <3>1. TypeOK'
      BY <2>2 DEF DownloadEnds, Die, Rest
    <3>2. WritesWhatIsMissing'
      BY <2>2 DEF DownloadEnds, Die, Rest, WritesWhatIsMissing
    <3>3. NothingFromNowhere'
      BY <2>2 DEF DownloadEnds, Die, NothingFromNowhere
    <3>4. LoopsDone'
      BY <2>2 DEF DownloadEnds, Die, LoopsDone
    <3>5. QED
      BY <3>1, <3>2, <3>3, <3>4
  <2>3. CASE AlreadyDownloaded
    <3>1. TypeOK'
      BY <2>3 DEF AlreadyDownloaded
    <3>2. WritesWhatIsMissing'
      BY <2>3 DEF AlreadyDownloaded, WritesWhatIsMissing
    <3>3. NothingFromNowhere'
      BY <2>3 DEF AlreadyDownloaded, NothingFromNowhere
    <3>4. LoopsDone'
      BY <2>3 DEF AlreadyDownloaded, LoopsDone
    <3>5. QED
      BY <3>1, <3>2, <3>3, <3>4
  <2>4. CASE CountBulky
    <3>1. TypeOK'
      BY <2>4 DEF CountBulky
    <3>2. WritesWhatIsMissing'
      BY <2>4 DEF CountBulky, WritesWhatIsMissing
    <3>3. NothingFromNowhere'
      BY <2>4 DEF CountBulky, NothingFromNowhere
    <3>4. LoopsDone'
      BY <2>4 DEF CountBulky, LoopsDone
    <3>5. QED
      BY <3>1, <3>2, <3>3, <3>4
  <2>5. ASSUME NEW n \in Names, FetchBulky(n) PROVE ScriptInv'
    <3>1. TypeOK'
      BY <2>5 DEF FetchBulky
    <3>2. WritesWhatIsMissing'
      BY <2>5 DEF FetchBulky, WritesWhatIsMissing, NothingFromNowhere
    <3>3. NothingFromNowhere'
      BY <2>5 DEF FetchBulky, NothingFromNowhere
    <3>4. LoopsDone'
      BY <2>5 DEF FetchBulky, LoopsDone
    <3>5. QED
      BY <3>1, <3>2, <3>3, <3>4
  <2>6. CASE Attempt
    <3>1. TypeOK'
      <4>1. attempt' \in 0 .. Attempts
        BY <2>6 DEF Attempt
      <4>2. name \in Names
        BY <2>6 DEF Attempt, WritesWhatIsMissing
      <4>3. QED
        BY <2>6, <4>1, <4>2 DEF Attempt, Rest
    <3>2. WritesWhatIsMissing'
      BY <2>6 DEF Attempt, Rest, WritesWhatIsMissing
    <3>3. NothingFromNowhere'
      BY <2>6 DEF Attempt, Rest, NothingFromNowhere, WritesWhatIsMissing
    <3>4. LoopsDone'
      BY <2>6 DEF Attempt, Rest, LoopsDone
    <3>5. QED
      BY <3>1, <3>2, <3>3, <3>4
  <2>7. CASE Remove
    <3>1. TypeOK'
      BY <2>7 DEF Remove
    <3>2. WritesWhatIsMissing'
      BY <2>7 DEF Remove, WritesWhatIsMissing
    <3>3. NothingFromNowhere'
      BY <2>7 DEF Remove, NothingFromNowhere, WritesWhatIsMissing
    <3>4. LoopsDone'
      BY <2>7 DEF Remove, LoopsDone
    <3>5. QED
      BY <3>1, <3>2, <3>3, <3>4
  <2>8. CASE GiveUp
    <3>1. TypeOK'
      BY <2>8 DEF GiveUp
    <3>2. WritesWhatIsMissing'
      BY <2>8 DEF GiveUp, WritesWhatIsMissing
    <3>3. NothingFromNowhere'
      BY <2>8 DEF GiveUp, NothingFromNowhere
    <3>4. LoopsDone'
      BY <2>8 DEF GiveUp, LoopsDone
    <3>5. QED
      BY <3>1, <3>2, <3>3, <3>4
  <2>9. CASE Fetched
    <3>1. TypeOK'
      BY <2>9 DEF Fetched, Die
    <3>2. WritesWhatIsMissing'
      BY <2>9 DEF Fetched, Die, WritesWhatIsMissing
    <3>3. NothingFromNowhere'
      BY <2>9 DEF Fetched, Die, NothingFromNowhere
    <3>4. LoopsDone'
      BY <2>9 DEF Fetched, Die, LoopsDone
    <3>5. QED
      BY <3>1, <3>2, <3>3, <3>4
  <2>10. ASSUME NEW n \in Names, Derive(n) PROVE ScriptInv'
    <3>1. TypeOK'
      BY <2>10 DEF Derive
    <3>2. WritesWhatIsMissing'
      BY <2>10 DEF Derive, WritesWhatIsMissing
    <3>3. NothingFromNowhere'
      BY <2>10 DEF Derive, NothingFromNowhere
    <3>4. LoopsDone'
      BY <2>10 DEF Derive, LoopsDone, NothingFromNowhere
    <3>5. QED
      BY <3>1, <3>2, <3>3, <3>4
  <2>11. CASE DeriveEnds
    <3>1. TypeOK'
      BY <2>11 DEF DeriveEnds, Die
    <3>2. WritesWhatIsMissing'
      BY <2>11 DEF DeriveEnds, Die, WritesWhatIsMissing
    <3>3. NothingFromNowhere'
      BY <2>11 DEF DeriveEnds, Die, NothingFromNowhere
    <3>4. LoopsDone'
      BY <2>11 DEF DeriveEnds, Die, LoopsDone
    <3>5. QED
      BY <3>1, <3>2, <3>3, <3>4
  <2>12. CASE Validate
    <3>1. TypeOK'
      BY <2>12 DEF Validate
    <3>2. WritesWhatIsMissing'
      BY <2>12 DEF Validate, WritesWhatIsMissing
    <3>3. NothingFromNowhere'
      BY <2>12 DEF Validate, NothingFromNowhere
    <3>4. LoopsDone'
      BY <2>12 DEF Validate, LoopsDone
    <3>5. QED
      BY <3>1, <3>2, <3>3, <3>4
  <2>13. CASE Kill
    <3>1. TypeOK'
      BY <2>13 DEF Kill, Rest, WritesWhatIsMissing
    <3>2. WritesWhatIsMissing'
      BY <2>13 DEF Kill, Rest, WritesWhatIsMissing
    <3>3. NothingFromNowhere'
      BY <2>13 DEF Kill, Rest, NothingFromNowhere, WritesWhatIsMissing
    <3>4. LoopsDone'
      BY <2>13 DEF Kill, Rest, LoopsDone
    <3>5. QED
      BY <3>1, <3>2, <3>3, <3>4
  <2>14. CASE RunAgain
    <3>1. TypeOK'
      BY <2>14 DEF RunAgain
    <3>2. WritesWhatIsMissing'
      BY <2>14 DEF RunAgain, WritesWhatIsMissing
    <3>3. NothingFromNowhere'
      BY <2>14 DEF RunAgain, NothingFromNowhere
    <3>4. LoopsDone'
      BY <2>14 DEF RunAgain, LoopsDone
    <3>5. QED
      BY <3>1, <3>2, <3>3, <3>4
  <2>15. CASE UNCHANGED scriptVars
    BY <2>15 DEF scriptVars, WritesWhatIsMissing, NothingFromNowhere, LoopsDone
  <2>16. QED
    BY <2>1, <2>2, <2>3, <2>4, <2>5, <2>6, <2>7, <2>8, <2>9, <2>10, <2>11, <2>12, <2>13, <2>14, <2>15 DEF ScriptNext
<1>3. QED
  BY <1>1, <1>2, PTL DEF ScriptSpec

\* A run that says "corpus ready" has passed over no dataset, and derived none from
\* what a failed download left, however often runs failed or were killed before.
THEOREM ReadyIsComplete == ScriptSpec => []ReadySkipsNone
<1>1. ScriptInv => ReadySkipsNone
  BY DEF ScriptInv, TypeOK, NothingFromNowhere, LoopsDone, ReadySkipsNone
<1>2. QED
  BY ScriptInvariant, <1>1, PTL

\* No step of any run undoes what another has obtained.
THEOREM NothingUndone == ScriptSpec => WholeStaysWhole
<1> DEFINE Kept == /\ openalex = "whole" => openalex' = "whole"
                   /\ \A n \in Names : /\ bulky[n] = "whole" => bulky'[n] = "whole"
                                       /\ derived[n] = "whole" => derived'[n] = "whole"
<1>1. ScriptInv /\ [ScriptNext]_scriptVars => [Kept]_scriptVars
  <2> SUFFICES ASSUME ScriptInv, ScriptNext PROVE Kept
    OBVIOUS
  <2> USE DEF ScriptInv, TypeOK, WritesWhatIsMissing, Present, disk, loop, history, Ended
  <2>1. CASE Download \/ DownloadEnds \/ AlreadyDownloaded \/ CountBulky
    BY <2>1 DEF Download, DownloadEnds, AlreadyDownloaded, CountBulky, Die, Rest
  <2>2. ASSUME NEW n \in Names, FetchBulky(n) \/ Derive(n) PROVE Kept
    BY <2>2 DEF FetchBulky, Derive
  <2>3. CASE Attempt \/ Remove
    BY <2>3 DEF Attempt, Remove, Rest, Fetching
  <2>4. CASE GiveUp \/ Fetched \/ Validate
    BY <2>4 DEF GiveUp, Fetched, Validate, Die
  <2>5. CASE DeriveEnds
    BY <2>5 DEF DeriveEnds, Die
  <2>6. CASE Kill \/ RunAgain
    BY <2>6 DEF Kill, RunAgain, Rest
  <2>7. CASE UNCHANGED scriptVars
    BY <2>7 DEF scriptVars
  <2>8. QED
    BY <2>1, <2>2, <2>3, <2>4, <2>5, <2>6, <2>7 DEF ScriptNext
<1>2. QED
  BY <1>1, ScriptInvariant, PTL DEF ScriptSpec, WholeStaysWhole
=============================================================================
