--------------------------- MODULE BenchmarkProofs ---------------------------
(***************************************************************************)
(* What a run of the benchmark prints and returns, for any libraries,      *)
(* options and results of the engines.                                     *)
(*                                                                         *)
(* Both properties look back: at the end of a run, or when a timing is     *)
(* printed, they speak of a comparison that is long over.  The invariant   *)
(* carries what each comparison found from where it was made to where it   *)
(* counts: over the loop on the libraries to the decision, over the        *)
(* timings to the exit, and over the loop of the format study.             *)
(***************************************************************************)
EXTENDS Benchmark, TLAPS

Phases == {"bulky", "load", "single", "format", "scaling", "e2e"}
Line == [phase : Phases, encoding : 0 .. 6]

Opening == {"load", "verify", "verify_dom", "decide"}
Timing == {"single", "format_input", "format", "scaling", "e2e", "end"}

\* Whether the agreement section is run.
Compares == wants("verify") \/ o.dump

\* The library at k agrees with simdjson, serially and in parallel.
LibraryAgrees(k) == Libraries[k] \in world.serial \intersect world.parallel

Typed ==
  /\ o \in Invocations /\ world \in Worlds
  /\ i \in Nat \ {0}
  /\ agree \in BOOLEAN
  /\ results \in Seq(Line)
  /\ status \in {Running, 0, 2}

Placed ==
  /\ stage \in Opening \union Timing \union {"bulky", "bulky_timed"}
  /\ o.single_record <=> stage \in {"bulky", "bulky_timed"}

\* No engine is timed before the decision.
NothingTimed ==
  /\ stage \in Opening => Timed \subseteq {"load"}
  /\ stage = "bulky" => Timed = {}
  /\ stage = "bulky_timed" => world.bulky /\ Timed \subseteq {"bulky"}
  /\ ~ o.single_record => "bulky" \notin Timed

\* What agree stands for, and what has been decided from it.
Compared ==
  /\ stage \in Opening /\ ~ Compares => agree
  /\ stage = "verify_dom" =>
       /\ Compares
       /\ o.no_dom => i = 1
       /\ i <= Len(Libraries) + 1
       /\ agree <=> world.query /\ world.decode /\ \A k \in 1 .. i - 1 : LibraryAgrees(k)
  /\ stage = "decide" /\ Compares => (agree <=> EnginesAgree)
  /\ stage \in Timing /\ wants("verify") => EnginesAgree

\* The encodings that were reported gave the result of the first.
Studied ==
  /\ stage \in {"single", "format_input"} => "format" \notin Timed
  /\ stage = "format" => /\ wants("format") /\ i <= 7
                         /\ \A k \in 2 .. i - 1 : k \in world.formats
  /\ stage \in {"scaling", "e2e", "end"} /\ "format" \in Timed => world.formats = 2 .. 6

\* A run only ends in success where main returns.
Success == status = 0 => stage \in {"bulky_timed", "decide", "end"}

IInv ==
  Typed /\ Placed /\ NothingTimed /\ Compared /\ Studied /\ Success /\ StatusTellsAgreement

-----------------------------------------------------------------------------
LEMMA SixEncodings == Len(Encodings) = 6
  BY DEF Encodings

\* A line that is printed adds its phase to those timed.
LEMMA Printed ==
  ASSUME results \in Seq(Line), NEW p \in Phases, NEW e \in 0 .. 6,
         results' = Append(results, Result(p, e))
  PROVE  results' \in Seq(Line) /\ Timed' = Timed \union {p}
<1> DEFINE line == Result(p, e)
<1>1. line \in Line /\ line.phase = p
  BY DEF Result, Line
<1>2. results' \in Seq(Line)
  BY <1>1
<1>3. /\ DOMAIN results' = 1 .. Len(results) + 1
      /\ DOMAIN results = 1 .. Len(results)
      /\ Len(results) \in Nat
      /\ results'[Len(results) + 1] = line
      /\ \A k \in 1 .. Len(results) : results'[k] = results[k]
  BY <1>1
<1>4. Range(results') = Range(results) \union {line}
  <2> HIDE DEF line
  <2>1. Range(results') \subseteq Range(results) \union {line}
    BY <1>3 DEF Range
  <2>2. ASSUME NEW r \in Range(results) PROVE r \in Range(results')
    <3>1. PICK k \in 1 .. Len(results) : r = results[k]
      BY <1>3, <2>2 DEF Range
    <3>2. k \in DOMAIN results' /\ r = results'[k]
      BY <1>3, <3>1
    <3>3. QED
      BY <3>2 DEF Range
  <2>3. line \in Range(results')
    BY <1>3 DEF Range
  <2>4. QED
    BY <2>1, <2>2, <2>3
<1>5. QED
  BY <1>1, <1>2, <1>4 DEF Timed

\* What a section prints when it is wanted, and when it is not.
LEMMA Section ==
  ASSUME results \in Seq(Line), NEW p \in Phases, NEW c \in BOOLEAN, NEW s,
         GoTo(s, IF c THEN <<Result(p, 0)>> ELSE <<>>)
  PROVE  /\ results' \in Seq(Line)
         /\ Timed' = IF c THEN Timed \union {p} ELSE Timed
<1>1. CASE c
  <2>1. results' = Append(results, Result(p, 0))
    BY <1>1, SMT DEF GoTo, Result
  <2>2. QED
    BY <1>1, <2>1, Printed
<1>2. CASE ~ c
  <2>1. results' = results
    BY <1>2 DEF GoTo
  <2>2. QED
    BY <1>2, <2>1 DEF Timed
<1>3. QED
  BY <1>1, <1>2

\* Leaving the run changes nothing but its status, which the comparisons justify.
LEMMA Exits ==
  ASSUME IInv, NEW code \in {0, 2}, Exit(code), status = Running,
         code = 0 => /\ stage \in {"bulky_timed", "decide", "end"}
                     /\ stage = "decide" => o.dump \/ agree,
         code = 2 => \/ ~ o.single_record /\ ~ EnginesAgree
                     \/ o.single_record /\ ~ world.bulky
                     \/ wants("format") /\ (~ world.records_long \/ 2 .. 6 # world.formats)
  PROVE  IInv'
<1> USE DEF IInv, Exit
<1>1. Typed' /\ Placed' /\ Success'
  BY DEF Typed, Placed, Success
<1>2. NothingTimed' /\ Studied'
  BY DEF NothingTimed, Studied, Timed, wants
<1>3. Compared'
  BY DEF Compared, Compares, LibraryAgrees, EnginesAgree, wants
<1>4. code = 0 /\ wants("verify") /\ ~ o.dump /\ ~ o.single_record => EnginesAgree
  BY DEF Placed, Compared, Compares, Timing
<1>5. code = 0 /\ "format" \in Timed => world.formats = 2 .. 6
  BY DEF Placed, Studied, NothingTimed, Opening
<1>6. StatusTellsAgreement'
  BY <1>4, <1>5, SixEncodings DEF StatusTellsAgreement, EnginesAgree, Timed, wants
<1>7. QED
  BY <1>1, <1>2, <1>3, <1>6

\* The invariant of a run: what its comparisons found, kept until it counts.
THEOREM Invariant == Spec => []IInv
<1>1. Init => IInv
  <2> SUFFICES ASSUME Init PROVE IInv
    OBVIOUS
  <2>1. Timed = {}
    BY DEF Init, Timed, Range
  <2>2. Typed /\ Placed /\ Success
    BY BenchmarkAssumption DEF Init, Typed, Placed, Success, Running, Opening, Timing, IsInvocation
  <2>3. NothingTimed /\ Compared /\ Studied
    BY <2>1 DEF Init, NothingTimed, Compared, Studied, Opening, Timing, Compares
  <2>4. StatusTellsAgreement
    BY DEF Init, StatusTellsAgreement, Running
  <2>5. QED
    BY <2>2, <2>3, <2>4 DEF IInv
<1>2. IInv /\ [Next]_vars => IInv'
  <2> SUFFICES ASSUME IInv, [Next]_vars PROVE IInv'
    OBVIOUS
  <2>1. CASE UNCHANGED vars
    <3>1. Typed' /\ Placed' /\ Success' /\ NothingTimed' /\ Studied'
      BY <2>1 DEF IInv, vars, Typed, Placed, Success, NothingTimed, Studied, Timed, wants
    <3>2. Compared' /\ StatusTellsAgreement'
      BY <2>1 DEF IInv, vars, Compared, Compares, LibraryAgrees, EnginesAgree, wants,
                  StatusTellsAgreement, Timed
    <3>3. QED
      BY <3>1, <3>2 DEF IInv
  <2>2. CASE Bulky
    <3>1. CASE ~ world.bulky /\ Exit(2)
      BY <2>2, <3>1, Exits DEF Bulky, At, IInv, Placed
    <3>2. CASE world.bulky /\ GoTo("bulky_timed", <<Result("bulky", 0)>>) /\ UNCHANGED agree
      <4>1. results' \in Seq(Line) /\ Timed' = {"bulky"}
        <5>1. results' = Append(results, Result("bulky", 0))
          BY <3>2, SMT DEF GoTo, Result
        <5>2. QED
          BY <2>2, <5>1, Printed DEF IInv, Typed, NothingTimed, Bulky, At, Phases
      <4>2. QED
        BY <2>2, <3>2, <4>1
        DEF IInv, Bulky, At, GoTo, Typed, Placed, NothingTimed, Compared, Studied, Success,
            StatusTellsAgreement, Opening, Timing, Running
    <3>3. QED
      BY <2>2, <3>1, <3>2 DEF Bulky
  <2>3. CASE BulkyEnd
    <3>1. Exit(0) /\ stage = "bulky_timed" /\ status = Running
      BY <2>3 DEF BulkyEnd, At
    <3>2. QED
      BY <3>1, Exits
  <2>4. CASE Load
    <3>1. results' \in Seq(Line) /\ Timed' \subseteq {"load"}
      <4>1. results' \in Seq(Line) /\ Timed' = IF wants("load") THEN Timed \union {"load"} ELSE Timed
        BY <2>4, Section DEF Load, IInv, Typed, Phases, wants
      <4>2. QED
        BY <2>4, <4>1 DEF IInv, NothingTimed, Load, At, Opening
    <3>2. QED
      BY <2>4, <3>1
      DEF IInv, Load, At, GoTo, Typed, Placed, NothingTimed, Compared, Studied, Success, Compares,
          StatusTellsAgreement, Opening, Timing, Running, wants, EnginesAgree
  <2>5. CASE Verify
    <3>1. results' = results /\ Timed' = Timed
      BY <2>5 DEF Verify, GoTo, IInv, Typed, Timed
    <3>2. Typed' /\ Placed' /\ Success' /\ NothingTimed' /\ Studied' /\ StatusTellsAgreement'
      BY <2>5, <3>1, BenchmarkAssumption
      DEF IInv, Verify, At, GoTo, Typed, Placed, NothingTimed, Studied, Success,
          StatusTellsAgreement, Opening, Timing, Running, wants, IsWorld
    <3>3. Compared'
      <4>1. CASE Compares
        <5>1. /\ stage' = "verify_dom" /\ i' = 1 /\ UNCHANGED <<o, world>>
              /\ agree' = (world.query /\ world.decode)
          BY <2>5, <4>1 DEF Verify, GoTo, Compares
        <5>2. agree' <=> world.query /\ world.decode
          BY <5>1
        <5>3. Len(Libraries) \in Nat /\ 1 .. i' - 1 = {}
          BY <5>1, BenchmarkAssumption
        <5>4. QED
          BY <4>1, <5>1, <5>2, <5>3 DEF Compared, Compares, Opening, Timing, wants
      <4>2. CASE ~ Compares
        BY <2>5, <4>2 DEF IInv, Verify, At, GoTo, Compared, Compares, Opening, Timing, wants
      <4>3. QED
        BY <4>1, <4>2
    <3>4. QED
      BY <3>2, <3>3 DEF IInv
  <2>6. CASE VerifyDom
    <3>1. Timed' = Timed /\ results' = results
      BY <2>6 DEF VerifyDom, GoTo, IInv, Typed, Timed
    <3>2. Typed' /\ Placed' /\ Success' /\ NothingTimed' /\ Studied' /\ StatusTellsAgreement'
      <4>1. /\ UNCHANGED <<o, world, status>> /\ agree' \in BOOLEAN /\ i' \in Nat \ {0}
            /\ stage = "verify_dom" /\ stage' \in {"verify_dom", "decide"} /\ status = Running
        <5>1. /\ UNCHANGED <<o, world, status>> /\ stage = "verify_dom" /\ status = Running
              /\ stage' \in {"verify_dom", "decide"}
          BY <2>6 DEF VerifyDom, At, GoTo
        <5>2. i' \in Nat \ {0}
          BY <2>6 DEF IInv, Typed, VerifyDom, GoTo
        <5>3. agree' \in BOOLEAN
          BY <2>6 DEF IInv, Typed, VerifyDom
        <5>4. QED
          BY <5>1, <5>2, <5>3
      <4>2. Typed'
        BY <3>1, <4>1 DEF IInv, Typed
      <4>3. Placed' /\ NothingTimed' /\ Studied'
        BY <3>1, <4>1 DEF IInv, Placed, NothingTimed, Studied, Opening, Timing
      <4>4. Success' /\ StatusTellsAgreement'
        <5>1. status' # 0 /\ status' # 2
          BY <4>1 DEF Running
        <5>2. QED
          BY <5>1 DEF Success, StatusTellsAgreement
      <4>5. QED
        BY <4>2, <4>3, <4>4
    <3>3. Compared'
      <4>1. CASE i <= Len(Libraries) /\ ~ o.no_dom
        <5>1. /\ agree' <=> agree /\ LibraryAgrees(i)
              /\ i' = i + 1 /\ UNCHANGED <<o, world, stage>>
          <6>1. \/ /\ agree' = (agree /\ Libraries[i] \in world.serial \intersect world.parallel)
                   /\ i' = i + 1 /\ UNCHANGED <<o, world, stage>>
                \/ i > Len(Libraries) \/ o.no_dom
            BY <2>6 DEF VerifyDom
          <6>2. Len(Libraries) \in Nat /\ i \in Nat
            BY BenchmarkAssumption DEF IInv, Typed
          <6>3. /\ agree' = (agree /\ Libraries[i] \in world.serial \intersect world.parallel)
                /\ i' = i + 1 /\ UNCHANGED <<o, world, stage>>
            BY <4>1, <6>1, <6>2
          <6>4. QED
            BY <6>3 DEF LibraryAgrees
        <5>2. Len(Libraries) \in Nat
          BY BenchmarkAssumption
        <5>3. (\A k \in 1 .. i : LibraryAgrees(k))
                <=> (\A k \in 1 .. i - 1 : LibraryAgrees(k)) /\ LibraryAgrees(i)
          BY DEF IInv, Typed
        <5>4. i' - 1 = i
          BY <5>1 DEF IInv, Typed
        <5>5. QED
          BY <2>6, <4>1, <5>1, <5>2, <5>3, <5>4
          DEF IInv, Typed, Compared, Compares, LibraryAgrees, VerifyDom, At, Opening, Timing, wants
      <4>2. CASE i > Len(Libraries) \/ o.no_dom
        <5>1. /\ stage' = "decide" /\ i' = 1
              /\ UNCHANGED <<o, world, agree>>
          BY <2>6, <4>2, BenchmarkAssumption DEF VerifyDom, GoTo, IInv, Typed
        <5>2. Range(Libraries) = {Libraries[k] : k \in 1 .. Len(Libraries)}
          BY BenchmarkAssumption DEF Range
        <5>3. agree <=> EnginesAgree
          <6>1. agree <=> world.query /\ world.decode /\ \A k \in 1 .. i - 1 : LibraryAgrees(k)
            BY <2>6 DEF IInv, Compared, VerifyDom, At
          <6>2. CASE o.no_dom
            <7>1. i = 1
              BY <2>6, <6>2 DEF IInv, Compared, VerifyDom, At
            <7>2. QED
              BY <6>1, <6>2, <7>1 DEF EnginesAgree
          <6>3. CASE ~ o.no_dom
            <7>1. i - 1 = Len(Libraries)
              BY <2>6, <4>2, <6>3, BenchmarkAssumption DEF IInv, Typed, Compared, VerifyDom, At
            <7>2. QED
              BY <5>2, <6>1, <6>3, <7>1 DEF EnginesAgree, LibraryAgrees
          <6>4. QED
            BY <6>2, <6>3
        <5>4. EnginesAgree' <=> EnginesAgree
          BY <5>1 DEF EnginesAgree
        <5>5. Compares
          BY <2>6 DEF IInv, Compared, VerifyDom, At
        <5>6. QED
          BY <5>1, <5>3, <5>4, <5>5 DEF Compared, Compares, Timing, wants
      <4>3. QED
        BY <4>1, <4>2, <2>6 DEF VerifyDom
    <3>4. QED
      BY <3>2, <3>3 DEF IInv
  <2>7. CASE Decide
    <3>1. CASE o.dump /\ Exit(0)
      BY <2>7, <3>1, Exits DEF Decide, At
    <3>2. CASE ~ o.dump /\ o.verify_only /\ Exit(IF agree THEN 0 ELSE 2)
      <4>1. stage = "decide" /\ status = Running
        BY <2>7 DEF Decide, At
      <4>2. ~ agree => ~ o.single_record /\ ~ EnginesAgree
        BY <4>1 DEF IInv, Placed, Compared, Opening
      <4>3. CASE agree
        BY <3>2, <4>1, <4>3, Exits
      <4>4. CASE ~ agree
        BY <3>2, <4>1, <4>2, <4>4, Exits
      <4>5. QED
        BY <4>3, <4>4
    <3>3. CASE wants("verify") /\ ~ agree /\ Exit(2)
      <4>1. stage = "decide" /\ status = Running
        BY <2>7 DEF Decide, At
      <4>2. ~ o.single_record /\ ~ EnginesAgree
        BY <3>3, <4>1 DEF IInv, Placed, Compared, Compares
      <4>3. QED
        BY <3>3, <4>1, <4>2, Exits
    <3>4. CASE (wants("verify") => agree) /\ GoTo("single", <<>>) /\ UNCHANGED agree
      <4>1. results' = results /\ Timed' = Timed
        BY <3>4 DEF GoTo, IInv, Typed, Timed
      <4>2. Typed' /\ Placed' /\ Success' /\ NothingTimed' /\ Studied' /\ StatusTellsAgreement'
        BY <2>7, <3>4, <4>1
        DEF IInv, Decide, At, GoTo, Typed, Placed, NothingTimed, Studied, Success,
            StatusTellsAgreement, Opening, Timing, Running
      <4>3. wants("verify") => EnginesAgree
        BY <2>7, <3>4 DEF IInv, Compared, Compares, Decide, At
      <4>4. Compared'
        BY <3>4, <4>3 DEF GoTo, Compared, Opening, Timing, wants, EnginesAgree
      <4>5. QED
        BY <4>2, <4>4 DEF IInv
    <3>5. QED
      BY <2>7, <3>1, <3>2, <3>3, <3>4 DEF Decide
  <2>8. CASE Single
    <3>1. results' \in Seq(Line) /\ Timed' = IF wants("single") THEN Timed \union {"single"} ELSE Timed
      BY <2>8, Section DEF Single, IInv, Typed, Phases, wants
    <3>2. Typed' /\ Placed' /\ Success' /\ NothingTimed' /\ Studied' /\ StatusTellsAgreement'
      BY <2>8, <3>1
      DEF IInv, Single, At, GoTo, Typed, Placed, NothingTimed, Studied, Success,
          StatusTellsAgreement, Opening, Timing, Running, wants
    <3>3. Compared'
      BY <2>8 DEF IInv, Single, At, GoTo, Compared, Opening, Timing, wants, EnginesAgree
    <3>4. QED
      BY <3>2, <3>3 DEF IInv
  <2>9. CASE FormatInput
    <3>1. CASE wants("format") /\ ~ world.records_long /\ Exit(2)
      BY <2>9, <3>1, Exits DEF FormatInput, At
    <3>2. CASE \E t \in {"format", "scaling"} :
                 /\ t = "format" => wants("format")
                 /\ GoTo(t, <<>>) /\ UNCHANGED agree
      <4>1. results' = results /\ Timed' = Timed
        BY <3>2 DEF GoTo, IInv, Typed, Timed
      <4>2. Typed' /\ Placed' /\ Success' /\ NothingTimed' /\ Studied' /\ StatusTellsAgreement'
        BY <2>9, <3>2, <4>1
        DEF IInv, FormatInput, At, GoTo, Typed, Placed, NothingTimed, Studied, Success,
            StatusTellsAgreement, Opening, Timing, Running, wants
      <4>3. Compared'
        BY <2>9, <3>2 DEF IInv, FormatInput, At, GoTo, Compared, Opening, Timing, wants, EnginesAgree
      <4>4. QED
        BY <4>2, <4>3 DEF IInv
    <3>3. QED
      BY <2>9, <3>1, <3>2 DEF FormatInput
  <2>10. CASE Format
    <3>1. CASE i <= Len(Encodings) /\ i # 1 /\ i \notin world.formats /\ Exit(2)
      <4>1. i \in 2 .. 6
        BY <3>1, SixEncodings DEF IInv, Typed
      <4>2. 2 .. 6 # world.formats
        BY <3>1, <4>1
      <4>3. wants("format")
        BY <2>10 DEF Format, At, IInv, Studied
      <4>4. QED
        BY <2>10, <3>1, <4>2, <4>3, Exits DEF Format, At
    <3>2. CASE /\ i <= Len(Encodings) /\ (i = 1 \/ i \in world.formats)
               /\ results' = Append(results, Result("format", i)) /\ i' = i + 1
               /\ UNCHANGED <<o, world, stage, agree, status>>
      <4>1. i \in 1 .. 6
        BY <3>2, SixEncodings DEF IInv, Typed
      <4>2. results' \in Seq(Line) /\ Timed' = Timed \union {"format"}
        BY <3>2, <4>1, Printed DEF IInv, Typed, Phases
      <4>3. Typed' /\ Placed' /\ Success' /\ NothingTimed' /\ Studied' /\ StatusTellsAgreement'
        BY <2>10, <3>2, <4>1, <4>2
        DEF IInv, Format, At, Typed, Placed, NothingTimed, Studied, Success,
            StatusTellsAgreement, Opening, Timing, Running, wants
      <4>4. Compared'
        BY <2>10, <3>2 DEF IInv, Format, At, Compared, Opening, Timing, wants, EnginesAgree
      <4>5. QED
        BY <4>3, <4>4 DEF IInv
    <3>3. CASE i > Len(Encodings) /\ GoTo("scaling", <<>>) /\ UNCHANGED agree
      <4>1. results' = results /\ Timed' = Timed
        BY <3>3 DEF GoTo, IInv, Typed, Timed
      <4>2. world.formats = 2 .. 6
        <5>1. i = 7 /\ \A k \in 2 .. i - 1 : k \in world.formats
          BY <2>10, <3>3, SixEncodings DEF IInv, Typed, Studied, Format, At
        <5>2. world.formats \subseteq 2 .. 6
          BY BenchmarkAssumption, SixEncodings DEF IInv, Typed, IsWorld
        <5>3. QED
          BY <5>1, <5>2
      <4>3. Typed' /\ Placed' /\ Success' /\ NothingTimed' /\ Studied' /\ StatusTellsAgreement'
        BY <2>10, <3>3, <4>1, <4>2
        DEF IInv, Format, At, GoTo, Typed, Placed, NothingTimed, Studied, Success,
            StatusTellsAgreement, Opening, Timing, Running, wants
      <4>4. Compared'
        BY <2>10, <3>3 DEF IInv, Format, At, GoTo, Compared, Opening, Timing, wants, EnginesAgree
      <4>5. QED
        BY <4>3, <4>4 DEF IInv
    <3>4. QED
      BY <2>10, <3>1, <3>2, <3>3 DEF Format
  <2>11. CASE Scaling
    <3>1. results' \in Seq(Line) /\ Timed' = IF wants("scaling") THEN Timed \union {"scaling"} ELSE Timed
      BY <2>11, Section DEF Scaling, IInv, Typed, Phases, wants
    <3>2. Typed' /\ Placed' /\ Success' /\ NothingTimed' /\ Studied' /\ StatusTellsAgreement'
      BY <2>11, <3>1
      DEF IInv, Scaling, At, GoTo, Typed, Placed, NothingTimed, Studied, Success,
          StatusTellsAgreement, Opening, Timing, Running, wants
    <3>3. Compared'
      BY <2>11 DEF IInv, Scaling, At, GoTo, Compared, Opening, Timing, wants, EnginesAgree
    <3>4. QED
      BY <3>2, <3>3 DEF IInv
  <2>12. CASE EndToEnd
    <3>1. results' \in Seq(Line) /\ Timed' = IF wants("e2e") THEN Timed \union {"e2e"} ELSE Timed
      BY <2>12, Section DEF EndToEnd, IInv, Typed, Phases, wants
    <3>2. Typed' /\ Placed' /\ Success' /\ NothingTimed' /\ Studied' /\ StatusTellsAgreement'
      BY <2>12, <3>1
      DEF IInv, EndToEnd, At, GoTo, Typed, Placed, NothingTimed, Studied, Success,
          StatusTellsAgreement, Opening, Timing, Running, wants
    <3>3. Compared'
      BY <2>12 DEF IInv, EndToEnd, At, GoTo, Compared, Opening, Timing, wants, EnginesAgree
    <3>4. QED
      BY <3>2, <3>3 DEF IInv
  <2>13. CASE End
    <3>1. Exit(0) /\ stage = "end" /\ status = Running
      BY <2>13 DEF End, At
    <3>2. QED
      BY <3>1, Exits
  <2>14. QED
    BY <2>1, <2>2, <2>3, <2>4, <2>5, <2>6, <2>7, <2>8, <2>9, <2>10, <2>11, <2>12, <2>13
    DEF Next, Step, Terminated
<1>3. QED
  BY <1>1, <1>2, PTL DEF Spec

\* Nothing that was to be verified is timed before its answers were found to agree.
THEOREM NothingTimedUnverified == Spec => []AgreeBeforeTiming
<1>1. IInv => AgreeBeforeTiming
  BY DEF IInv, Typed, Placed, NothingTimed, Compared, AgreeBeforeTiming, Opening, Timing
<1>2. QED
  BY Invariant, <1>1, PTL

\* The exit status of a run that verified tells whether the engines agree.
THEOREM StatusIsTrue == Spec => []StatusTellsAgreement
<1>1. IInv => StatusTellsAgreement
  BY DEF IInv
<1>2. QED
  BY Invariant, <1>1, PTL
=============================================================================
