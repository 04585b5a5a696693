---------------------------- MODULE PisonQueries ----------------------------
(***************************************************************************)
(* The queries of src/pison_engine.cpp, which walk a cursor over the       *)
(* bitmaps of one record: down() enters the value the cursor is at, up()   *)
(* leaves it, and each query has to keep the two in balance on every path  *)
(* through its loops.  The bitmaps of a level exist only if the record was *)
(* indexed with enough levels (query_levels); a cursor that goes deeper    *)
(* crashes.  run_single_record runs the query on each element of an array, *)
(* with one more level.                                                    *)
(*                                                                         *)
(* Each function is a sequence of instructions, one for each call on the   *)
(* cursor, with where it goes on; a step of the state machine is one call. *)
(* The cursor is external, as its calls are used: they look for a key, an  *)
(* index or the next element behind the cursor in the container it is in,  *)
(* and up() returns to where down() was called.                            *)
(***************************************************************************)
EXTENDS Queries, Extraction

CONSTANTS
  Records,   \* the records: [doc, space, q, w, single]; a bulky record if single
  BadKey     \* a key that cannot be unescaped

ASSUME RecordsAssumption == \A r \in Records : r.q \in QueryIds /\ r.single \in BOOLEAN

Dom == INSTANCE DomQueries
OnDemand == INSTANCE OnDemandQueries

\* The calls: where to go on if one returns true, and if false.
Key(key, yes, no) == [op |-> "key", arg |-> key, yes |-> yes, no |-> no]
Keys(key, yes, other, yes2, no) ==
  [op |-> "keys", arg |-> key, yes |-> yes, arg2 |-> other, yes2 |-> yes2, no |-> no]
Index(index, yes, no) == [op |-> "index", arg |-> index, yes |-> yes, no |-> no]
Element(yes, no) == [op |-> "next", yes |-> yes, no |-> no]
Down(yes, no) == [op |-> "down", yes |-> yes, no |-> no]
Up(then) == [op |-> "up", yes |-> then]
Take(then) == [op |-> "take", yes |-> then]

\* A query returns at label 0.
q_twitter ==
  <<Keys("lang", 2, "user", 3, 0), Take(1),
    Down(4, 1), Key("lang", 5, 6), Take(6), Up(1)>>

\* Bug: `while (iter->down())` for the `if` of the first element.
BestbuyDownAgain ==
  <<Key("categoryPath", 2, 0), Down(3, 0),
    Index(1, 4, 8), Down(5, 8), Key("id", 6, 7), Take(7), Up(4),
    Index(2, 9, 13), Down(10, 13), Key("id", 11, 12), Take(12), Up(13),
    Up(0)>>

q_bestbuy ==
  <<Key("categoryPath", 2, 0), Down(3, 0),
    Index(1, 4, 8), Down(5, 8), Key("id", 6, 7), Take(7), Up(8),
    Index(2, 9, 13), Down(10, 13), Key("id", 11, 12), Take(12), Up(13),
    Up(0)>>

\* Bug: no up() when the legs cannot be entered.
GoogleForgetsUp ==
  <<Key("routes", 2, 0), Down(3, 0),
    Element(4, 19), Down(5, 3), Key("legs", 6, 18), Down(7, 3),
    Element(8, 17), Down(9, 7), Key("steps", 10, 16), Down(11, 16),
    Element(12, 15), Down(13, 11), Key("distance", 20, 14),
    Up(11), Up(16), Up(7), Up(18), Up(3), Up(0),
    Down(21, 14), Key("text", 22, 23), Take(23), Up(14)>>

q_google ==
  <<Key("routes", 2, 0), Down(3, 0),
    Element(4, 19), Down(5, 3), Key("legs", 6, 18), Down(7, 18),
    Element(8, 17), Down(9, 7), Key("steps", 10, 16), Down(11, 16),
    Element(12, 15), Down(13, 11), Key("distance", 20, 14),
    Up(11), Up(16), Up(7), Up(18), Up(3), Up(0),
    Down(21, 14), Key("text", 22, 23), Take(23), Up(14)>>

q_nspl == <<Index(8, 2, 3), Take(3), Index(9, 4, 0), Take(0)>>

q_walmart ==
  <<Keys("name", 2, "bestMarketplacePrice", 3, 0), Take(1),
    Down(4, 1), Key("price", 5, 6), Take(6), Up(1)>>

q_wiki ==
  <<Key("claims", 2, 0), Down(3, 0), Key("P150", 4, 14), Down(5, 14),
    Element(6, 13), Down(7, 5), Key("mainsnak", 8, 12),
    Down(9, 12), Key("property", 10, 11), Take(11), Up(12),
    Up(5), Up(14), Up(0)>>

q_openalex == <<Keys("display_name", 2, "works_count", 2, 0), Take(1)>>

Code(q) ==
  CASE q = "twitter"    -> q_twitter
    [] q = "bestbuy"    -> q_bestbuy
    [] q = "google_map" -> q_google
    [] q = "nspl"       -> q_nspl
    [] q = "walmart"    -> q_walmart
    [] q = "wiki"       -> q_wiki
    [] q = "openalex"   -> q_openalex

-----------------------------------------------------------------------------
VARIABLES
  input,  \* the record, its layout, the query, the workload, and whether it is bulky
  pc,     \* the next instruction of the query, or where its caller is
  stack,  \* of each level the cursor has entered: its position there, 0 before the first
  out     \* the texts getValue() has handed out so far; Fed is what became of them

vars == <<input, pc, stack, out>>

\* Where the caller is: do_record behind its query, or run_single_record.
Returned == 0
NextItem == -1
EnterItem == -2
Done == -3

\* main refuses a bulky record without its array.
Init ==
  /\ input \in Records
  /\ input.single => BulkyPlaces(input.doc, input.q) # {}
  /\ pc = IF input.single THEN NextItem ELSE 1
  /\ stack = <<0>>
  /\ out = <<>>

\* prepare_bulky: the engines get the array alone, and blanks for carriage returns.
Text ==
  IF input.single THEN At(input.doc, CHOOSE p \in BulkyPlaces(input.doc, input.q) : TRUE)
  ELSE input.doc

\* Bug: the carriage returns stay.
LayoutAsWritten == input.space

Layout ==
  [i \in DOMAIN input.space |->
     IF input.single /\ input.space[i] = Return THEN 32 ELSE input.space[i]]

Container == At(Text, Front(stack))
Position == Last(stack)
Value == At(Text, stack)

\* The cursor moves to the first position behind it that has a label, and goes on there.
MoveTo(labels, no) ==
  LET behind == {i \in DOMAIN labels : i > Position}
  IN /\ \/ \E i \in behind :
             /\ \A j \in behind : i <= j
             /\ stack' = [stack EXCEPT ![Len(stack)] = i]
             /\ pc' = labels[i]
        \/ behind = {} /\ pc' = no /\ UNCHANGED stack
     /\ UNCHANGED <<input, out>>

\* The elements the cursor finds: none in an object, none behind carriage returns.
Elements ==
  IF Container.kind = "array" /\ Return \notin ToSet(Layout) THEN DOMAIN Container.kids ELSE {}

\* down() enters a container; it may take an empty one for none.
Enter(yes, no) ==
  /\ \/ Value.kind # "scalar" /\ stack' = Append(stack, 0) /\ pc' = yes
     \/ Value.kids = <<>> /\ UNCHANGED stack /\ pc' = no
  /\ UNCHANGED <<input, out>>

Leave(then) ==
  /\ stack' = Front(stack)
  /\ pc' = then
  /\ UNCHANGED <<input, out>>

Running == pc > 0
Call == Code(input.q)[pc]

MoveToKey ==
  /\ Running /\ Call.op = "key"
  /\ MoveTo([i \in KeyPositions(Container, Call.arg) |-> Call.yes], Call.no)

\* The loop over the fields with one of two keys, which it tells apart.
MoveToKeys ==
  /\ Running /\ Call.op = "keys"
  /\ LET first == KeyPositions(Container, Call.arg)
     IN MoveTo([i \in first \union KeyPositions(Container, Call.arg2) |->
                  IF i \in first THEN Call.yes ELSE Call.yes2], Call.no)

MoveToIndex ==
  /\ Running /\ Call.op = "index"
  /\ MoveTo([i \in Elements \intersect {Call.arg + 1} |-> Call.yes], Call.no)

MoveNext ==
  /\ Running /\ Call.op = "next"
  /\ MoveTo([i \in Elements |-> Call.yes], Call.no)

GoDown == Running /\ Call.op = "down" /\ Enter(Call.yes, Call.no)

GoUp == Running /\ Call.op = "up" /\ Leave(Call.yes)

\* getValue() of the value the cursor is at.
TakeValue ==
  /\ Running /\ Call.op = "take"
  /\ out' = Append(out, RawText(Value.token, Layout, Position = Len(Container.kids)))
  /\ pc' = Call.yes
  /\ UNCHANGED <<input, stack>>

\* take(): what the sink is fed for each of them.
Fed == [i \in DOMAIN out |-> PisonTake(out[i], input.w)]

\* do_record ends with its query; run_single_record goes on to the next element.
QueryReturns ==
  /\ pc = Returned
  /\ \/ input.single /\ Leave(NextItem)
     \/ ~ input.single /\ pc' = Done /\ UNCHANGED <<input, stack, out>>

Item == pc = NextItem /\ MoveTo([i \in Elements |-> EnterItem], Done)

ItemDown == pc = EnterItem /\ Enter(1, NextItem)

Step ==
  \/ MoveToKey \/ MoveToKeys \/ MoveToIndex \/ MoveNext \/ GoDown \/ GoUp \/ TakeValue
  \/ QueryReturns \/ Item \/ ItemDown

Next == Step \/ (pc = Done /\ UNCHANGED vars)

Spec == Init /\ [][Next]_vars

\* A query is a sequential function that waits for nothing.
FairSpec == Spec /\ WF_vars(Step)

-----------------------------------------------------------------------------
\* Every query leaves the cursor at the level it found it at, whatever the record:
\* up() is called once for each down() that succeeded, on every path through the
\* nested loops and their `continue`s (pison_engine.cpp:131-275).  Otherwise the next
\* element of a bulky record would be looked for in the wrong container.
Balanced ==
  /\ pc = Returned => Len(stack) = IF input.single THEN 2 ELSE 1
  /\ pc \in {NextItem, EnterItem, Done} => Len(stack) = 1

\* No query goes deeper than the levels Pison is told to build for it; "query
\* evaluation ... crashes when one is missing" (queries.cpp:36-41).
LevelsSuffice == Len(stack) <= LevelsOf(input.q, input.single)

\* The values at some places of a document, as often as they are there, are those fed.
Feeds(values, doc, places, Value_(_)) ==
  \A v \in ToSet(values) \union {Value_(At(doc, p).token) : p \in places} :
    Cardinality({i \in DOMAIN values : values[i] = v})
      = Cardinality({p \in places : Value_(At(doc, p).token) = v})

\* The records of the corpora: keys are read as they are written, and unique.
Regular(doc, places) ==
  \A p \in places : LET keys == At(doc, p).keys
                    IN IsInjective(keys) /\ BadKey \notin ToSet(keys)

\* On a record with readable, unique keys the three ways to ask a query, by moving a
\* cursor, by iterating the fields, and by looking up a tree, feed the same values
\* (README.md:58: "Both engines answer the same query and must produce the same
\* answer").  The tree is only compared in decode mode, the one it has.
EnginesAgree ==
  pc = Done /\ ~ input.single /\ Regular(input.doc, {<<>>}) =>
    LET Taken(token) == OnDemandTake(token, input.w)
    IN /\ Feeds(Fed, input.doc, OnDemand!SerialRecord(input.q, input.doc), Taken)
       /\ input.w = "decode" =>
            Feeds(Fed, input.doc, Dom!run_query(input.q, input.doc), DomFeed)

\* "Pison and simdjson must agree on the query" (main.cpp:339) of one bulky record, and
\* so must run_bulky_document, which takes the record as it is: they do if every element
\* of the array is a record of the query's kind; simdjson stops at one that is not.
BulkyAgree ==
  pc = Done /\ input.single
  /\ Regular(Text, Each(Text, {<<>>}))
  /\ (\A p \in Each(Text, {<<>>}) : ~ OnDemand!dispatch(input.q, Text, p).error) =>
    LET Taken(token) == OnDemandTake(token, input.w)
    IN /\ Feeds(Fed, Text, OnDemand!run_single_document(input.q, Text), Taken)
       /\ Feeds(Fed, input.doc, OnDemand!run_bulky_document(input.q, input.doc), Taken)

\* Every query returns, on every record.
Returns == <>(pc = Done)
=============================================================================
