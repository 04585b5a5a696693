------------------------- MODULE PisonQueriesProofs -------------------------
(***************************************************************************)
(* The queries of Pison keep down() and up() in balance, and stay within   *)
(* the levels built for them, on every record.  Each instruction of a      *)
(* query is given the depth it runs at; the nesting of down() and up() is  *)
(* right if no instruction leads to one of another depth than it leaves.   *)
(***************************************************************************)
EXTENDS PisonQueries, SequenceTheorems, TLAPS

\* The depth below the record at which each instruction of a query runs.
Depths(q) ==
  CASE q = "twitter"    -> <<0, 0, 0, 1, 1, 1>>
    [] q = "bestbuy"    -> <<0, 0, 1, 1, 2, 2, 2, 1, 1, 2, 2, 2, 1>>
    [] q = "google_map" -> <<0, 0, 1, 1, 2, 2, 3, 3, 4, 4, 5, 5, 6, 6, 5, 4, 3, 2, 1, 6, 7, 7, 7>>
    [] q = "nspl"       -> <<0, 0, 0, 0>>
    [] q = "walmart"    -> <<0, 0, 0, 1, 1, 1>>
    [] q = "wiki"       -> <<0, 0, 1, 1, 2, 2, 3, 3, 4, 4, 4, 3, 2, 1>>
    [] q = "openalex"   -> <<0, 0>>

DepthAt(q, i) == IF i = 0 THEN 0 ELSE Depths(q)[i]

\* An instruction goes on at label i, at a depth.
GoesTo(q, i, depth) == i \in 0 .. Len(Code(q)) /\ DepthAt(q, i) = depth

\* Where an instruction leads.
Nested(q, i) ==
  LET c == Code(q)[i] d == DepthAt(q, i)
  IN /\ d \in 0 .. query_levels(q) - 1
     /\ c.op \in {"key", "index", "next"} => GoesTo(q, c.yes, d) /\ GoesTo(q, c.no, d)
     /\ c.op = "keys" => GoesTo(q, c.yes, d) /\ GoesTo(q, c.yes2, d) /\ GoesTo(q, c.no, d)
     /\ c.op = "down" => GoesTo(q, c.yes, d + 1) /\ GoesTo(q, c.no, d)
     /\ c.op = "up"   => d > 0 /\ GoesTo(q, c.yes, d - 1)
     /\ c.op = "take" => GoesTo(q, c.yes, d)

\* What the calls are.
LEMMA Calls ==
  /\ \A k, y, n : LET c == Key(k, y, n) IN c.op = "key" /\ c.yes = y /\ c.no = n
  /\ \A k, y, k2, y2, n : LET c == Keys(k, y, k2, y2, n)
                         IN c.op = "keys" /\ c.yes = y /\ c.yes2 = y2 /\ c.no = n
  /\ \A k, y, n : LET c == Index(k, y, n) IN c.op = "index" /\ c.yes = y /\ c.no = n
  /\ \A y, n : LET c == Element(y, n) IN c.op = "next" /\ c.yes = y /\ c.no = n
  /\ \A y, n : LET c == Down(y, n) IN c.op = "down" /\ c.yes = y /\ c.no = n
  /\ \A y : Up(y).op = "up" /\ Up(y).yes = y
  /\ \A y : Take(y).op = "take" /\ Take(y).yes = y
BY DEF Key, Keys, Index, Element, Down, Up, Take

LEMMA Nested_twitter == \A i \in 1 .. Len(Code("twitter")) : Nested("twitter", i)
<1>1. /\ Code("twitter") = q_twitter /\ Len(q_twitter) = 6 /\ query_levels("twitter") = 2
      /\ Depths("twitter") = <<0, 0, 0, 1, 1, 1>>
  BY DEF Code, q_twitter, query_levels, Depths
<1>2. \A i, d : GoesTo("twitter", i, d) <=> i \in 0 .. 6 /\ DepthAt("twitter", i) = d
  BY <1>1 DEF GoesTo
<1>3. /\ DepthAt("twitter", 0) = 0
      /\ \A i \in 1 .. 6 : DepthAt("twitter", i) = Depths("twitter")[i]
  BY DEF DepthAt
<1>4. \A i \in 1 .. 6 : Nested("twitter", i)
  BY <1>1, <1>2, <1>3, Calls DEF Nested, q_twitter
<1>5. QED
  BY <1>1, <1>4

LEMMA Nested_bestbuy == \A i \in 1 .. Len(Code("bestbuy")) : Nested("bestbuy", i)
<1>1. /\ Code("bestbuy") = q_bestbuy /\ Len(q_bestbuy) = 13 /\ query_levels("bestbuy") = 3
      /\ Depths("bestbuy") = <<0, 0, 1, 1, 2, 2, 2, 1, 1, 2, 2, 2, 1>>
  BY DEF Code, q_bestbuy, query_levels, Depths
<1>2. \A i, d : GoesTo("bestbuy", i, d) <=> i \in 0 .. 13 /\ DepthAt("bestbuy", i) = d
  BY <1>1 DEF GoesTo
<1>3. /\ DepthAt("bestbuy", 0) = 0
      /\ \A i \in 1 .. 13 : DepthAt("bestbuy", i) = Depths("bestbuy")[i]
  BY DEF DepthAt
<1>4. \A i \in 1 .. 13 : Nested("bestbuy", i)
  BY <1>1, <1>2, <1>3, Calls DEF Nested, q_bestbuy
<1>5. QED
  BY <1>1, <1>4

LEMMA Nested_google_map == \A i \in 1 .. Len(Code("google_map")) : Nested("google_map", i)
<1>1. /\ Code("google_map") = q_google /\ Len(q_google) = 23 /\ query_levels("google_map") = 8
      /\ Depths("google_map") = <<0, 0, 1, 1, 2, 2, 3, 3, 4, 4, 5, 5, 6, 6, 5, 4, 3, 2, 1, 6, 7, 7, 7>>
  BY DEF Code, q_google, query_levels, Depths
<1>2. \A i, d : GoesTo("google_map", i, d) <=> i \in 0 .. 23 /\ DepthAt("google_map", i) = d
  BY <1>1 DEF GoesTo
<1>3. /\ DepthAt("google_map", 0) = 0
      /\ \A i \in 1 .. 23 : DepthAt("google_map", i) = Depths("google_map")[i]
  BY DEF DepthAt
<1>4. \A i \in 1 .. 23 : Nested("google_map", i)
  BY <1>1, <1>2, <1>3, Calls DEF Nested, q_google
<1>5. QED
  BY <1>1, <1>4

LEMMA Nested_nspl == \A i \in 1 .. Len(Code("nspl")) : Nested("nspl", i)
<1>1. /\ Code("nspl") = q_nspl /\ Len(q_nspl) = 4 /\ query_levels("nspl") = 1
      /\ Depths("nspl") = <<0, 0, 0, 0>>
  BY DEF Code, q_nspl, query_levels, Depths
<1>2. \A i, d : GoesTo("nspl", i, d) <=> i \in 0 .. 4 /\ DepthAt("nspl", i) = d
  BY <1>1 DEF GoesTo
<1>3. /\ DepthAt("nspl", 0) = 0
      /\ \A i \in 1 .. 4 : DepthAt("nspl", i) = Depths("nspl")[i]
  BY DEF DepthAt
<1>4. \A i \in 1 .. 4 : Nested("nspl", i)
  BY <1>1, <1>2, <1>3, Calls DEF Nested, q_nspl
<1>5. QED
  BY <1>1, <1>4

LEMMA Nested_walmart == \A i \in 1 .. Len(Code("walmart")) : Nested("walmart", i)
<1>1. /\ Code("walmart") = q_walmart /\ Len(q_walmart) = 6 /\ query_levels("walmart") = 2
      /\ Depths("walmart") = <<0, 0, 0, 1, 1, 1>>
  BY DEF Code, q_walmart, query_levels, Depths
<1>2. \A i, d : GoesTo("walmart", i, d) <=> i \in 0 .. 6 /\ DepthAt("walmart", i) = d
  BY <1>1 DEF GoesTo
<1>3. /\ DepthAt("walmart", 0) = 0
      /\ \A i \in 1 .. 6 : DepthAt("walmart", i) = Depths("walmart")[i]
  BY DEF DepthAt
<1>4. \A i \in 1 .. 6 : Nested("walmart", i)
  BY <1>1, <1>2, <1>3, Calls DEF Nested, q_walmart
<1>5. QED
  BY <1>1, <1>4

LEMMA Nested_wiki == \A i \in 1 .. Len(Code("wiki")) : Nested("wiki", i)
<1>1. /\ Code("wiki") = q_wiki /\ Len(q_wiki) = 14 /\ query_levels("wiki") = 5
      /\ Depths("wiki") = <<0, 0, 1, 1, 2, 2, 3, 3, 4, 4, 4, 3, 2, 1>>
  BY DEF Code, q_wiki, query_levels, Depths
<1>2. \A i, d : GoesTo("wiki", i, d) <=> i \in 0 .. 14 /\ DepthAt("wiki", i) = d
  BY <1>1 DEF GoesTo
<1>3. /\ DepthAt("wiki", 0) = 0
      /\ \A i \in 1 .. 14 : DepthAt("wiki", i) = Depths("wiki")[i]
  BY DEF DepthAt
<1>4. \A i \in 1 .. 14 : Nested("wiki", i)
  BY <1>1, <1>2, <1>3, Calls DEF Nested, q_wiki
<1>5. QED
  BY <1>1, <1>4

LEMMA Nested_openalex == \A i \in 1 .. Len(Code("openalex")) : Nested("openalex", i)
<1>1. /\ Code("openalex") = q_openalex /\ Len(q_openalex) = 2 /\ query_levels("openalex") = 1
      /\ Depths("openalex") = <<0, 0>>
  BY DEF Code, q_openalex, query_levels, Depths
<1>2. \A i, d : GoesTo("openalex", i, d) <=> i \in 0 .. 2 /\ DepthAt("openalex", i) = d
  BY <1>1 DEF GoesTo
<1>3. /\ DepthAt("openalex", 0) = 0
      /\ \A i \in 1 .. 2 : DepthAt("openalex", i) = Depths("openalex")[i]
  BY DEF DepthAt
<1>4. \A i \in 1 .. 2 : Nested("openalex", i)
  BY <1>1, <1>2, <1>3, Calls DEF Nested, q_openalex
<1>5. QED
  BY <1>1, <1>4

LEMMA EveryQueryNested ==
  ASSUME NEW q \in QueryIds
  PROVE  /\ Len(Code(q)) \in Nat \ {0} /\ query_levels(q) \in Nat \ {0}
         /\ \A i \in 1 .. Len(Code(q)) : Nested(q, i)
<1>1. \A i \in 1 .. Len(Code(q)) : Nested(q, i)
  BY Nested_twitter, Nested_bestbuy, Nested_google_map, Nested_nspl, Nested_walmart,
     Nested_wiki, Nested_openalex DEF QueryIds
<1>2. Len(Code(q)) \in Nat \ {0}
  BY DEF QueryIds, Code, q_twitter, q_bestbuy, q_google, q_nspl, q_walmart, q_wiki, q_openalex
<1>3. query_levels(q) \in Nat \ {0}
  BY DEF QueryIds, query_levels
<1>4. QED
  BY <1>1, <1>2, <1>3

-----------------------------------------------------------------------------
IsStack == \E S : stack \in Seq(S)

Base == IF input.single THEN 2 ELSE 1

\* The inductive invariant: the cursor is as deep as the instruction it is at.
AtDepth ==
  /\ input \in Records
  /\ IsStack
  /\ \/ /\ pc \in {NextItem, EnterItem, Done}
        /\ pc # Done => input.single
        /\ Len(stack) = 1
     \/ /\ pc \in 0 .. Len(Code(input.q))
        /\ Len(stack) = DepthAt(input.q, pc) + Base

\* What the three kinds of calls do to the stack.
LEMMA Moved ==
  ASSUME IsStack, Len(stack) > 0, NEW labels, NEW no, MoveTo(labels, no)
  PROVE  /\ IsStack' /\ Len(stack') = Len(stack) /\ input' = input
         /\ pc' = no \/ \E i \in DOMAIN labels : pc' = labels[i]
<1>1. PICK S : stack \in Seq(S)
  BY DEF IsStack
<1>2. CASE UNCHANGED stack /\ pc' = no
  BY <1>1, <1>2 DEF MoveTo, IsStack
<1>3. CASE \E i \in DOMAIN labels : stack' = [stack EXCEPT ![Len(stack)] = i] /\ pc' = labels[i]
  <2>1. PICK i \in DOMAIN labels : stack' = [stack EXCEPT ![Len(stack)] = i] /\ pc' = labels[i]
    BY <1>3
  <2>2. stack \in Seq(S \union {i}) /\ i \in S \union {i}
    BY <1>1
  <2>3. stack' \in Seq(S \union {i}) /\ Len(stack') = Len(stack)
    BY <2>1, <2>2, ExceptSeq
  <2>4. QED
    BY <2>1, <2>3 DEF MoveTo, IsStack
<1>4. QED
  BY <1>2, <1>3 DEF MoveTo

LEMMA Entered ==
  ASSUME IsStack, NEW yes, NEW no, Enter(yes, no)
  PROVE  /\ IsStack' /\ input' = input
         /\ \/ Len(stack') = Len(stack) + 1 /\ pc' = yes
            \/ Len(stack') = Len(stack) /\ pc' = no
<1>1. PICK S : stack \in Seq(S)
  BY DEF IsStack
<1>2. stack \in Seq(S \union {0})
  BY <1>1
<1>3. Append(stack, 0) \in Seq(S \union {0}) /\ Len(Append(stack, 0)) = Len(stack) + 1
  BY <1>2
<1>4. QED
  BY <1>1, <1>3 DEF Enter, IsStack

LEMMA Left ==
  ASSUME IsStack, Len(stack) > 0, NEW then, Leave(then)
  PROVE  IsStack' /\ input' = input /\ Len(stack') = Len(stack) - 1 /\ pc' = then
<1>1. PICK S : stack \in Seq(S)
  BY DEF IsStack
<1> DEFINE n == Len(stack) - 1
<1>2. n \in Nat /\ \A i \in 1 .. n : stack[i] \in S
  BY <1>1
<1>3. Front(stack) = SubSeq(stack, 1, n)
  BY DEF Front
<1> HIDE DEF n
<1>4. SubSeq(stack, 1, n) \in Seq(S) /\ Len(SubSeq(stack, 1, n)) = n
  BY <1>2, SubSeqProperties
<1>5. QED
  BY <1>3, <1>4 DEF Leave, IsStack, n

LEMMA InitAtDepth == Init => AtDepth
<1>1. SUFFICES ASSUME Init PROVE AtDepth
  OBVIOUS
<1>2. input \in Records /\ input.q \in QueryIds /\ input.single \in BOOLEAN
  BY <1>1, RecordsAssumption DEF Init
<1>3. stack \in Seq({0}) /\ Len(stack) = 1
  BY <1>1 DEF Init
<1>4. CASE input.single
  BY <1>1, <1>2, <1>3, <1>4 DEF Init, AtDepth, IsStack, NextItem, Done
<1>5. CASE ~ input.single
  <2>1. pc = 1 /\ 1 \in 0 .. Len(Code(input.q)) /\ DepthAt(input.q, 1) = 0
    BY <1>1, <1>2, <1>5, EveryQueryNested DEF Init, QueryIds, DepthAt, Depths
  <2>2. QED
    BY <1>2, <1>3, <1>5, <2>1 DEF AtDepth, IsStack, Base
<1>6. QED
  BY <1>4, <1>5

\* A call of a query: the depth of the next instruction is that of the stack.
LEMMA CallAtDepth ==
  ASSUME AtDepth, Running,
         MoveToKey \/ MoveToKeys \/ MoveToIndex \/ MoveNext \/ GoDown \/ GoUp \/ TakeValue
  PROVE  AtDepth'
<1> DEFINE d == DepthAt(input.q, pc)
<1>1. /\ input \in Records /\ input.q \in QueryIds /\ Base \in {1, 2}
      /\ pc \in 1 .. Len(Code(input.q))
      /\ IsStack /\ Len(stack) = d + Base
  BY EveryQueryNested, RecordsAssumption DEF AtDepth, Base, Running, NextItem, EnterItem, Done
<1>2. Nested(input.q, pc) /\ d \in Nat
  <2>1. Nested(input.q, pc) /\ query_levels(input.q) \in Nat
    BY <1>1, EveryQueryNested
  <2>2. QED
    BY <2>1 DEF Nested
<1>3. Len(stack) > 0
  BY <1>1, <1>2
<1>4. SUFFICES ASSUME TRUE
               PROVE  /\ IsStack' /\ input' = input
                      /\ \E e \in Nat : GoesTo(input.q, pc', e) /\ Len(stack') = e + Base
  BY <1>1 DEF AtDepth, GoesTo, Base
<1>5. CASE MoveToKey
  <2>1. /\ IsStack' /\ Len(stack') = Len(stack) /\ input' = input
        /\ pc' = Call.yes \/ pc' = Call.no
    BY <1>1, <1>3, <1>5, Moved DEF MoveToKey
  <2>2. GoesTo(input.q, pc', d)
    BY <1>2, <1>5, <2>1 DEF MoveToKey, Nested, Call
  <2>3. QED
    BY <1>1, <1>2, <2>1, <2>2
<1>6. CASE MoveToKeys
  <2>1. /\ IsStack' /\ Len(stack') = Len(stack) /\ input' = input
        /\ pc' = Call.yes \/ pc' = Call.yes2 \/ pc' = Call.no
    BY <1>1, <1>3, <1>6, Moved DEF MoveToKeys
  <2>2. GoesTo(input.q, pc', d)
    BY <1>2, <1>6, <2>1 DEF MoveToKeys, Nested, Call
  <2>3. QED
    BY <1>1, <1>2, <2>1, <2>2
<1>7. CASE MoveToIndex
  <2>1. /\ IsStack' /\ Len(stack') = Len(stack) /\ input' = input
        /\ pc' = Call.yes \/ pc' = Call.no
    BY <1>1, <1>3, <1>7, Moved DEF MoveToIndex
  <2>2. GoesTo(input.q, pc', d)
    BY <1>2, <1>7, <2>1 DEF MoveToIndex, Nested, Call
  <2>3. QED
    BY <1>1, <1>2, <2>1, <2>2
<1>8. CASE MoveNext
  <2>1. /\ IsStack' /\ Len(stack') = Len(stack) /\ input' = input
        /\ pc' = Call.yes \/ pc' = Call.no
    BY <1>1, <1>3, <1>8, Moved DEF MoveNext
  <2>2. GoesTo(input.q, pc', d)
    BY <1>2, <1>8, <2>1 DEF MoveNext, Nested, Call
  <2>3. QED
    BY <1>1, <1>2, <2>1, <2>2
<1>9. CASE GoDown
  <2>1. /\ IsStack' /\ input' = input
        /\ \/ Len(stack') = Len(stack) + 1 /\ pc' = Call.yes
           \/ Len(stack') = Len(stack) /\ pc' = Call.no
    BY <1>1, <1>9, Entered DEF GoDown
  <2>2. GoesTo(input.q, Call.yes, d + 1) /\ GoesTo(input.q, Call.no, d)
    BY <1>2, <1>9 DEF GoDown, Nested, Call
  <2>3. QED
    BY <1>1, <1>2, <2>1, <2>2
<1>10. CASE GoUp
  <2>1. IsStack' /\ input' = input /\ Len(stack') = Len(stack) - 1 /\ pc' = Call.yes
    BY <1>1, <1>3, <1>10, Left DEF GoUp
  <2>2. d > 0 /\ GoesTo(input.q, Call.yes, d - 1)
    BY <1>2, <1>10 DEF GoUp, Nested, Call
  <2>3. QED
    BY <1>1, <1>2, <2>1, <2>2
<1>11. CASE TakeValue
  <2>1. IsStack' /\ input' = input /\ Len(stack') = Len(stack) /\ pc' = Call.yes
    BY <1>1, <1>11 DEF TakeValue, IsStack
  <2>2. GoesTo(input.q, Call.yes, d)
    BY <1>2, <1>11 DEF TakeValue, Nested, Call
  <2>3. QED
    BY <1>1, <1>2, <2>1, <2>2
<1>12. QED
  BY <1>5, <1>6, <1>7, <1>8, <1>9, <1>10, <1>11

\* The callers of a query.
LEMMA CallerAtDepth ==
  ASSUME AtDepth, QueryReturns \/ Item \/ ItemDown
  PROVE  AtDepth'
<1>1. /\ input \in Records /\ input.q \in QueryIds /\ input.single \in BOOLEAN /\ IsStack
      /\ Len(Code(input.q)) \in Nat \ {0}
      /\ DepthAt(input.q, 0) = 0 /\ DepthAt(input.q, 1) = 0
  BY EveryQueryNested, RecordsAssumption DEF AtDepth, QueryIds, DepthAt, Depths
<1>2. CASE QueryReturns
  <2>1. Len(stack) = Base
    BY <1>1, <1>2 DEF QueryReturns, Returned, AtDepth, NextItem, EnterItem, Done, Base
  <2>2. CASE input.single /\ Leave(NextItem)
    <3>1. Len(stack) = 2
      BY <2>1, <2>2 DEF Base
    <3>2. IsStack' /\ input' = input /\ Len(stack') = 1 /\ pc' = NextItem
      BY <1>1, <2>2, <3>1, Left
    <3>3. QED
      BY <1>1, <2>2, <3>2 DEF AtDepth, NextItem, Done
  <2>3. CASE ~ input.single /\ pc' = Done /\ UNCHANGED <<input, stack, out>>
    BY <1>1, <2>1, <2>3 DEF AtDepth, IsStack, Base
  <2>4. QED
    BY <1>2, <2>2, <2>3 DEF QueryReturns
<1>3. CASE Item
  <2>1. Len(stack) = 1 /\ input.single
    BY <1>1, <1>3 DEF Item, AtDepth, NextItem, EnterItem, Done
  <2>2. IsStack' /\ Len(stack') = 1 /\ input' = input /\ (pc' = Done \/ pc' = EnterItem)
    BY <1>1, <1>3, <2>1, Moved DEF Item
  <2>3. QED
    BY <1>1, <2>1, <2>2 DEF AtDepth
<1>4. CASE ItemDown
  <2>1. Len(stack) = 1 /\ input.single
    BY <1>1, <1>4 DEF ItemDown, AtDepth, NextItem, EnterItem, Done
  <2>2. /\ IsStack' /\ input' = input
        /\ \/ Len(stack') = 2 /\ pc' = 1
           \/ Len(stack') = 1 /\ pc' = NextItem
    BY <1>1, <1>4, <2>1, Entered DEF ItemDown
  <2>3. CASE Len(stack') = 2 /\ pc' = 1
    <3>1. pc' \in 0 .. Len(Code(input.q))' /\ Len(stack') = (DepthAt(input.q, pc) + Base)'
      BY <1>1, <2>1, <2>2, <2>3 DEF Base
    <3>2. QED
      BY <1>1, <2>2, <3>1 DEF AtDepth
  <2>4. CASE Len(stack') = 1 /\ pc' = NextItem
    BY <1>1, <2>1, <2>2, <2>4 DEF AtDepth
  <2>5. QED
    BY <2>2, <2>3, <2>4
<1>5. QED
  BY <1>2, <1>3, <1>4

LEMMA NextAtDepth == AtDepth /\ [Next]_vars => AtDepth'
<1>1. SUFFICES ASSUME AtDepth, [Next]_vars PROVE AtDepth'
  OBVIOUS
<1>2. CASE MoveToKey \/ MoveToKeys \/ MoveToIndex \/ MoveNext \/ GoDown \/ GoUp \/ TakeValue
  <2>1. Running
    BY <1>2 DEF MoveToKey, MoveToKeys, MoveToIndex, MoveNext, GoDown, GoUp, TakeValue
  <2>2. QED
    BY <1>1, <1>2, <2>1, CallAtDepth
<1>3. CASE QueryReturns \/ Item \/ ItemDown
  BY <1>1, <1>3, CallerAtDepth
<1>4. CASE UNCHANGED vars
  BY <1>1, <1>4 DEF AtDepth, IsStack, Base, vars
<1>5. QED
  BY <1>1, <1>2, <1>3, <1>4 DEF Next, Step

-----------------------------------------------------------------------------
\* Whatever a record is, the query leaves the cursor where it found it.
THEOREM CursorBalanced == Spec => []Balanced
<1>1. ASSUME AtDepth PROVE Balanced
  <2>1. input.q \in QueryIds /\ Len(Code(input.q)) \in Nat
    BY <1>1, EveryQueryNested, RecordsAssumption DEF AtDepth
  <2>2. ASSUME pc = Returned PROVE Len(stack) = Base
    <3>1. Len(stack) = DepthAt(input.q, 0) + Base
      BY <1>1, <2>2 DEF AtDepth, Returned, NextItem, EnterItem, Done
    <3>2. QED
      BY <3>1 DEF DepthAt, Base
  <2>3. ASSUME pc \in {NextItem, EnterItem, Done} PROVE Len(stack) = 1
    BY <1>1, <2>1, <2>3 DEF AtDepth, NextItem, EnterItem, Done
  <2>4. QED
    BY <2>2, <2>3 DEF Balanced, Base
<1>2. QED
  BY <1>1, InitAtDepth, NextAtDepth, PTL DEF Spec

\* Whatever a record is, no query goes deeper than the bitmaps Pison has built for it.
THEOREM LevelsAreEnough == Spec => []LevelsSuffice
<1>1. ASSUME AtDepth PROVE LevelsSuffice
  <2>1. /\ input.q \in QueryIds /\ input.single \in BOOLEAN
        /\ Len(Code(input.q)) \in Nat /\ query_levels(input.q) \in Nat \ {0}
    BY <1>1, EveryQueryNested, RecordsAssumption DEF AtDepth, QueryIds, query_levels
  <2>2. CASE pc \in {NextItem, EnterItem, Done}
    <3>1. Len(stack) = 1
      BY <1>1, <2>1, <2>2 DEF AtDepth, NextItem, EnterItem, Done
    <3>2. QED
      BY <2>1, <3>1 DEF LevelsSuffice, LevelsOf
  <2>3. CASE pc \in 0 .. Len(Code(input.q)) /\ Len(stack) = DepthAt(input.q, pc) + Base
    <3>1. DepthAt(input.q, pc) \in 0 .. query_levels(input.q) - 1
      BY <2>1, <2>3, EveryQueryNested DEF Nested, DepthAt
    <3>2. QED
      BY <2>1, <2>3, <3>1 DEF LevelsSuffice, LevelsOf, Base
  <2>4. QED
    BY <1>1, <2>2, <2>3 DEF AtDepth
<1>2. QED
  BY <1>1, InitAtDepth, NextAtDepth, PTL DEF Spec
=============================================================================
