------------------------------ MODULE MCQueries ------------------------------
(***************************************************************************)
(* Records for TLC.  Along the path of each query a value may be a scalar, *)
(* a container of the other kind, empty, or the right one, among others,   *)
(* before a complete one, or after a scalar; in NSPL rows the length       *)
(* varies.  Records with a repeated or an unreadable key are among them,   *)
(* and in OpenAlex records the tokens vary.                                *)
(***************************************************************************)
EXTENDS PisonQueries

X == Scalar(NumberToken(<<48>>))
A == Scalar(NumberToken(<<49, 46, 48>>))
B == Scalar(StringToken(<<[text |-> <<98>>, bytes |-> <<98>>]>>))

\* A family of values: a complete one, and all.
Leaves == [full |-> B, all |-> {A}]

KeyFamily(key, family) ==
  LET full == Object(<<key, "other">>, <<family.full, X>>)
  IN [full |-> full,
      all |-> {X, Object(<<>>, <<>>), Array(<<X>>), full}
                \union {Object(<<"other", key>>, <<X, v>>) : v \in family.all}]

EachFamily(family) ==
  LET full == Array(<<family.full>>)
  IN [full |-> full,
      all |-> {X, Array(<<>>), Object(<<"other">>, <<family.full>>), full}
                \union {Array(<<X, v>>) : v \in family.all}
                \union {Array(<<v, family.full>>) : v \in family.all}]

\* Arrays of up to four elements.
IndexFamily(family) ==
  LET full == Array(<<X, family.full, family.full, X>>)
  IN [full |-> full,
      all |-> {X, Array(<<>>), Array(<<family.full>>), Object(<<>>, <<>>), full}
                \union {Array(<<family.full, v>>) : v \in family.all}
                \union {Array(<<X, v, family.full>>) : v \in family.all}
                \union {Array(<<X, family.full, v, family.full>>) : v \in family.all}]

\* Two keys of the record, in both orders; repeated; and an unreadable one.
TwoKeysFamily(leaf, other, family) ==
  LET full == Object(<<leaf, other>>, <<B, family.full>>)
  IN [full |-> full,
      all |-> {X, Object(<<>>, <<>>), Array(<<X>>), full,
               Object(<<leaf, other, leaf>>, <<B, family.full, A>>),
               Object(<<leaf, BadKey, other>>, <<B, X, family.full>>)}
                \union {Object(<<other, "other", leaf>>, <<v, X, A>>) : v \in family.all}
                \union {Object(<<"other", other>>, <<X, v>>) : v \in family.all}]

RowFamily ==
  LET Row(n) == Array([i \in 1 .. n |-> IF i % 2 = 0 THEN A ELSE B])
  IN [full |-> Row(10), all |-> {X, Object(<<>>, <<>>)} \union {Row(n) : n \in {0, 8, 9, 10, 11}}]

Family(q) ==
  LET Below(key, family) == KeyFamily(key, EachFamily(family))
  IN CASE q = "twitter" -> TwoKeysFamily("lang", "user", KeyFamily("lang", Leaves))
       [] q = "walmart" -> TwoKeysFamily("name", "bestMarketplacePrice", KeyFamily("price", Leaves))
       [] q = "openalex" -> TwoKeysFamily("display_name", "works_count", Leaves)
       [] q = "bestbuy" -> KeyFamily("categoryPath", IndexFamily(KeyFamily("id", Leaves)))
       [] q = "google_map" ->
            Below("routes", Below("legs", Below("steps", KeyFamily("distance", KeyFamily("text", Leaves)))))
       [] q = "wiki" ->
            KeyFamily("claims", Below("P150", KeyFamily("mainsnak", KeyFamily("property", Leaves))))
       [] q = "nspl" -> RowFamily

Workloads == {"query", "decode"}
Layouts == {<<>>, <<32>>}

Streams ==
  UNION {[doc : Family(q).all, q : {q}, space : Layouts, w : Workloads, single : {FALSE}] : q \in QueryIds}

\* Bulky records: an element between complete ones, one alone, none; and one with the
\* array in it behind another key, or a scalar in its place.
Bulky ==
  LET Elements_(q) ==
        {<<>>} \union {<<v>> : v \in Family(q).all}
          \union {<<Family(q).full, v, Family(q).full>> : v \in Family(q).all}
      Wrap(q, v) ==
        IF q = "openalex" THEN v ELSE Object(<<"other", bulky_array(q)>>, <<X, v>>)
  IN UNION {[doc : {Wrap(q, X)} \union {Wrap(q, Array(vs)) : vs \in Elements_(q)},
             q : {q}, space : {<<>>, <<13, 10>>}, w : {"query"}, single : {TRUE}] : q \in QueryIds}

-----------------------------------------------------------------------------
Plain(c) == [text |-> <<c>>, bytes |-> <<c>>]
Escape(c, byte) == [text |-> <<Backslash, c>>, bytes |-> <<byte>>]
Hex(digits, bytes) == [text |-> <<Backslash, 117>> \o digits, bytes |-> bytes]

\* Characters, the simple escapes, and code points at the edges of one, two and three
\* bytes, with the bytes that Unicode gives them.
Units ==
  {Plain(97), Plain(Comma), Plain(32), Escape(110, 10), Escape(116, 9), Escape(Quote, Quote),
   Escape(Backslash, Backslash), Escape(47, 47),
   Hex(<<48, 48, 55, 102>>, <<127>>), Hex(<<48, 48, 56, 48>>, <<194, 128>>),
   Hex(<<48, 55, 70, 70>>, <<223, 191>>), Hex(<<48, 56, 48, 48>>, <<224, 160, 128>>),
   Hex(<<102, 102, 102, 68>>, <<239, 191, 189>>)}

Tokens ==
  {StringToken(units) : units \in {<<>>} \union {<<u>> : u \in Units} \union (Units \X Units)}
    \union {NumberToken(<<52, 46, 48>>), NumberToken(<<45, 55>>), NumberToken(<<49, 46, 53>>),
            LiteralToken(<<116, 114, 117, 101>>), LiteralToken(<<110, 117, 108, 108>>)}

TokenRecords ==
  [doc : {Object(<<"works_count", "display_name">>, <<Scalar(t), A>>) : t \in Tokens}
           \union {Object(<<"display_name">>, <<Scalar(t)>>) : t \in Tokens},
   q : {"openalex"}, space : Layouts, w : Workloads, single : {FALSE}]

MCRecords == Streams \union Bulky \union TokenRecords
=============================================================================
