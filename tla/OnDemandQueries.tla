--------------------------- MODULE OnDemandQueries ---------------------------
(***************************************************************************)
(* The queries over simdjson's on-demand documents                         *)
(* (src/simdjson_engine.cpp): what each takes below a place, and whether   *)
(* it returns an error, which three of them do for a record that is not    *)
(* the container they iterate, or a key they cannot read.                  *)
(***************************************************************************)
EXTENDS Queries

CONSTANT BadKey  \* a key that cannot be unescaped

LOCAL Success(places) == [error |-> FALSE, taken |-> places]

\* The queries that go through all fields of the record: they take the values of some,
\* and the first field with a name in the objects of another, up to a key that
\* cannot be read.
ForEachField(doc, root, leaves, inner, name) ==
  LET fields == {i \in DOMAIN At(doc, root).keys : \A j \in 1 .. i : At(doc, root).keys[j] # BadKey}
      Read(keys) == {Append(root, i) : i \in {i \in fields : At(doc, root).keys[i] \in keys}}
  IN [error |-> At(doc, root).kind # "object" \/ fields # DOMAIN At(doc, root).keys,
      taken |-> Read(leaves) \union Get(doc, Read({inner}), name)]

q_twitter(doc, root) == ForEachField(doc, root, {"lang"}, "user", "lang")

q_bestbuy(doc, root) ==
  LET path == Get(doc, {root}, "categoryPath")
  IN Success(Get(doc, {p \in Each(doc, path) : Last(p) - 1 \in {1, 2}}, "id"))

q_google(doc, root) ==
  LET Below(places, key) == Get(doc, Each(doc, places), key)
      steps == Below(Below(Get(doc, {root}, "routes"), "legs"), "steps")
  IN Success(Get(doc, Below(steps, "distance"), "text"))

q_nspl(doc, root) ==
  [error |-> At(doc, root).kind # "array",
   taken |-> {p \in Each(doc, {root}) : Last(p) - 1 \in {8, 9}}]

q_walmart(doc, root) == ForEachField(doc, root, {"name"}, "bestMarketplacePrice", "price")

q_wiki(doc, root) ==
  LET p150 == Get(doc, Get(doc, {root}, "claims"), "P150")
  IN Success(Get(doc, Get(doc, Each(doc, p150), "mainsnak"), "property"))

q_openalex(doc, root) ==
  ForEachField(doc, root, {"display_name", "works_count"}, BadKey, BadKey)

dispatch(q, doc, root) ==
  CASE q = "twitter"    -> q_twitter(doc, root)
    [] q = "bestbuy"    -> q_bestbuy(doc, root)
    [] q = "google_map" -> q_google(doc, root)
    [] q = "nspl"       -> q_nspl(doc, root)
    [] q = "walmart"    -> q_walmart(doc, root)
    [] q = "wiki"       -> q_wiki(doc, root)
    [] q = "openalex"   -> q_openalex(doc, root)

\* What a record adds to a serial run of a stream: nothing after an error.
SerialRecord(q, doc) ==
  LET result == dispatch(q, doc, <<>>) IN IF result.error THEN {} ELSE result.taken

\* The query over the items of an array: the first error ends it, and what was taken
\* until then is kept, also of the item that failed.
Items(q, doc, items) ==
  UNION {dispatch(q, doc, p).taken :
           p \in {p \in Each(doc, items) :
                    \A j \in 1 .. Last(p) - 1 : ~ dispatch(q, doc, Append(Front(p), j)).error}}

\* One document that is the array, and a bulky record that holds it.
run_single_document(q, doc) == Items(q, doc, {<<>>})
run_bulky_document(q, record) == Items(q, record, BulkyPlaces(record, q))
=============================================================================
