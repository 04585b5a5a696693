----------------------------- MODULE DomQueries -----------------------------
(***************************************************************************)
(* The queries over a parsed tree (src/dom_queries.h), as run for every    *)
(* DOM library: the places of the values each feeds.  obj_get is Get,      *)
(* arr_at is Nth, arr_each is Each; what does not exist feeds nothing.     *)
(***************************************************************************)
EXTENDS JsonTree

LOCAL Root == {<<>>}

q_twitter(doc) ==
  Get(doc, Root, "lang") \union Get(doc, Get(doc, Root, "user"), "lang")

q_bestbuy(doc) ==
  LET path == Get(doc, Root, "categoryPath")
  IN Get(doc, Nth(doc, path, 1) \union Nth(doc, path, 2), "id")

q_google(doc) ==
  LET legs == Get(doc, Each(doc, Get(doc, Root, "routes")), "legs")
      steps == Get(doc, Each(doc, legs), "steps")
  IN Get(doc, Get(doc, Each(doc, steps), "distance"), "text")

q_nspl(doc) == Nth(doc, Root, 8) \union Nth(doc, Root, 9)

q_walmart(doc) ==
  Get(doc, Root, "name") \union Get(doc, Get(doc, Root, "bestMarketplacePrice"), "price")

q_wiki(doc) ==
  LET p150 == Get(doc, Get(doc, Root, "claims"), "P150")
  IN Get(doc, Get(doc, Each(doc, p150), "mainsnak"), "property")

q_openalex(doc) == Get(doc, Root, "display_name") \union Get(doc, Root, "works_count")

run_query(q, doc) ==
  CASE q = "twitter"    -> q_twitter(doc)
    [] q = "bestbuy"    -> q_bestbuy(doc)
    [] q = "google_map" -> q_google(doc)
    [] q = "nspl"       -> q_nspl(doc)
    [] q = "walmart"    -> q_walmart(doc)
    [] q = "wiki"       -> q_wiki(doc)
    [] q = "openalex"   -> q_openalex(doc)
=============================================================================
