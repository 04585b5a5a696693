------------------------------- MODULE Queries -------------------------------
(***************************************************************************)
(* The queries of src/common.h: their names, how many bitmap levels Pison  *)
(* is told to build for each, and where their records are in the dataset's *)
(* bulky form (src/queries.cpp).                                           *)
(***************************************************************************)
EXTENDS JsonTree

QueryIds == {"twitter", "bestbuy", "google_map", "nspl", "walmart", "wiki", "openalex"}

\* Bug: the levels are the query's depth (the other column of the table).
QueryLevelsDepth(q) ==
  CASE q \in {"nspl", "openalex"} -> 1
    [] q \in {"twitter", "walmart"} -> 2
    [] q = "bestbuy" -> 3
    [] q = "wiki" -> 4
    [] q = "google_map" -> 7

query_levels(q) ==
  CASE q \in {"nspl", "openalex"} -> 1
    [] q \in {"twitter", "walmart"} -> 2
    [] q = "bestbuy" -> 3
    [] q = "wiki" -> 5
    [] q = "google_map" -> 8

\* main adds one for a bulky record.
LevelsOf(q, single) == query_levels(q) + IF single THEN 1 ELSE 0

\* The key of the dominating array, for all but OpenAlex, whose bulky record is one.
bulky_array(q) ==
  CASE q = "twitter" -> "tweets"
    [] q = "bestbuy" -> "products"
    [] q = "nspl" -> "data"
    [] q \in {"google_map", "walmart", "wiki"} -> "items"
    [] q = "openalex" -> "none"

\* The dominating array of a bulky record, if it has one.
BulkyPlaces(record, q) ==
  {p \in IF q = "openalex" THEN {<<>>} ELSE Get(record, {<<>>}, bulky_array(q)) :
     At(record, p).kind = "array"}
=============================================================================
