------------------------------ MODULE JsonTree ------------------------------
(***************************************************************************)
(* JSON values as trees, and the lookups the parsers offer.  A place in a  *)
(* document is the sequence of positions that leads to it, counted from 1; *)
(* the root is the empty sequence.                                         *)
(***************************************************************************)
EXTENDS Integers, Sequences, SequencesExt

Scalar(token) == [kind |-> "scalar", token |-> token, keys |-> <<>>, kids |-> <<>>]
Object(keys, kids) == [kind |-> "object", token |-> <<>>, keys |-> keys, kids |-> kids]
Array(kids) == [kind |-> "array", token |-> <<>>, keys |-> <<>>, kids |-> kids]

\* The value at a place.
At(doc, place) ==
  LET Node[i \in 0 .. Len(place)] == IF i = 0 THEN doc ELSE Node[i - 1].kids[place[i]]
  IN Node[Len(place)]

\* The positions of the fields with a key: none unless the value is an object.
KeyPositions(node, key) == {i \in DOMAIN node.keys : node.keys[i] = key}

\* The places below those of S: of all fields with a key, and of the first in each.
Fields(doc, S, key) ==
  UNION {{Append(p, i) : i \in KeyPositions(At(doc, p), key)} : p \in S}
Get(doc, S, key) ==
  UNION {{Append(p, i) : i \in {i \in KeyPositions(At(doc, p), key) :
                                 \A j \in KeyPositions(At(doc, p), key) : i <= j}} : p \in S}

\* The elements of arrays, and those with an index, counted from 0.
Each(doc, S) ==
  UNION {{Append(p, i) : i \in DOMAIN At(doc, p).kids} : p \in {p \in S : At(doc, p).kind = "array"}}
Nth(doc, S, index) ==
  {Append(p, index + 1) : p \in {p \in S : At(doc, p).kind = "array" /\ index < Len(At(doc, p).kids)}}
=============================================================================
