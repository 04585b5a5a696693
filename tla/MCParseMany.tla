----------------------------- MODULE MCParseMany -----------------------------
(***************************************************************************)
(* Instances of ParseMany for TLC: every text of a few cells and every     *)
(* option, from small sets.  A cell of a text is a separator of documents  *)
(* ("lf", "sp", "rs", "comma"), a line feed between two tokens ("nl"), or  *)
(* a byte of a document: "ok", or "e1" or "e2", which make the extraction  *)
(* of their document fail with E1 or E2.                                   *)
(***************************************************************************)
EXTENDS ParseManyInvariant, RunParallel

CONSTANTS E1, E2, MaxLength, Cells, MaxThreads, SliceSizes, CallFormats, Modes

Separators(format) ==
  CASE format = "json_sequence"        -> {"rs"}
    [] format = "comma_delimited"      -> {"comma"}
    [] format = "newline_delimited"    -> {"lf"}
    [] format = "whitespace_delimited" -> {"lf", "sp"}

CodeOf(cells) ==
  IF "e1" \in cells THEN E1 ELSE IF "e2" \in cells THEN E2 ELSE SUCCESS

\* The text made of `cells`.  Its documents lie between separators, from the
\* first byte to the last.
TextOf(cells, format) ==
  LET n            == Len(cells)
      at(p)        == cells[p + 1]
      Inside(p, q) == \A r \in p .. q : at(r) \notin Separators(format)
      bytes        == {p \in 0 .. n - 1 : Inside(p, p) /\ at(p) # "nl"}
      extents      == {x \in bytes \X bytes :
                         /\ x[1] <= x[2] /\ Inside(x[1], x[2])
                         /\ \A p \in bytes : /\ p < x[1] => ~ Inside(p, x[1])
                                             /\ p > x[2] => ~ Inside(x[2], p)}
  IN [length |-> n,
      lf     |-> {p \in 0 .. n - 1 : at(p) \in {"lf", "nl"}},
      rs     |-> {p \in 0 .. n - 1 : at(p) = "rs"},
      docs   |-> {[first |-> x[1], last |-> x[2],
                   code |-> CodeOf({at(p) : p \in x[1] .. x[2]})] : x \in extents}]

AllCalls ==
  {[json |-> TextOf(t, o.format), opt |-> o] :
     t \in UNION {[1 .. n -> Cells] : n \in 0 .. MaxLength},
     o \in [threads : 0 .. MaxThreads, slice_bytes : SliceSizes,
            format : CallFormats, static_partition : Modes]}

\* The byte that ends a document in texts of the format, and may not occur in one.
Terminators(json, format) == IF format = "json_sequence" THEN json.rs ELSE json.lf

\* The calls on texts whose documents are free of it.
MCCalls ==
  {c \in AllCalls : DelimiterFree(Terminators(c.json, c.opt.format), c.json.docs)}

MCErrorCodes == {E1, E2}
MCStreamErrors == {E1}
=============================================================================
