----------------------------- MODULE MCRunSliced -----------------------------
(***************************************************************************)
(* Instances of RunSliced for TLC: every text of a few cells, with every   *)
(* number of threads and slice size from small sets.  A cell is a line     *)
(* feed, a blank, a byte of a document, or one no parser accepts.          *)
(***************************************************************************)
EXTENDS RunSliced

CONSTANTS MaxLength, Cells, MaxThreads, SliceSizes, Modes

CorpusOf(cells) ==
  LET at(cell) == {p \in 0 .. Len(cells) - 1 : cells[p + 1] = cell}
  IN [length |-> Len(cells), lf |-> at("lf"), blank |-> at("blank"), bad |-> at("bad")]

AllRuns ==
  [text : {CorpusOf(t) : t \in UNION {[1 .. n -> Cells] : n \in 0 .. MaxLength}},
   threads : 0 .. MaxThreads, slice_bytes : SliceSizes, stat : Modes]

\* Those that fit the machine word.
MCRuns == {r \in AllRuns : NothingWraps(r)}
=============================================================================
