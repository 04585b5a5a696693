--------------------------- MODULE MCPisonPipeline ---------------------------
(***************************************************************************)
(* Instances of PisonPipeline for TLC: every stream of a few cells.        *)
(***************************************************************************)
EXTENDS PisonPipeline

CONSTANTS MaxLength, Cells, MaxThreads

StreamOf(cells) ==
  LET at(cell) == {p \in 0 .. Len(cells) - 1 : cells[p + 1] = cell}
  IN [length |-> Len(cells), lf |-> at("lf"), cr |-> at("cr")]

MCLoads ==
  [text : {StreamOf(t) : t \in UNION {[1 .. n -> Cells] : n \in 0 .. MaxLength}},
   threads : 0 .. MaxThreads]

ASSUME InstanceFits == LengthsFit
=============================================================================
