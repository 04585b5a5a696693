------------------------------- MODULE Slicing -------------------------------
(***************************************************************************)
(* The slicing rule shared by the parallel drivers: a stream is cut into   *)
(* blocks of equal size and both ends of a block are moved forward to just *)
(* past the next delimiter, so that a slice begins where the one before it *)
(* ended.  src/parallel_stream.h has it as internal::slice_at,             *)
(* src/dom_parallel.h as snap_to_newline.                                  *)
(*                                                                         *)
(* A text is abstracted to what the rule looks at: its length and the set  *)
(* of positions that hold the delimiter.  A document of the text is a      *)
(* record [first, last, code]: the positions of its first and last byte    *)
(* and the error its extraction reports.                                   *)
(***************************************************************************)
EXTENDS Integers

\* memchr from `want` on, one past what it finds; `length` when it finds nothing.
Snap(length, delims, want) ==
  IF want < length /\ \E p \in delims : want <= p
    THEN 1 + CHOOSE p \in delims :
                 /\ want <= p
                 /\ \A q \in delims : want <= q => p <= q
    ELSE length

EmptyPiece == [begin |-> 0, end |-> 0]

IsEmpty(piece) == piece.begin >= piece.end

\* Bug: the two ends of a block are snapped by different rules, the begin one
\* past the delimiter and the end to it.
SliceAtLongTail(length, delims, block, index) ==
  LET raw_begin == index * block
      begin == IF raw_begin = 0 THEN 0 ELSE Snap(length, delims, raw_begin)
      end   == Snap(length, delims, Snap(length, delims, raw_begin + block))
  IN IF block = 0 \/ index > length \div block \/ raw_begin >= length \/ begin >= end
       THEN EmptyPiece ELSE [begin |-> begin, end |-> end]

\* internal::slice_at
SliceAt(length, delims, block, index) ==
  LET raw_begin == index * block
      begin == IF raw_begin = 0 THEN 0 ELSE Snap(length, delims, raw_begin)
      end   == Snap(length, delims, raw_begin + block)
  IN IF \/ block = 0
        \/ index > length \div block
        \/ raw_begin >= length
        \/ begin >= end
       THEN EmptyPiece
       ELSE [begin |-> begin, end |-> end]

-----------------------------------------------------------------------------
\* The documents that lie inside a piece, and those a piece cuts in two.
DocsIn(docs, piece) ==
  {d \in docs : piece.begin <= d.first /\ d.last < piece.end}

Splits(piece, d) ==
  /\ ~ IsEmpty(piece)
  /\ \E edge \in {piece.begin, piece.end} : d.first < edge /\ edge <= d.last

\* No delimiter occurs inside a document, which is what the rule needs.
DelimiterFree(delims, docs) ==
  \A p \in delims, d \in docs : ~ (d.first <= p /\ p <= d.last)
=============================================================================
