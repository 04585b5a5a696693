-------------------------------- MODULE Lines --------------------------------
(***************************************************************************)
(* for_each_line of src/dom_queries.h, with which every DOM engine walks   *)
(* the documents of a text or of a slice of it, and scan_corpus of         *)
(* src/dom_engine.cpp, which walks the corpus once before anything is      *)
(* measured.                                                               *)
(*                                                                         *)
(* A text is a record of its length and of the positions of its line feeds *)
(* (lf), of its spaces and carriage returns (blank), and of the bytes no   *)
(* parser accepts (bad).  A line is a record of the positions of its first *)
(* and last byte.                                                          *)
(***************************************************************************)
EXTENDS Integers, FiniteSets, FiniteSetsExt

IsCorpus(text) ==
  /\ text.length \in Nat
  /\ text.lf \in SUBSET (0 .. text.length - 1)
  /\ text.blank \in SUBSET (0 .. text.length - 1)
  /\ text.bad \in SUBSET (0 .. text.length - 1)
  /\ text.lf \intersect text.blank = {}

\* Where the scan of [begin, end) looks for a line: at its begin and after each
\* line feed.
LineStarts(text, begin, end) ==
  {s \in {begin} \union {p + 1 : p \in text.lf \intersect (begin .. end - 1)} : s < end}

\* One past the last byte of the line at s, whose trailing blanks are left out.
StopOf(text, s, end) ==
  LET feeds == {p \in text.lf : s <= p /\ p < end}
      eol   == IF feeds = {} THEN end ELSE CHOOSE p \in feeds : \A q \in feeds : p <= q
  IN Max({s} \union {p + 1 : p \in {p \in s .. eol - 1 : p \notin text.blank}})

\* Bug: a line with nothing but blanks is handed out.
LinesOrBlank(text, begin, end) ==
  {[first |-> s, last |-> StopOf(text, s, end) - 1] : s \in LineStarts(text, begin, end)}

\* The lines for_each_line hands out, those that are blank left out.
LinesIn(text, begin, end) ==
  {[first |-> s, last |-> StopOf(text, s, end) - 1] :
     s \in {s \in LineStarts(text, begin, end) : StopOf(text, s, end) > s}}

\* The length of a line.
Size(line) == line.last - line.first + 1

\* Bug: the scan leaves out a last line that no line feed ends.
LongestTerminated(text) ==
  Max({0} \union {Size(l) : l \in {l \in LinesIn(text, 0, text.length) :
                                      \E p \in text.lf : l.last < p}})

\* scan_corpus: the longest line, from which the parsers' arenas are sized.
Longest(text) == Max({0} \union {Size(l) : l \in LinesIn(text, 0, text.length)})

\* A line no parser accepts.
Malformed(text, line) == \E p \in text.bad : line.first <= p /\ p <= line.last
=============================================================================
