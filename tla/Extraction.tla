----------------------------- MODULE Extraction -----------------------------
(***************************************************************************)
(* What the engines feed to the sink of src/common.h.  A text is a         *)
(* sequence of bytes; the value that is fed is hashed, and the hashes are  *)
(* added up, so an extraction is the bag of the values fed.                *)
(*                                                                         *)
(* simdjson and the DOM parsers hand out the token of a value, or decode   *)
(* it themselves; Pison hands out what surrounds it too, and feed_decoded  *)
(* of src/pison_engine.cpp does the decoding.                              *)
(***************************************************************************)
EXTENDS Integers, Sequences, SequencesExt

Return == 13
Space == {32, 9, 10, Return}
Comma == 44
Quote == 34
Backslash == 92

Trim(s) ==
  LET ink == {i \in DOMAIN s : s[i] \notin Space}
  IN IF ink = {} THEN <<>> ELSE SubSeq(s, Min(ink), Max(ink))

\* Whitespace, one comma, and whitespace again.
trim_token(s) ==
  LET t == Trim(s)
  IN IF t # <<>> /\ Last(t) = Comma THEN Trim(Front(t)) ELSE t

IsQuoted(s) == Len(s) >= 2 /\ Head(s) = Quote /\ Last(s) = Quote

\* The value that is hashed.
normalize(raw) ==
  LET s == trim_token(raw)
  IN IF IsQuoted(s) THEN SubSeq(s, 2, Len(s) - 1) ELSE s

-----------------------------------------------------------------------------
HexValue(h) ==
  CASE h \in 48 .. 57  -> h - 48
    [] h \in 97 .. 102 -> h - 87
    [] h \in 65 .. 70  -> h - 55
    [] OTHER           -> 0

CodePoint(digits) ==
  4096 * HexValue(digits[1]) + 256 * HexValue(digits[2])
    + 16 * HexValue(digits[3]) + HexValue(digits[4])

\* The bytes of a code point of the basic plane.
Utf8(cp) ==
  CASE cp < 128 -> <<cp>>
    [] cp >= 128 /\ cp < 2048 -> <<192 + cp \div 64, 128 + (cp % 64)>>
    [] OTHER -> <<224 + cp \div 4096, 128 + ((cp \div 64) % 64), 128 + (cp % 64)>>

\* What follows a backslash, \u excepted.
Escaped(c) ==
  CASE c = 110 -> 10 [] c = 116 -> 9 [] c = 114 -> 13 [] c = 98 -> 8
    [] c = 102 -> 12 [] OTHER   -> c

\* The body of the quoted text s, unescaped, from its position i on.
Unescape(s) ==
  LET n == Len(s)
      From[i \in 2 .. n + 1] ==
        IF i >= n THEN <<>>
        ELSE IF s[i] # Backslash \/ i + 1 >= n THEN <<s[i]>> \o From[i + 1]
        ELSE IF s[i + 1] # 117 THEN <<Escaped(s[i + 1])>> \o From[i + 2]
        ELSE IF i + 4 < n
          THEN Utf8(CodePoint(SubSeq(s, i + 2, i + 5))) \o From[i + 6]
        ELSE From[i + 2]
  IN From[2]

\* A number printed with %.17g after strtod, so that equal numbers are equal texts; of
\* the ways to write one, a fraction of zeros is the one considered.
Printed(text) ==
  LET dots == {i \in DOMAIN text : text[i] = 46 /\ \A j \in i + 1 .. Len(text) : text[j] = 48}
  IN IF dots = {} THEN text ELSE SubSeq(text, 1, Min(dots) - 1)

\* The texts strtod reads a number from.
ReadsNumber(s) == s # <<>> /\ Head(s) \in 48 .. 57 \union {45}

\* Bug: a string is recognised before the comma behind it is gone.
FeedDecodedUntrimmed(raw) ==
  LET s == Trim(raw)
  IN normalize(IF IsQuoted(s) THEN Unescape(s) ELSE IF ReadsNumber(s) THEN Printed(s) ELSE s)

\* What Pison's decode mode feeds for a raw text.
feed_decoded(raw) ==
  LET s == trim_token(raw)
  IN normalize(IF IsQuoted(s) THEN Unescape(s) ELSE IF ReadsNumber(s) THEN Printed(s) ELSE s)

-----------------------------------------------------------------------------
\* A token: its type, its text in the input, and for a string the bytes that a parser
\* makes of it.
StringToken(units) ==
  [type |-> "string",
   text |-> <<Quote>> \o FlattenSeq([i \in DOMAIN units |-> units[i].text]) \o <<Quote>>,
   body |-> FlattenSeq([i \in DOMAIN units |-> units[i].bytes])]
NumberToken(text) == [type |-> "number", text |-> text, body |-> <<>>]
LiteralToken(text) == [type |-> "literal", text |-> text, body |-> <<>>]

\* What simdjson feeds for a token.
OnDemandTake(token, w) ==
  normalize(CASE w = "decode" /\ token.type = "string" -> token.body
              [] w = "decode" /\ token.type = "number" -> Printed(token.text)
              [] OTHER -> token.text)

\* What a DOM parser feeds, which has decoded every token already.
DomFeed(token) ==
  normalize(CASE token.type = "string" -> token.body
              [] token.type = "number" -> Printed(token.text)
              [] OTHER -> token.text)

\* What Pison hands out for a token, in a document with that space between tokens: what
\* surrounds it in its container, up to the next structural character.
RawText(token, space, last) ==
  space \o token.text \o space \o IF last THEN <<>> ELSE <<Comma>>

\* What Pison's take feeds for it.
PisonTake(raw, w) == IF w = "decode" THEN feed_decoded(raw) ELSE normalize(raw)
=============================================================================
