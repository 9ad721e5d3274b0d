--------------------------- MODULE EscapedStrings ---------------------------
(***************************************************************************)
(* nx_kit's utils.cpp: toString() writes a string as a C literal,          *)
(* decodeEscapedString() reads one, and parseNameValue() reads a line of   *)
(* an .ini file.  createDefaultIniFile() writes the default of a parameter *)
(* by the first, and reload() reads it by the other two.                   *)
(*                                                                         *)
(* Characters are their codes; what is read by a pointer ends before its   *)
(* first 0.                                                                *)
(***************************************************************************)
EXTENDS Integers, Sequences, FiniteSets, SequencesExt

CONSTANTS
  Characters,     (* The codes of the characters of strings.               *)
  MaxTextLength   (* Bound: the length of a string.                        *)

ASSUME CharAssumption == Characters \subseteq 0..255 /\ MaxTextLength \in Nat

VARIABLE text     (* Any string. *)

TextTypeOK == text \in Seq(Characters) /\ Len(text) <= MaxTextLength

TextInit == text = <<>>

AppendCharacter(c) == Len(text) < MaxTextLength /\ text' = Append(text, c)

TextNext == \E c \in Characters : AppendCharacter(c)

TextSpec == TextInit /\ [][TextNext]_text

----------------------------------------------------------------------------
Quote == 34
Backslash == 92
Equals == 61
LetterX == 120

IsAsciiPrintable(c) == c \in 32..126
IsSpaceOrControlChar(c) == c \in 0..32 \/ c = 127

(* format("%02X")                                                          *)
HexCode(c) ==
  LET Digit(n) == IF n < 10 THEN 48 + n ELSE 55 + n
  IN <<Digit(c \div 16), Digit(c % 16)>>

(* escapeCharInString().  An empty pair of quotes after a hex sequence     *)
(* ends it, for there may be a digit next; a mutant, `EscapeUnended`, does *)
(* without.                                                                *)
EscapeUnended(c) ==
  CASE c = 0 -> <<Backslash, 48, 48, 48>>
    [] c \in {Backslash, Quote} -> <<Backslash, c>>
    [] c = 10 -> <<Backslash, 110>>
    [] c = 13 -> <<Backslash, 114>>
    [] c = 9 -> <<Backslash, 116>>
    [] OTHER -> IF IsAsciiPrintable(c) THEN <<c>>
                ELSE <<Backslash, LetterX>> \o HexCode(c)

EscapeCharInString(c) ==
  CASE c = 0 -> <<Backslash, 48, 48, 48>>
    [] c \in {Backslash, Quote} -> <<Backslash, c>>
    [] c = 10 -> <<Backslash, 110>>
    [] c = 13 -> <<Backslash, 114>>
    [] c = 9 -> <<Backslash, 116>>
    [] OTHER -> IF IsAsciiPrintable(c) THEN <<c>>
                ELSE <<Backslash, LetterX>> \o HexCode(c) \o <<Quote, Quote>>

(* toString()                                                              *)
Literal(s) ==
  <<Quote>> \o FlattenSeq([i \in DOMAIN s |-> EscapeCharInString(s[i])]) \o <<Quote>>

----------------------------------------------------------------------------
(* decodeEscapedString(). *)

CharAt(s, p) == IF p <= Len(s) THEN s[p] ELSE 0

(* toHexDigit()                                                            *)
HexDigit(c) ==
  CASE c \in 48..57 -> c - 48 [] c \in 97..102 -> c - 87 [] c \in 65..70 -> c - 55
    [] OTHER -> -1

(* The first place from p on, before the limit, of no such character.      *)
PastAll(s, p, limit, codes) ==
  CHOOSE q \in p..limit : /\ q = limit \/ CharAt(s, q) \notin codes
                          /\ \A k \in p..q - 1 : CharAt(s, k) \in codes

(* The number whose digits are at p to q - 1, and how it is kept in a char.*)
NumberAt(s, p, q, base) ==
  LET sum[k \in p..q] ==
        IF k = p THEN 0 ELSE sum[k - 1] * base + HexDigit(CharAt(s, k - 1))
  IN sum[q]

AsChar(n) == <<n % 256>>

(* decodeEscapeSequence(), decodeOctalEscapeSequence() and                 *)
(* decodeHexEscapeSequence(), after the backslash: the text it stands for, *)
(* the place after it, and whether it is wrong.  A mutant,                 *)
(* `EscapeSequenceRunsOut`, does not stay at the end of the string.        *)
OctalDigits == 48..55
HexDigits == (48..57) \union (65..70) \union (97..102)

Simple == [c \in {97, 98, 102, 110, 114, 116, 118} |->
             CASE c = 97 -> 7 [] c = 98 -> 8 [] c = 102 -> 12 [] c = 110 -> 10
               [] c = 114 -> 13 [] c = 116 -> 9 [] c = 118 -> 11]

EscapeSequenceRunsOut(s, p) ==
  [out |-> <<Backslash>>, next |-> p + 1, bad |-> TRUE]

EscapeSequence(s, p) ==
  LET c == CharAt(s, p)
      octalEnd == PastAll(s, p, p + 3, OctalDigits)
      octal == NumberAt(s, p, octalEnd, 8)
      hexEnd == PastAll(s, p + 1, Len(s) + 2, HexDigits)
      hex == NumberAt(s, p + 1, hexEnd, 16)
      Result(out, next, bad) == [out |-> out, next |-> next, bad |-> bad]
  IN CASE c = 0 -> Result(<<Backslash>>, p, TRUE)
       [] c \in OctalDigits -> Result(AsChar(octal), octalEnd, octal > 255)
       [] c \in {39, Quote, 63, Backslash} -> Result(<<c>>, p + 1, FALSE)
       [] c \in DOMAIN Simple -> Result(<<Simple[c]>>, p + 1, FALSE)
       [] c = LetterX /\ hexEnd = p + 1 -> Result(<<>>, p + 1, TRUE)
       [] c = LetterX /\ hexEnd # p + 1 -> Result(AsChar(hex), hexEnd, hex > 255)
       [] OTHER -> Result(<<c>>, p + 1, TRUE)

(* decodeEscapedString(), when it reads the character at p: the text from  *)
(* there on, whether there is an error in it, and the last place that is   *)
(* read.  It goes on at a later place.  Literals in a row are one.         *)
Decoding(s, p, from) ==
  LET Prepend(out, bad, rest) ==
        [rest EXCEPT !.out = out \o @, !.bad = bad \/ @]
      End(q, bad) == [out |-> <<>>, bad |-> bad, last |-> q]
      c == CharAt(s, p)
      escape == EscapeSequence(s, p + 1)
      next == PastAll(s, p + 1, Len(s) + 2, 1..32)
      terminator == PastAll(s, p, Len(s) + 2, 1..255)
  IN CASE c = 0 -> End(p, TRUE)
       [] c = Quote /\ CharAt(s, next) = 0 -> End(next, FALSE)
       [] c = Quote /\ CharAt(s, next) = Quote -> from[next + 1]
       [] c = Quote /\ CharAt(s, next) \notin {0, Quote} ->
            Prepend(SubSeq(s, next, terminator - 1), TRUE, End(terminator, TRUE))
       [] c = Backslash -> Prepend(escape.out, escape.bad, from[escape.next])
       [] OTHER -> Prepend(<<c>>, c < 128 /\ ~IsAsciiPrintable(c), from[p + 1])

Decoded(s) ==
  LET from[p \in 1..Len(s) + 2] == Decoding(s, p, from)
  IN IF CharAt(s, 1) = Quote THEN from[2] ELSE [out |-> s, bad |-> TRUE, last |-> 1]

----------------------------------------------------------------------------
(* parseNameValue(): the value of a line, if it has a name.                *)
Trimmed(s) ==
  LET kept == {i \in DOMAIN s : ~IsSpaceOrControlChar(s[i])}
  IN IF kept = {} THEN <<>>
     ELSE SubSeq(s, CHOOSE i \in kept : \A j \in kept : i <= j,
                    CHOOSE i \in kept : \A j \in kept : i >= j)

ParseNameValue(line) ==
  LET equals == SelectInSeq(line, LAMBDA c : c = Equals)
  IN Trimmed(SubSeq(line, equals + 1, Len(line)))

(* A line of the default file, its comment mark removed; and what          *)
(* Param<const char*>::reload() makes of it: a text with a 0 is an error.  *)
DefaultLine(s) == <<LetterX, Equals>> \o Literal(s)

ReloadedString(line) ==
  LET parsed == ParseNameValue(line)
      str == IF CharAt(parsed, 1) = Quote THEN Decoded(parsed)
             ELSE [out |-> parsed, bad |-> FALSE, last |-> Len(parsed)]
  IN [str EXCEPT !.bad = @ \/ 0 \in Range(str.out)]

(* A string is read as it was written, whatever characters meet in it:     *)
(* digits after an escaped character, quotes, blanks at its ends; and the  *)
(* default that createDefaultIniFile() writes is one that reload() takes,  *)
(* unless it has a 0.                                                      *)
WrittenIsRead ==
  LET decoded == Decoded(Literal(text))
      reloaded == ReloadedString(DefaultLine(text))
  IN /\ decoded.out = text /\ ~decoded.bad
     /\ reloaded.out = text /\ (reloaded.bad <=> 0 \in Range(text))

(* The decoder never reads past the end of the string, well-formed or not, *)
(* with a quote before it or not.                                          *)
DecoderStaysInside ==
  \A s \in {text, <<Quote>> \o text} : Decoded(s).last <= Len(s) + 1

(* Whatever is written can be read, and whatever is read is within its end.*)
StringsAreReadBack == WrittenIsRead /\ DecoderStaysInside

=============================================================================
