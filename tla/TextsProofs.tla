----------------------------- MODULE TextsProofs -----------------------------
(***************************************************************************)
(* What toString() writes is read by decodeEscapedString() and from a line *)
(* of an .ini file, and what toStdString() writes by fromStdString(), for  *)
(* strings of any length with any characters, and for any UUID.            *)
(*                                                                         *)
(* The decoder is a function of the places of a string, each value of      *)
(* which is computed of those after it: it exists, and its values are      *)
(* known from the end of the literal backwards.                            *)
(***************************************************************************)
EXTENDS UuidStrings, InductionLemmas, FiniteSetTheorems, SequenceTheorems, TLAPS

----------------------------------------------------------------------------
(* EscapedStrings: the parts of the decoder.                               *)

(* The place that PastAll chooses exists, and is as it is said to be.      *)
LEMMA PastAllIs ==
  ASSUME NEW s, NEW p \in Nat, NEW limit \in Nat, p <= limit, NEW codes
  PROVE  /\ PastAll(s, p, limit, codes) \in p..limit
         /\ \/ PastAll(s, p, limit, codes) = limit
            \/ CharAt(s, PastAll(s, p, limit, codes)) \notin codes
         /\ \A k \in p..PastAll(s, p, limit, codes) - 1 : CharAt(s, k) \in codes
  <1> DEFINE Ends == {q \in p..limit : q = limit \/ CharAt(s, q) \notin codes}
  <1>1. Ends \in SUBSET Nat /\ limit \in Ends
    OBVIOUS
  <1>2. PICK q \in Ends : \A m \in Ends : q <= m
    <2> HIDE DEF Ends
    <2> QED
      BY <1>1, LeastNumber
  <1>3. \A k \in p..q - 1 : CharAt(s, k) \in codes
    <2> TAKE k \in p..q - 1
    <2>1. k \in p..limit /\ k # limit /\ ~(q <= k)
      OBVIOUS
    <2> QED
      BY <1>2, <2>1
  <1> QED
    BY <1>2, <1>3 DEF PastAll

LEMMA HexDigitIsInt == \A c : HexDigit(c) \in -1..15
  BY DEF HexDigit

(* The sums of which NumberAt is the last one.                             *)
IsSumOf(sum, s, p, q, radix) ==
  /\ sum \in [p..q -> Int] /\ sum[p] = 0
  /\ \A k \in p + 1..q : sum[k] = sum[k - 1] * radix + HexDigit(CharAt(s, k - 1))

(* The sums exist, so that a number is what its digits make.               *)
LEMMA NumberIsSum ==
  ASSUME NEW s, NEW p \in Nat, NEW q \in Nat, p <= q, NEW radix \in Int
  PROVE  \E sum : IsSumOf(sum, s, p, q, radix) /\ NumberAt(s, p, q, radix) = sum[q]
  <1> DEFINE Sums(g) ==
               g = [k \in p..q |->
                      IF k = p THEN 0 ELSE g[k - 1] * radix + HexDigit(CharAt(s, k - 1))]
             n == q - p
             step == [x \in Int \X (1..n) |-> x[1] * radix + HexDigit(CharAt(s, p + x[2] - 1))]
             sum == CHOOSE g : Sums(g)
  <1>1. n \in Nat
    OBVIOUS
  <1>2. step \in [Int \X (1..n) -> Int]
    BY <1>1, HexDigitIsInt
  <1>3. PICK g : g \in Computations(Int, 0, n, step)
    <2> HIDE DEF step, n
    <2> QED
      BY <1>1, <1>2, ComputationExists
  <1>4. /\ g \in [0..n -> Int] /\ g[0] = 0
        /\ \A i \in 1..n : g[i] = g[i - 1] * radix + HexDigit(CharAt(s, p + i - 1))
    <2>1. g \in [0..n -> Int] /\ g[0] = 0 /\ \A i \in 1..n : g[i] = step[<<g[i - 1], i>>]
      BY <1>3 DEF Computations
    <2>2. \A i \in 1..n : g[i - 1] \in Int
      BY <1>1, <2>1
    <2> QED
      BY <2>1, <2>2
  <1> DEFINE h == [k \in p..q |-> g[k - p]]
  <1>5. Sums(h)
    <2>1. ASSUME NEW k \in p..q
          PROVE  h[k] = IF k = p THEN 0 ELSE h[k - 1] * radix + HexDigit(CharAt(s, k - 1))
      <3>1. CASE k = p
        BY <1>4, <3>1
      <3>2. CASE k # p
        <4>1. k - p \in 1..n /\ k - 1 \in p..q /\ (k - 1) - p = (k - p) - 1
              /\ p + (k - p) - 1 = k - 1
          BY <3>2
        <4> HIDE DEF n
        <4> QED
          BY <1>4, <3>2, <4>1
      <3> QED
        BY <3>1, <3>2
    <2> QED
      BY <2>1
  <1>6. Sums(sum)
    <2> HIDE DEF Sums, h
    <2> QED
      BY <1>5
  <1>7. NumberAt(s, p, q, radix) = sum[q]
    BY DEF NumberAt
  <1> HIDE DEF sum, n, step, h
  <1>8. sum[p] = 0 /\ \A k \in p + 1..q : sum[k] = sum[k - 1] * radix + HexDigit(CharAt(s, k - 1))
    BY <1>6
  <1>9. \A k \in p..q : sum[k] \in Int
    <2> DEFINE Bad == {k \in p..q : sum[k] \notin Int}
    <2> SUFFICES ASSUME Bad # {} PROVE FALSE
      OBVIOUS
    <2>1. PICK k \in Bad : \A m \in Bad : k <= m
      <3>1. Bad \in SUBSET Nat
        OBVIOUS
      <3> HIDE DEF Bad
      <3> QED
        BY <3>1, LeastNumber
    <2>2. k # p
      BY <1>8
    <2>3. k \in p + 1..q /\ k - 1 \in p..q /\ ~(k <= k - 1)
      BY <2>2
    <2>4. sum[k - 1] \in Int
      BY <2>1, <2>3
    <2> QED
      BY <1>8, <2>3, <2>4, HexDigitIsInt
  <1>10. sum \in [p..q -> Int]
    BY <1>6, <1>9
  <1>11. IsSumOf(sum, s, p, q, radix)
    BY <1>8, <1>10 DEF IsSumOf
  <1> QED
    BY <1>7, <1>11

(* Characters other than 0 end with the string.                            *)
LEMMA PastAllInside ==
  ASSUME NEW s \in Seq(0..255), NEW p \in 1..Len(s) + 1, NEW limit \in Nat, p <= limit,
         NEW codes, 0 \notin codes
  PROVE  PastAll(s, p, limit, codes) \in p..Len(s) + 1
  <1> DEFINE q == PastAll(s, p, limit, codes)
  <1>1. q \in p..limit /\ \A k \in p..q - 1 : CharAt(s, k) \in codes
    BY PastAllIs
  <1>0. Len(s) \in Nat /\ p \in Nat /\ q \in Int
    BY <1>1
  <1> HIDE DEF q
  <1>2. SUFFICES ASSUME q > Len(s) + 1 PROVE FALSE
    BY <1>0, <1>1 DEF q
  <1>3. Len(s) + 1 \in p..q - 1 /\ CharAt(s, Len(s) + 1) = 0
    BY <1>0, <1>1, <1>2 DEF CharAt
  <1> QED
    BY <1>1, <1>3

Chars == Seq(0..255)
DecodingResults == [out : Chars, bad : BOOLEAN, last : Int]

(* A string reads as one with a 0 after its end.                           *)
LEMMA CharAtIs ==
  ASSUME NEW s \in Chars, NEW p \in Nat, p >= 1
  PROVE  CharAt(s, p) \in 0..255 /\ (p > Len(s) => CharAt(s, p) = 0)
  <1>1. Len(s) \in Nat
    BY DEF Chars
  <1>2. CASE p <= Len(s)
    <2>1. p \in 1..Len(s)
      BY <1>1, <1>2
    <2>2. s[p] \in 0..255
      BY <2>1, ElementOfSeq DEF Chars
    <2> QED
      BY <1>1, <1>2, <2>2 DEF CharAt
  <1>3. CASE p > Len(s)
    BY <1>1, <1>3 DEF CharAt
  <1> QED
    BY <1>1, <1>2, <1>3

LEMMA NumberIsInt ==
  ASSUME NEW s, NEW p \in Nat, NEW q \in Nat, p <= q, NEW radix \in Int
  PROVE  NumberAt(s, p, q, radix) \in Int
  <1>1. PICK sum : IsSumOf(sum, s, p, q, radix) /\ NumberAt(s, p, q, radix) = sum[q]
    BY NumberIsSum
  <1>2. q \in p..q
    OBVIOUS
  <1> QED
    BY <1>1, <1>2 DEF IsSumOf

LEMMA AsCharIs ==
  ASSUME NEW n \in Int
  PROVE  AsChar(n) \in Chars
  <1>1. n % 256 \in 0..255
    OBVIOUS
  <1> QED
    BY <1>1 DEF AsChar, Chars

(* The arms of the decoder of an escape sequence, one for each character.   *)
OctalEnd(s, p) == PastAll(s, p, p + 3, OctalDigits)
HexEnd(s, p) == PastAll(s, p + 1, Len(s) + 2, HexDigits)
Octal(s, p) == NumberAt(s, p, OctalEnd(s, p), 8)
Hex(s, p) == NumberAt(s, p + 1, HexEnd(s, p), 16)

(* What an escape sequence stands for, by the character after its          *)
(* backslash.                                                              *)
LEMMA EscapeArms ==
  ASSUME NEW s, NEW p
  PROVE  /\ CharAt(s, p) = 0 =>
              EscapeSequence(s, p) = [out |-> <<Backslash>>, next |-> p, bad |-> TRUE]
         /\ CharAt(s, p) \in OctalDigits =>
              EscapeSequence(s, p) =
                [out |-> AsChar(Octal(s, p)), next |-> OctalEnd(s, p), bad |-> Octal(s, p) > 255]
         /\ CharAt(s, p) \in {39, Quote, 63, Backslash} =>
              EscapeSequence(s, p) = [out |-> <<CharAt(s, p)>>, next |-> p + 1, bad |-> FALSE]
         /\ CharAt(s, p) \in DOMAIN Simple =>
              EscapeSequence(s, p) =
                [out |-> <<Simple[CharAt(s, p)]>>, next |-> p + 1, bad |-> FALSE]
         /\ CharAt(s, p) = LetterX =>
              EscapeSequence(s, p) =
                IF HexEnd(s, p) = p + 1 THEN [out |-> <<>>, next |-> p + 1, bad |-> TRUE]
                ELSE [out |-> AsChar(Hex(s, p)), next |-> HexEnd(s, p), bad |-> Hex(s, p) > 255]
         /\ /\ CharAt(s, p) # 0 /\ CharAt(s, p) \notin OctalDigits
            /\ CharAt(s, p) \notin {39, Quote, 63, Backslash}
            /\ CharAt(s, p) \notin DOMAIN Simple /\ CharAt(s, p) # LetterX
            => EscapeSequence(s, p) = [out |-> <<CharAt(s, p)>>, next |-> p + 1, bad |-> TRUE]
  <1> DEFINE c == CharAt(s, p)
             octalEnd == OctalEnd(s, p)
             octal == Octal(s, p)
             hexEnd == HexEnd(s, p)
             hex == Hex(s, p)
  <1> HIDE DEF c, octalEnd, octal, hexEnd, hex
  <1>1. EscapeSequence(s, p) =
          CASE c = 0 -> [out |-> <<Backslash>>, next |-> p, bad |-> TRUE]
            [] c \in OctalDigits ->
                 [out |-> AsChar(octal), next |-> octalEnd, bad |-> octal > 255]
            [] c \in {39, Quote, 63, Backslash} ->
                 [out |-> <<c>>, next |-> p + 1, bad |-> FALSE]
            [] c \in DOMAIN Simple -> [out |-> <<Simple[c]>>, next |-> p + 1, bad |-> FALSE]
            [] c = LetterX /\ hexEnd = p + 1 -> [out |-> <<>>, next |-> p + 1, bad |-> TRUE]
            [] c = LetterX /\ hexEnd # p + 1 ->
                 [out |-> AsChar(hex), next |-> hexEnd, bad |-> hex > 255]
            [] OTHER -> [out |-> <<c>>, next |-> p + 1, bad |-> TRUE]
    BY DEF EscapeSequence, c, octalEnd, octal, hexEnd, hex, OctalEnd, Octal, HexEnd, Hex
  <1>2. /\ c = 0 => /\ c \notin OctalDigits /\ c \notin {39, Quote, 63, Backslash}
                    /\ c \notin DOMAIN Simple /\ c # LetterX
        /\ c \in OctalDigits => /\ c # 0 /\ c \notin {39, Quote, 63, Backslash}
                                /\ c \notin DOMAIN Simple /\ c # LetterX
        /\ c \in {39, Quote, 63, Backslash} =>
             c # 0 /\ c \notin OctalDigits /\ c \notin DOMAIN Simple /\ c # LetterX
        /\ c \in DOMAIN Simple => /\ c # 0 /\ c \notin OctalDigits /\ c # LetterX
                                  /\ c \notin {39, Quote, 63, Backslash}
        /\ c = LetterX => /\ c # 0 /\ c \notin OctalDigits /\ c \notin DOMAIN Simple
                          /\ c \notin {39, Quote, 63, Backslash}
    BY DEF OctalDigits, Quote, Backslash, Simple, LetterX
  <1>3. c = 0 => EscapeSequence(s, p) = [out |-> <<Backslash>>, next |-> p, bad |-> TRUE]
    BY <1>1, <1>2
  <1>4. c \in OctalDigits =>
          EscapeSequence(s, p) = [out |-> AsChar(octal), next |-> octalEnd, bad |-> octal > 255]
    BY <1>1, <1>2
  <1>5. c \in {39, Quote, 63, Backslash} =>
          EscapeSequence(s, p) = [out |-> <<c>>, next |-> p + 1, bad |-> FALSE]
    BY <1>1, <1>2
  <1>6. c \in DOMAIN Simple =>
          EscapeSequence(s, p) = [out |-> <<Simple[c]>>, next |-> p + 1, bad |-> FALSE]
    BY <1>1, <1>2
  <1>7. c = LetterX =>
          EscapeSequence(s, p) =
            IF hexEnd = p + 1 THEN [out |-> <<>>, next |-> p + 1, bad |-> TRUE]
            ELSE [out |-> AsChar(hex), next |-> hexEnd, bad |-> hex > 255]
    BY <1>1, <1>2
  <1>8. /\ c # 0 /\ c \notin OctalDigits /\ c \notin {39, Quote, 63, Backslash}
        /\ c \notin DOMAIN Simple /\ c # LetterX
        => EscapeSequence(s, p) = [out |-> <<c>>, next |-> p + 1, bad |-> TRUE]
    BY <1>1
  <1> QED
    BY <1>3, <1>4, <1>5, <1>6, <1>7, <1>8 DEF c, octalEnd, octal, hexEnd, hex

(* An escape sequence ends inside the string, be it right or wrong.        *)
LEMMA EscapeIs ==
  ASSUME NEW s \in Chars, NEW p \in 1..Len(s) + 1
  PROVE  EscapeSequence(s, p) \in [out : Chars, next : p..Len(s) + 1, bad : BOOLEAN]
  <1> DEFINE c == CharAt(s, p)
             octalEnd == OctalEnd(s, p)
             octal == Octal(s, p)
             hexEnd == HexEnd(s, p)
             hex == Hex(s, p)
             E == [out : Chars, next : p..Len(s) + 1, bad : BOOLEAN]
  <1>1. Len(s) \in Nat /\ p \in Nat /\ p <= Len(s) + 1
    BY DEF Chars
  <1>2. c \in 0..255 /\ (c # 0 => p <= Len(s))
    BY <1>1, CharAtIs
  <1>3. octalEnd \in p..Len(s) + 1 /\ AsChar(octal) \in Chars /\ (octal > 255) \in BOOLEAN
    <2>1. 0 \notin OctalDigits /\ p + 3 \in Nat /\ p <= p + 3
      BY <1>1 DEF OctalDigits
    <2>2. octalEnd \in p..Len(s) + 1
      BY <2>1, PastAllInside DEF Chars, OctalEnd
    <2> HIDE DEF octalEnd
    <2>3. octal \in Int
      BY <1>1, <2>2, NumberIsInt DEF Octal, Hex, octalEnd, hexEnd
    <2> HIDE DEF octal
    <2> QED
      BY <2>2, <2>3, AsCharIs
  <1>4. p <= Len(s) => /\ hexEnd \in p + 1..Len(s) + 1 /\ AsChar(hex) \in Chars
                       /\ (hex > 255) \in BOOLEAN
    <2> SUFFICES ASSUME p <= Len(s)
                 PROVE  /\ hexEnd \in p + 1..Len(s) + 1 /\ AsChar(hex) \in Chars
                        /\ (hex > 255) \in BOOLEAN
      OBVIOUS
    <2>1. /\ 0 \notin HexDigits /\ Len(s) + 2 \in Nat /\ p + 1 <= Len(s) + 2
          /\ p + 1 \in 1..Len(s) + 1
      BY <1>1 DEF HexDigits
    <2>2. hexEnd \in p + 1..Len(s) + 1
      BY <2>1, PastAllInside DEF Chars, HexEnd
    <2> HIDE DEF hexEnd
    <2>3. hex \in Int
      BY <1>1, <2>2, NumberIsInt DEF Octal, Hex, octalEnd, hexEnd
    <2> HIDE DEF hex
    <2> QED
      BY <2>2, <2>3, AsCharIs
  <1>5. \A x \in 0..255 : <<x>> \in Chars
    BY DEF Chars
  <1>6. <<>> \in Chars
    BY EmptySeq DEF Chars
  <1>7. \A x \in DOMAIN Simple : Simple[x] \in 0..255
    BY DEF Simple
  <1>8. \A o \in Chars, n \in p..Len(s) + 1, b \in BOOLEAN :
          [out |-> o, next |-> n, bad |-> b] \in E
    OBVIOUS
  <1> HIDE DEF c, octalEnd, octal, hexEnd, hex, E
  <1>9. p \in p..Len(s) + 1 /\ (c # 0 => p + 1 \in p..Len(s) + 1)
    BY <1>1, <1>2
  <1>10. CASE c = 0
    <2>1. <<Backslash>> \in Chars
      BY <1>5 DEF Backslash
    <2>2. EscapeSequence(s, p) = [out |-> <<Backslash>>, next |-> p, bad |-> TRUE]
      BY <1>10, EscapeArms DEF c
    <2> QED
      BY <1>8, <1>9, <2>1, <2>2 DEF E
  <1>11. CASE c \in OctalDigits
    <2>1. EscapeSequence(s, p) =
            [out |-> AsChar(octal), next |-> octalEnd, bad |-> octal > 255]
      BY <1>11, EscapeArms DEF c, octal, octalEnd
    <2> QED
      BY <1>3, <1>8, <2>1 DEF E
  <1>12. CASE c \in {39, Quote, 63, Backslash}
    <2>1. EscapeSequence(s, p) = [out |-> <<c>>, next |-> p + 1, bad |-> FALSE]
      BY <1>12, EscapeArms DEF c
    <2>2. c # 0
      BY <1>12 DEF Quote, Backslash
    <2> QED
      BY <1>2, <1>5, <1>8, <1>9, <2>1, <2>2 DEF E
  <1>13. CASE c \in DOMAIN Simple
    <2>1. EscapeSequence(s, p) = [out |-> <<Simple[c]>>, next |-> p + 1, bad |-> FALSE]
      BY <1>13, EscapeArms DEF c
    <2>2. c # 0
      BY <1>13 DEF Simple
    <2> QED
      BY <1>5, <1>7, <1>8, <1>9, <1>13, <2>1, <2>2 DEF E
  <1>14. CASE c = LetterX
    <2>1. EscapeSequence(s, p) =
            IF hexEnd = p + 1 THEN [out |-> <<>>, next |-> p + 1, bad |-> TRUE]
            ELSE [out |-> AsChar(hex), next |-> hexEnd, bad |-> hex > 255]
      BY <1>14, EscapeArms DEF c, hex, hexEnd
    <2>2. c # 0
      BY <1>14 DEF LetterX
    <2>3. hexEnd \in p..Len(s) + 1
      BY <1>1, <1>2, <1>4, <2>2
    <2> QED
      BY <1>1, <1>2, <1>4, <1>6, <1>8, <1>9, <2>1, <2>2, <2>3 DEF E
  <1>15. CASE /\ c # 0 /\ c \notin OctalDigits /\ c \notin {39, Quote, 63, Backslash}
              /\ c \notin DOMAIN Simple /\ c # LetterX
    <2>1. EscapeSequence(s, p) = [out |-> <<c>>, next |-> p + 1, bad |-> TRUE]
      BY <1>15, EscapeArms DEF c
    <2> QED
      BY <1>2, <1>5, <1>8, <1>9, <1>15, <2>1 DEF E
  <1> QED
    BY <1>10, <1>11, <1>12, <1>13, <1>14, <1>15 DEF E

(* A text is prepended to what is read later.                              *)
Joined(o, b, r) == [r EXCEPT !.out = o \o @, !.bad = b \/ @]

(* What is prepended does not change the last place that is read.          *)
LEMMA JoinedIs ==
  ASSUME NEW r \in DecodingResults, NEW o \in Chars, NEW b \in BOOLEAN
  PROVE  /\ Joined(o, b, r) \in DecodingResults
         /\ Joined(o, b, r).out = o \o r.out
         /\ Joined(o, b, r).bad = (b \/ r.bad)
         /\ Joined(o, b, r).last = r.last
  <1>1. r.out \in Chars /\ r.bad \in BOOLEAN /\ r.last \in Int
        /\ DOMAIN r = {"out", "bad", "last"}
    BY DEF DecodingResults
  <1>2. o \o r.out \in Chars
    BY <1>1, ConcatProperties DEF Chars
  <1>3. Joined(o, b, r).out = o \o r.out
    BY <1>1 DEF Joined
  <1>4. Joined(o, b, r).bad = (b \/ r.bad)
    BY <1>1 DEF Joined
  <1>5. Joined(o, b, r).last = r.last
    BY <1>1 DEF Joined
  <1>6. Joined(o, b, r) \in DecodingResults
    <2>1. r \in [out : Chars, bad : BOOLEAN, last : Int]
      BY DEF DecodingResults
    <2> QED
      BY <1>2, <2>1 DEF Joined, DecodingResults
  <1> QED
    BY <1>3, <1>4, <1>5, <1>6

(* Where the decoder ends, or goes on later, with a text prepended or not. *)
DecoderEnds(s, p) ==
  \E r \in DecodingResults :
    /\ r.last \in 1..Len(s) + 1 \/ r.last = p
    /\ \A f : Decoding(s, p, f) = r

DecoderSkips(s, p, q) == \A f : Decoding(s, p, f) = f[q]
DecoderGoesOn(s, p, o, b, q) == \A f : Decoding(s, p, f) = Joined(o, b, f[q])

(* At every place the decoder ends, or goes on at a later place, which is  *)
(* not past the end.                                                       *)
LEMMA DecodingIs ==
  ASSUME NEW s \in Chars, NEW p \in 1..Len(s) + 2
  PROVE  \/ DecoderEnds(s, p)
         \/ \E q \in p + 1..Len(s) + 1 : DecoderSkips(s, p, q)
         \/ \E o \in Chars, b \in BOOLEAN, q \in p + 1..Len(s) + 1 : DecoderGoesOn(s, p, o, b, q)
  <1> DEFINE c == CharAt(s, p)
             escape == EscapeSequence(s, p + 1)
             next == PastAll(s, p + 1, Len(s) + 2, 1..32)
             terminator == PastAll(s, p, Len(s) + 2, 1..255)
             Cut(q) == [out |-> <<>>, bad |-> TRUE, last |-> q]
             End(q) == [out |-> <<>>, bad |-> FALSE, last |-> q]
  <1>1. Len(s) \in Nat /\ p \in Nat /\ p >= 1 /\ p <= Len(s) + 2
    BY DEF Chars
  <1>2. c \in 0..255 /\ (c # 0 => p <= Len(s))
    BY <1>1, CharAtIs
  <1>3. \A q \in Int : Cut(q) \in DecodingResults /\ End(q) \in DecodingResults
    BY EmptySeq DEF Chars, DecodingResults
  <1> HIDE DEF c, escape, next, terminator
  <1>4. \A f : Decoding(s, p, f) =
          CASE c = 0 -> Cut(p)
            [] c = Quote /\ CharAt(s, next) = 0 -> End(next)
            [] c = Quote /\ CharAt(s, next) = Quote -> f[next + 1]
            [] c = Quote /\ CharAt(s, next) \notin {0, Quote} ->
                 Joined(SubSeq(s, next, terminator - 1), TRUE, Cut(terminator))
            [] c = Backslash -> Joined(escape.out, escape.bad, f[escape.next])
            [] OTHER -> Joined(<<c>>, c < 128 /\ ~IsAsciiPrintable(c), f[p + 1])
    BY DEF Decoding, Joined, c, escape, next, terminator
  <1> HIDE DEF Cut, End
  <1>6. Quote = 34 /\ Backslash = 92
    BY DEF Quote, Backslash
  <1>7. CASE c = 0
    <2>0. c # Quote /\ c # Backslash
      BY <1>6, <1>7
    <2>1. \A f : Decoding(s, p, f) = Cut(p)
      BY <1>4, <1>6, <1>7, <2>0, Zenon
    <2>2. Cut(p).last = p
      BY DEF Cut
    <2> QED
      BY <1>1, <1>3, <2>1, <2>2 DEF DecoderEnds
  <1>8. CASE c = Quote
    <2>0. Quote # 0 /\ Quote # Backslash
      BY <1>6
    <2>1. p <= Len(s) /\ p + 1 \in 1..Len(s) + 1
      BY <1>1, <1>2, <1>6, <1>8
    <2>2. next \in p + 1..Len(s) + 1
      <3>1. 0 \notin 1..32 /\ p + 1 <= Len(s) + 2 /\ Len(s) + 2 \in Nat
        BY <1>1, <2>1
      <3> QED
        BY <2>1, <3>1, PastAllInside DEF Chars, next
    <2>3. CharAt(s, next) \in 0..255 /\ (CharAt(s, next) # 0 => next <= Len(s))
      BY <1>1, <2>2, CharAtIs
    <2>4. CASE CharAt(s, next) = 0
      <3>1. \A f : Decoding(s, p, f) = End(next)
        BY <1>4, <1>8, <2>0, <2>4, Zenon
      <3>2. End(next).last = next /\ next \in 1..Len(s) + 1 /\ next \in Int
        BY <1>1, <2>2 DEF End
      <3> QED
        BY <1>3, <3>1, <3>2 DEF DecoderEnds
    <2>5. CASE CharAt(s, next) = Quote
      <3>1. next + 1 \in p + 1..Len(s) + 1 /\ next + 1 \in 1..Len(s) + 2
        BY <1>1, <1>6, <2>2, <2>3, <2>5
      <3>2. DecoderSkips(s, p, next + 1)
        BY <1>4, <1>8, <2>0, <2>5, Zenon DEF DecoderSkips
      <3> QED
        BY <3>1, <3>2
    <2>6. CASE CharAt(s, next) \notin {0, Quote}
      <3>1. terminator \in p..Len(s) + 1
        <4>1. 0 \notin 1..255 /\ p <= Len(s) + 2 /\ Len(s) + 2 \in Nat /\ p \in 1..Len(s) + 1
          BY <1>1, <2>1
        <4> QED
          BY <4>1, PastAllInside DEF Chars, terminator
      <3>2. SubSeq(s, next, terminator - 1) \in Chars
        <4>1. \A k \in next..terminator - 1 : s[k] \in 0..255
          <5> TAKE k \in next..terminator - 1
          <5>1. k \in 1..Len(s)
            BY <1>1, <2>2, <3>1
          <5> QED
            BY <5>1, ElementOfSeq DEF Chars
        <4>2. next \in Int /\ terminator - 1 \in Int
          BY <1>1, <2>2, <3>1
        <4> QED
          BY <4>1, <4>2, SubSeqProperties DEF Chars
      <3> DEFINE r == Joined(SubSeq(s, next, terminator - 1), TRUE, Cut(terminator))
      <3>3. terminator \in Int /\ terminator \in 1..Len(s) + 1
        BY <1>1, <3>1
      <3>4. r \in DecodingResults /\ r.last = terminator
        <4>1. Cut(terminator) \in DecodingResults /\ Cut(terminator).last = terminator
          BY <1>3, <3>3 DEF Cut
        <4> QED
          BY <3>2, <4>1, JoinedIs
      <3>5. \A f : Decoding(s, p, f) = r
        BY <1>4, <1>8, <2>0, <2>6, Zenon
      <3> HIDE DEF r
      <3> QED
        BY <3>3, <3>4, <3>5 DEF DecoderEnds
    <2> QED
      BY <2>4, <2>5, <2>6
  <1>9. CASE c = Backslash
    <2>1. p <= Len(s) /\ p + 1 \in 1..Len(s) + 1
      BY <1>1, <1>2, <1>6, <1>9
    <2>2. escape \in [out : Chars, next : p + 1..Len(s) + 1, bad : BOOLEAN]
      BY <2>1, EscapeIs DEF escape
    <2>3. escape.out \in Chars /\ escape.next \in p + 1..Len(s) + 1 /\ escape.bad \in BOOLEAN
      BY <2>2
    <2>4. DecoderGoesOn(s, p, escape.out, escape.bad, escape.next)
      <3>1. c # 0 /\ c # Quote
        BY <1>6, <1>9
      <3> QED
        BY <1>4, <1>9, <3>1, Zenon DEF DecoderGoesOn
    <2> QED
      BY <2>3, <2>4
  <1>10. CASE c # 0 /\ c # Quote /\ c # Backslash
    <2> DEFINE b == c < 128 /\ ~IsAsciiPrintable(c)
    <2>1. b \in BOOLEAN /\ <<c>> \in Chars /\ p + 1 \in p + 1..Len(s) + 1
      BY <1>1, <1>2, <1>10 DEF Chars
    <2>2. DecoderGoesOn(s, p, <<c>>, b, p + 1)
      BY <1>4, <1>10, Zenon DEF DecoderGoesOn
    <2> HIDE DEF b
    <2> QED
      BY <2>1, <2>2
  <1> QED
    BY <1>7, <1>8, <1>9, <1>10

(* What the decoder finds at each place exists, is typed and ends inside.  *)
IsDecoder(s, from) ==
  /\ from \in [1..Len(s) + 2 -> DecodingResults]
  /\ \A p \in 1..Len(s) + 2 : from[p] = Decoding(s, p, from)

LEMMA DecoderExists ==
  ASSUME NEW s \in Chars
  PROVE  \E from : IsDecoder(s, from)
  <1> DEFINE n == Len(s) + 2
             F == [1..n -> DecodingResults]
             step == [x \in (1..n) \X F |-> Decoding(s, x[1], x[2])]
  <1>1. n \in Nat /\ n = Len(s) + 2 /\ Len(s) \in Nat
    BY DEF Chars
  <1>2. [out |-> <<>>, bad |-> TRUE, last |-> 1] \in DecodingResults
    BY EmptySeq DEF Chars, DecodingResults
  <1>3. \A p \in 1..n, f \in F : Decoding(s, p, f) \in DecodingResults
    <2> SUFFICES ASSUME NEW p \in 1..n, NEW f \in F
                 PROVE  Decoding(s, p, f) \in DecodingResults
      OBVIOUS
    <2>1. CASE DecoderEnds(s, p)
      BY <2>1 DEF DecoderEnds
    <2>2. ASSUME NEW q \in p + 1..Len(s) + 1, DecoderSkips(s, p, q)
          PROVE  Decoding(s, p, f) \in DecodingResults
      BY <1>1, <2>2 DEF DecoderSkips
    <2>3. ASSUME NEW o \in Chars, NEW b \in BOOLEAN, NEW q \in p + 1..Len(s) + 1,
                 DecoderGoesOn(s, p, o, b, q)
          PROVE  Decoding(s, p, f) \in DecodingResults
      <3>1. f[q] \in DecodingResults
        BY <1>1
      <3> QED
        BY <2>3, <3>1, JoinedIs DEF DecoderGoesOn
    <2> QED
      BY <2>1, <2>2, <2>3, DecodingIs
  <1>4. ASSUME NEW p \in 1..n, NEW f \in F, NEW g \in F, \A q \in p + 1..n : f[q] = g[q]
        PROVE  Decoding(s, p, f) = Decoding(s, p, g)
    <2>1. CASE DecoderEnds(s, p)
      BY <2>1 DEF DecoderEnds
    <2>2. ASSUME NEW q \in p + 1..Len(s) + 1, DecoderSkips(s, p, q)
          PROVE  Decoding(s, p, f) = Decoding(s, p, g)
      BY <1>1, <1>4, <2>2 DEF DecoderSkips
    <2>3. ASSUME NEW o \in Chars, NEW b \in BOOLEAN, NEW q \in p + 1..Len(s) + 1,
                 DecoderGoesOn(s, p, o, b, q)
          PROVE  Decoding(s, p, f) = Decoding(s, p, g)
      <3>1. f[q] = g[q]
        BY <1>1, <1>4
      <3> QED
        BY <2>3, <3>1 DEF DecoderGoesOn
    <2> QED
      BY <2>1, <2>2, <2>3, DecodingIs
  <1> HIDE DEF n
  <1>5. step \in [(1..n) \X F -> DecodingResults]
    BY <1>3
  <1>6. \A p \in 1..n, f \in F : step[<<p, f>>] = Decoding(s, p, f)
    OBVIOUS
  <1> HIDE DEF step
  <1>7. \A p \in 1..n, f \in F, g \in F :
          (\A q \in p + 1..n : f[q] = g[q]) => step[<<p, f>>] = step[<<p, g>>]
    <2> SUFFICES ASSUME NEW p \in 1..n, NEW f \in F, NEW g \in F,
                        \A q \in p + 1..n : f[q] = g[q]
                 PROVE  step[<<p, f>>] = step[<<p, g>>]
      OBVIOUS
    <2>1. step[<<p, f>>] = Decoding(s, p, f) /\ step[<<p, g>>] = Decoding(s, p, g)
      BY <1>6
    <2>2. Decoding(s, p, f) = Decoding(s, p, g)
      BY <1>4
    <2> QED
      BY <2>1, <2>2
  <1>8. LooksAhead(DecodingResults, n, step)
    BY <1>5, <1>7 DEF LooksAhead
  <1>9. PICK from : from \in Recursions(DecodingResults, n, step)
    BY <1>1, <1>2, <1>8, RecursionExists
  <1>10. from \in F /\ \A p \in 1..n : from[p] = step[<<p, from>>]
    BY <1>9 DEF Recursions
  <1> QED
    BY <1>1, <1>6, <1>10 DEF IsDecoder

(* What decodeEscapedString() returns is the value of such a function.     *)
LEMMA DecodedIs ==
  ASSUME NEW s \in Chars
  PROVE  \E from :
           /\ IsDecoder(s, from)
           /\ Decoded(s) = IF CharAt(s, 1) = Quote THEN from[2]
                           ELSE [out |-> s, bad |-> TRUE, last |-> 1]
  <1> DEFINE n == Len(s) + 2
             Decodes(f) == f = [p \in 1..n |-> Decoding(s, p, f)]
             from == CHOOSE f : Decodes(f)
  <1>1. n \in Nat /\ n = Len(s) + 2 /\ Len(s) \in Nat
    BY DEF Chars
  <1>2. Decodes(from)
    <2>1. PICK f : IsDecoder(s, f)
      BY DecoderExists
    <2>2. Decodes(f)
      BY <2>1 DEF IsDecoder
    <2> HIDE DEF Decodes
    <2> QED
      BY <2>2
  <1>3. Decoded(s) = IF CharAt(s, 1) = Quote THEN from[2]
                     ELSE [out |-> s, bad |-> TRUE, last |-> 1]
    BY DEF Decoded
  <1> HIDE DEF from
  <1>4. \A p \in 1..n : from[p] = Decoding(s, p, from)
    BY <1>2
  <1>5. \A p \in 1..n : from[p] \in DecodingResults
    <2> DEFINE Bad == {p \in 1..n : from[p] \notin DecodingResults}
    <2> SUFFICES ASSUME Bad # {} PROVE FALSE
      OBVIOUS
    <2>1. PICK p \in Bad : \A q \in Bad : q <= p
      <3>1. Bad \in SUBSET (0..n)
        BY <1>1
      <3> HIDE DEF Bad, n
      <3> QED
        BY <1>1, <3>1, GreatestNumber
    <2>2. p \in 1..n /\ \A q \in p + 1..n : from[q] \in DecodingResults
      BY <1>1, <2>1
    <2>3. Decoding(s, p, from) \in DecodingResults
      <3>1. CASE DecoderEnds(s, p)
        BY <3>1 DEF DecoderEnds
      <3>2. ASSUME NEW q \in p + 1..Len(s) + 1, DecoderSkips(s, p, q)
            PROVE  Decoding(s, p, from) \in DecodingResults
        BY <1>1, <2>2, <3>2 DEF DecoderSkips
      <3>3. ASSUME NEW o \in Chars, NEW b \in BOOLEAN, NEW q \in p + 1..Len(s) + 1,
                   DecoderGoesOn(s, p, o, b, q)
            PROVE  Decoding(s, p, from) \in DecodingResults
        <4>1. from[q] \in DecodingResults
          BY <1>1, <2>2
        <4> QED
          BY <3>3, <4>1, JoinedIs DEF DecoderGoesOn
      <3> QED
        BY <2>2, <3>1, <3>2, <3>3, DecodingIs
    <2> QED
      BY <1>4, <2>1, <2>2, <2>3
  <1>6. from \in [1..n -> DecodingResults]
    BY <1>2, <1>5
  <1>7. IsDecoder(s, from)
    BY <1>4, <1>6 DEF IsDecoder
  <1> QED
    BY <1>3, <1>7

(* The last place that is read is the terminating 0 at most.               *)
LEMMA DecoderEndsInside ==
  ASSUME NEW s \in Chars, NEW from, IsDecoder(s, from)
  PROVE  \A p \in 1..Len(s) + 1 : from[p].last <= Len(s) + 1
  <1> DEFINE n == Len(s) + 1
             Bad == {p \in 1..n : ~(from[p].last <= n)}
  <1> SUFFICES ASSUME Bad # {} PROVE FALSE
    OBVIOUS
  <1>1. n \in Nat /\ n = Len(s) + 1 /\ Len(s) \in Nat
    BY DEF Chars
  <1>2. PICK p \in Bad : \A q \in Bad : q <= p
    <2>1. Bad \in SUBSET (0..n)
      BY <1>1
    <2> HIDE DEF Bad, n
    <2> QED
      BY <1>1, <2>1, GreatestNumber
  <1>3. p \in 1..n /\ \A q \in p + 1..n : from[q].last <= n
    BY <1>1, <1>2
  <1>4. /\ \A q \in 1..n : from[q] \in DecodingResults
        /\ from[p] = Decoding(s, p, from) /\ p \in 1..Len(s) + 2
    BY <1>1, <1>3 DEF IsDecoder
  <1>5. Decoding(s, p, from).last <= n
    <2>1. CASE DecoderEnds(s, p)
      BY <1>1, <1>3, <2>1 DEF DecoderEnds
    <2>2. ASSUME NEW q \in p + 1..Len(s) + 1, DecoderSkips(s, p, q)
          PROVE  Decoding(s, p, from).last <= n
      BY <1>1, <1>3, <2>2 DEF DecoderSkips
    <2>3. ASSUME NEW o \in Chars, NEW b \in BOOLEAN, NEW q \in p + 1..Len(s) + 1,
                 DecoderGoesOn(s, p, o, b, q)
          PROVE  Decoding(s, p, from).last <= n
      <3>1. from[q] \in DecodingResults /\ from[q].last <= n
        BY <1>1, <1>3, <1>4
      <3> QED
        BY <2>3, <3>1, JoinedIs DEF DecoderGoesOn
    <2> QED
      BY <1>4, <2>1, <2>2, <2>3, DecodingIs
  <1> QED
    BY <1>2, <1>4, <1>5

(* The decoder never reads past the end of a string.                       *)
LEMMA DecodedStaysInside ==
  ASSUME NEW s \in Chars
  PROVE  Decoded(s).last <= Len(s) + 1
  <1>1. PICK from :
          /\ IsDecoder(s, from)
          /\ Decoded(s) = IF CharAt(s, 1) = Quote THEN from[2]
                          ELSE [out |-> s, bad |-> TRUE, last |-> 1]
    BY DecodedIs
  <1>2. Len(s) \in Nat
    BY DEF Chars
  <1>3. CASE CharAt(s, 1) = Quote
    <2>1. 2 \in 1..Len(s) + 1
      BY <1>2, <1>3 DEF CharAt, Quote
    <2> QED
      BY <1>1, <1>3, <2>1, DecoderEndsInside
  <1>4. CASE CharAt(s, 1) # Quote
    BY <1>1, <1>2, <1>4
  <1> QED
    BY <1>3, <1>4

----------------------------------------------------------------------------
(* A sequence of sequences, made flat.                                     *)
IsFlat(flat, T, seqs) ==
  /\ flat \in [0..Len(seqs) -> Seq(T)] /\ flat[0] = <<>>
  /\ \A i \in 1..Len(seqs) : flat[i] = flat[i - 1] \o seqs[i]

(* The sequences before each one, one after another.                       *)
LEMMA FlatExists ==
  ASSUME NEW T, NEW seqs \in Seq(Seq(T))
  PROVE  \E flat : IsFlat(flat, T, seqs)
  <1> DEFINE n == Len(seqs)
             step == [x \in Seq(T) \X (1..n) |-> x[1] \o seqs[x[2]]]
  <1>1. n \in Nat /\ <<>> \in Seq(T)
    BY EmptySeq
  <1>2. step \in [Seq(T) \X (1..n) -> Seq(T)]
    <2>1. \A i \in 1..n : seqs[i] \in Seq(T)
      BY ElementOfSeq
    <2>2. \A x \in Seq(T) \X (1..n) : x[1] \o seqs[x[2]] \in Seq(T)
      BY <2>1, ConcatProperties
    <2> QED
      BY <2>2
  <1>3. PICK g : g \in Computations(Seq(T), <<>>, n, step)
    <2> HIDE DEF step, n
    <2> QED
      BY <1>1, <1>2, ComputationExists
  <1>4. g \in [0..n -> Seq(T)] /\ g[0] = <<>> /\ \A i \in 1..n : g[i] = step[<<g[i - 1], i>>]
    BY <1>3 DEF Computations
  <1>5. \A i \in 1..n : g[i - 1] \in Seq(T)
    <2>1. \A i \in 1..n : i - 1 \in 0..n
      BY <1>1
    <2> QED
      BY <1>4, <2>1
  <1>6. \A i \in 1..n : g[i] = g[i - 1] \o seqs[i]
    BY <1>4, <1>5
  <1> QED
    BY <1>4, <1>6 DEF IsFlat

(* The library's operator computes it.                                     *)
LEMMA FlattenSeqIs ==
  ASSUME NEW T, NEW seqs \in Seq(Seq(T))
  PROVE  \E flat : IsFlat(flat, T, seqs) /\ FlattenSeq(seqs) = flat[Len(seqs)]
  <1> DEFINE n == Len(seqs)
             Flattens(f) ==
               f = [i \in 1..n |-> IF i = 1 THEN seqs[i] ELSE f[i - 1] \o seqs[i]]
             flatten == CHOOSE f : Flattens(f)
  <1>1. n \in Nat /\ <<>> \in Seq(T) /\ \A i \in 1..n : seqs[i] \in Seq(T)
    BY EmptySeq, ElementOfSeq
  <1>2. PICK flat : IsFlat(flat, T, seqs)
    BY FlatExists
  <1>3. CASE n = 0
    <2>1. FlattenSeq(seqs) = seqs /\ seqs = <<>>
      BY <1>3 DEF FlattenSeq
    <2> QED
      BY <1>2, <1>3, <2>1 DEF IsFlat
  <1>4. CASE n # 0
    <2>1. FlattenSeq(seqs) = flatten[n]
      BY <1>4 DEF FlattenSeq
    <2>2. Flattens([i \in 1..n |-> flat[i]])
      <3>1. flat[0] = <<>> /\ \A i \in 1..n : flat[i] = flat[i - 1] \o seqs[i]
        BY <1>2 DEF IsFlat
      <3>2. flat[0] \o seqs[1] = seqs[1]
        BY <1>1, <1>4, <3>1, ConcatEmptySeq
      <3>3. \A i \in 1..n : flat[i] = IF i = 1 THEN seqs[i] ELSE flat[i - 1] \o seqs[i]
        <4> TAKE i \in 1..n
        <4>1. CASE i = 1
          <5>1. flat[i] = flat[i - 1] \o seqs[i]
            BY <3>1, Zenon
          <5>2. i - 1 = 0
            BY <4>1
          <5>3. flat[i] = flat[0] \o seqs[1]
            BY <4>1, <5>1, <5>2, Zenon
          <5> QED
            BY <3>2, <4>1, <5>3, Zenon
        <4>2. CASE i # 1
          BY <3>1, <4>2
        <4> QED
          BY <4>1, <4>2
      <3>4. \A i \in 1..n : i # 1 => i - 1 \in 1..n
        BY <1>1
      <3> QED
        BY <3>3, <3>4
    <2>3. Flattens(flatten)
      <3> HIDE DEF Flattens
      <3> QED
        BY <2>2
    <2> HIDE DEF flatten
    <2>4. \A i \in 1..n : flatten[i] = IF i = 1 THEN seqs[i] ELSE flatten[i - 1] \o seqs[i]
      BY <2>3
    <2> DEFINE all == [i \in 0..n |-> IF i = 0 THEN <<>> ELSE flatten[i]]
    <2>5. \A i \in 1..n : flatten[i] \in Seq(T)
      <3> DEFINE Bad == {i \in 1..n : flatten[i] \notin Seq(T)}
      <3> SUFFICES ASSUME Bad # {} PROVE FALSE
        OBVIOUS
      <3>1. PICK i \in Bad : \A m \in Bad : i <= m
        <4>1. Bad \in SUBSET Nat
          BY <1>1
        <4> HIDE DEF Bad
        <4> QED
          BY <4>1, LeastNumber
      <3>2. i \in 1..n /\ (i # 1 => i - 1 \in 1..n /\ ~(i <= i - 1))
        BY <1>1
      <3>3. i # 1 => flatten[i - 1] \in Seq(T)
        BY <3>1, <3>2
      <3>4. flatten[i] \in Seq(T)
        <4>1. CASE i = 1
          <5>1. flatten[i] = seqs[i]
            BY <2>4, <3>2, <4>1
          <5> QED
            BY <1>1, <3>2, <5>1
        <4>2. CASE i # 1
          <5>1. flatten[i] = flatten[i - 1] \o seqs[i] /\ seqs[i] \in Seq(T)
            BY <1>1, <2>4, <3>2, <4>2
          <5> QED
            BY <3>3, <4>2, <5>1, ConcatProperties
        <4> QED
          BY <4>1, <4>2
      <3> QED
        BY <3>1, <3>4
    <2>6. all \in [0..n -> Seq(T)] /\ all[0] = <<>>
      BY <1>1, <2>5
    <2>7. \A i \in 1..n : all[i] = flatten[i] /\ (i # 1 => all[i - 1] = flatten[i - 1])
                          /\ (i = 1 => all[i - 1] = <<>>)
      BY <1>1
    <2>8. \A i \in 1..n : <<>> \o seqs[i] = seqs[i]
      BY <1>1, ConcatEmptySeq
    <2>9. all[n] = FlattenSeq(seqs)
      BY <1>1, <1>4, <2>1, <2>7
    <2> HIDE DEF all
    <2>10. \A i \in 1..n : all[i] = all[i - 1] \o seqs[i]
      BY <2>4, <2>7, <2>8
    <2> QED
      BY <2>6, <2>9, <2>10 DEF IsFlat
  <1> QED
    BY <1>3, <1>4

(* Each sequence has its place, after the ones before it.                  *)
IsPlaced(flat, seqs, i) ==
  /\ Len(flat[i]) = Len(flat[i - 1]) + Len(seqs[i])
  /\ Len(flat[i - 1]) \in Nat /\ Len(flat[i]) \in Nat /\ Len(seqs[i]) \in Nat
  /\ Len(flat[i]) <= Len(flat[Len(seqs)])
  /\ \A k \in 1..Len(seqs[i]) : flat[Len(seqs)][Len(flat[i - 1]) + k] = seqs[i][k]

LEMMA FlatPlaces ==
  ASSUME NEW T, NEW seqs \in Seq(Seq(T)), NEW flat, IsFlat(flat, T, seqs),
         NEW i \in 1..Len(seqs)
  PROVE  IsPlaced(flat, seqs, i)
  <1> DEFINE n == Len(seqs)
             Right(m) == /\ Len(flat[i]) <= Len(flat[m])
                         /\ \A k \in 1..Len(seqs[i]) :
                              flat[m][Len(flat[i - 1]) + k] = seqs[i][k]
             Bad == {m \in i..n : ~Right(m)}
  <1>1. n \in Nat /\ i \in Nat /\ i >= 1 /\ i <= n
    OBVIOUS
  <1>2. \A m \in 1..n : /\ seqs[m] \in Seq(T) /\ flat[m] \in Seq(T) /\ flat[m - 1] \in Seq(T)
                        /\ flat[m] = flat[m - 1] \o seqs[m]
    <2> TAKE m \in 1..n
    <2>1. m - 1 \in 0..n /\ m \in 0..n
      BY <1>1
    <2> QED
      BY <2>1, ElementOfSeq DEF IsFlat
  <1> DEFINE Extends(m) ==
               /\ Len(flat[m]) = Len(flat[m - 1]) + Len(seqs[m])
               /\ Len(flat[m - 1]) \in Nat /\ Len(flat[m]) \in Nat /\ Len(seqs[m]) \in Nat
               /\ \A k \in 1..Len(flat[m - 1]) : flat[m][k] = flat[m - 1][k]
               /\ \A k \in 1..Len(seqs[m]) : flat[m][Len(flat[m - 1]) + k] = seqs[m][k]
  <1>3. \A m \in 1..n : Extends(m)
    <2> TAKE m \in 1..n
    <2> DEFINE a == flat[m - 1]
               b == seqs[m]
               c == flat[m]
    <2>1. a \in Seq(T) /\ b \in Seq(T) /\ c = a \o b
      BY <1>2
    <2> HIDE DEF a, b, c
    <2>2. /\ Len(c) = Len(a) + Len(b) /\ Len(a) \in Nat /\ Len(b) \in Nat
          /\ \A k \in 1..Len(a) : c[k] = a[k]
          /\ \A k \in 1..Len(b) : c[Len(a) + k] = b[k]
      BY <2>1
    <2>3. Len(c) \in Nat
      BY <2>2
    <2> QED
      BY <2>2, <2>3 DEF a, b, c
  <1>4. Bad = {}
    <2> SUFFICES ASSUME Bad # {} PROVE FALSE
      OBVIOUS
    <2>1. PICK m \in Bad : \A l \in Bad : m <= l
      <3>1. Bad \in SUBSET Nat
        BY <1>1
      <3> HIDE DEF Bad
      <3> QED
        BY <3>1, LeastNumber
    <2>2. m \in 1..n /\ m \in i..n /\ i \in 1..n
      BY <1>1
    <2> HIDE DEF Extends, n
    <2>3. Extends(m) /\ Extends(i)
      BY <1>3, <2>2
    <2>4. CASE m = i
      <3>1. Right(i)
        BY <2>3 DEF Extends
      <3> QED
        BY <2>1, <2>4, <3>1
    <2>5. CASE m # i
      <3>1. m - 1 \in i..n /\ ~(m <= m - 1)
        BY <1>1, <2>2, <2>5
      <3> HIDE DEF Right
      <3>2. Right(m - 1)
        BY <2>1, <3>1
      <3>3. Len(flat[i]) <= Len(flat[m - 1]) /\ Len(flat[i]) <= Len(flat[m])
        <4>1. Len(flat[m]) = Len(flat[m - 1]) + Len(seqs[m]) /\ Len(flat[m - 1]) \in Nat
              /\ Len(seqs[m]) \in Nat /\ Len(flat[i]) \in Nat
          BY <2>3, Zenon DEF Extends
        <4>2. Len(flat[i]) <= Len(flat[m - 1])
          BY <3>2, Zenon DEF Right
        <4> DEFINE x == Len(flat[i])
                   y == Len(flat[m - 1])
                   z == Len(seqs[m])
        <4>3. x <= y /\ x \in Nat /\ y \in Nat /\ z \in Nat
          BY <4>1, <4>2
        <4> HIDE DEF x, y, z
        <4>4. x <= y + z
          BY <4>3
        <4> QED
          BY <4>1, <4>2, <4>4, Zenon DEF x, y, z
      <3>4. ASSUME NEW k \in 1..Len(seqs[i])
            PROVE  flat[m][Len(flat[i - 1]) + k] = seqs[i][k]
        <4>1. Len(flat[i - 1]) + k \in 1..Len(flat[m - 1])
          <5>1. /\ Len(flat[i]) = Len(flat[i - 1]) + Len(seqs[i]) /\ Len(flat[i - 1]) \in Nat
                /\ Len(seqs[i]) \in Nat /\ Len(flat[m - 1]) \in Nat
            BY <2>3, Zenon DEF Extends
          <5> DEFINE x == Len(flat[i - 1])
                     y == Len(flat[m - 1])
                     z == Len(seqs[i])
          <5>2. x \in Nat /\ y \in Nat /\ z \in Nat /\ x + z <= y /\ k \in 1..z
            BY <3>3, <5>1, Zenon
          <5> HIDE DEF x, y, z
          <5>3. x + k \in 1..y
            BY <5>2
          <5> QED
            BY <5>3 DEF x, y
        <4> QED
          BY <2>3, <3>2, <4>1 DEF Right, Extends
      <3>5. Right(m)
        BY <3>3, <3>4 DEF Right
      <3> QED
        BY <2>1, <3>5
    <2> QED
      BY <2>4, <2>5
  <1>5. Right(n)
    <2>1. n \in i..n
      BY <1>1
    <2> HIDE DEF Right
    <2> QED
      BY <1>4, <2>1
  <1> QED
    BY <1>1, <1>3, <1>5 DEF IsPlaced

----------------------------------------------------------------------------
(* What the decoder reads where a literal is written.                      *)

DecoderReads(s, p, o, q) == \A f : Decoding(s, p, f) = Joined(o, FALSE, f[q])

(* The characters that literals are made of, one arm for each.             *)
LEMMA DecodingArms ==
  ASSUME NEW s, NEW p
  PROVE  /\ CharAt(s, p) = Backslash =>
              DecoderGoesOn(s, p, EscapeSequence(s, p + 1).out, EscapeSequence(s, p + 1).bad,
                            EscapeSequence(s, p + 1).next)
         /\ \A c \in 32..126 : CharAt(s, p) = c /\ c # Quote /\ c # Backslash =>
              DecoderReads(s, p, <<c>>, p + 1)
         /\ CharAt(s, p) = Quote /\ CharAt(s, PastAll(s, p + 1, Len(s) + 2, 1..32)) = 0 =>
              \A from : Decoding(s, p, from) =
                [out |-> <<>>, bad |-> FALSE, last |-> PastAll(s, p + 1, Len(s) + 2, 1..32)]
         /\ CharAt(s, p) = Quote /\ CharAt(s, PastAll(s, p + 1, Len(s) + 2, 1..32)) = Quote =>
              DecoderSkips(s, p, PastAll(s, p + 1, Len(s) + 2, 1..32) + 1)
  <1> DEFINE c == CharAt(s, p)
             escape == EscapeSequence(s, p + 1)
             next == PastAll(s, p + 1, Len(s) + 2, 1..32)
             terminator == PastAll(s, p, Len(s) + 2, 1..255)
             Cut(q) == [out |-> <<>>, bad |-> TRUE, last |-> q]
             End(q) == [out |-> <<>>, bad |-> FALSE, last |-> q]
             Odd(x) == x < 128 /\ ~IsAsciiPrintable(x)
  <1> HIDE DEF c, escape, next, terminator
  <1>1. \A from : Decoding(s, p, from) =
          CASE c = 0 -> Cut(p)
            [] c = Quote /\ CharAt(s, next) = 0 -> End(next)
            [] c = Quote /\ CharAt(s, next) = Quote -> from[next + 1]
            [] c = Quote /\ CharAt(s, next) \notin {0, Quote} ->
                 Joined(SubSeq(s, next, terminator - 1), TRUE, Cut(terminator))
            [] c = Backslash -> Joined(escape.out, escape.bad, from[escape.next])
            [] OTHER -> Joined(<<c>>, Odd(c), from[p + 1])
    BY DEF Decoding, Joined, c, escape, next, terminator
  <1>2. Quote # 0 /\ Backslash # 0 /\ Quote # Backslash
    BY DEF Quote, Backslash
  <1>7. \A x \in 32..126 : x # 0 /\ Odd(x) = FALSE
    BY DEF IsAsciiPrintable
  <1> HIDE DEF Cut, End, Odd
  <1>3. c = Backslash => DecoderGoesOn(s, p, escape.out, escape.bad, escape.next)
    BY <1>1, <1>2, Zenon DEF DecoderGoesOn
  <1>4. ASSUME NEW x \in 32..126, c = x, x # Quote, x # Backslash
        PROVE  DecoderReads(s, p, <<x>>, p + 1)
    <2>1. x # 0 /\ Odd(x) = FALSE
      BY <1>7
    <2>2. \A from : Decoding(s, p, from) = Joined(<<x>>, Odd(x), from[p + 1])
      BY <1>1, <1>4, <2>1, Zenon
    <2> QED
      BY <2>1, <2>2, Zenon DEF DecoderReads
  <1>5. c = Quote /\ CharAt(s, next) = 0 => \A from : Decoding(s, p, from) = End(next)
    BY <1>1, <1>2, Zenon
  <1>6. c = Quote /\ CharAt(s, next) = Quote => DecoderSkips(s, p, next + 1)
    BY <1>1, <1>2, Zenon DEF DecoderSkips
  <1> QED
    BY <1>3, <1>4, <1>5, <1>6, Zenon DEF c, escape, next, End

(* The places from p on are passed until the first of no such character.   *)
LEMMA PastAllStops ==
  ASSUME NEW s, NEW p \in Nat, NEW limit \in Nat, NEW codes, NEW q \in p..limit,
         q = limit \/ CharAt(s, q) \notin codes, \A k \in p..q - 1 : CharAt(s, k) \in codes
  PROVE  PastAll(s, p, limit, codes) = q
  <1> DEFINE e == PastAll(s, p, limit, codes)
  <1>1. p <= limit
    OBVIOUS
  <1>2. /\ e \in p..limit /\ (e = limit \/ CharAt(s, e) \notin codes)
        /\ \A k \in p..e - 1 : CharAt(s, k) \in codes
    BY <1>1, PastAllIs
  <1> HIDE DEF e
  <1>3. ~(e < q)
    BY <1>2
  <1>4. ~(q < e)
    BY <1>2
  <1>5. e = q
    BY <1>2, <1>3, <1>4
  <1> QED
    BY <1>5 DEF e

(* What is read at a place where the decoder goes on without an error.     *)
LEMMA WhatIsRead ==
  ASSUME NEW s \in Chars, NEW from, IsDecoder(s, from), NEW p \in 1..Len(s) + 2,
         NEW o \in Chars, NEW q \in 1..Len(s) + 2, DecoderReads(s, p, o, q)
  PROVE  from[p].out = o \o from[q].out /\ from[p].bad = from[q].bad
  <1> DEFINE rest == from[q]
  <1>1. from[p] = Joined(o, FALSE, rest)
    <2>1. from[p] = Decoding(s, p, from)
      BY DEF IsDecoder
    <2>2. Decoding(s, p, from) = Joined(o, FALSE, rest)
      BY Zenon DEF DecoderReads
    <2> QED
      BY <2>1, <2>2, Zenon
  <1>2. rest \in DecodingResults /\ rest.bad \in BOOLEAN
    BY DEF IsDecoder, DecodingResults
  <1> HIDE DEF rest
  <1>3. Joined(o, FALSE, rest).out = o \o rest.out
        /\ Joined(o, FALSE, rest).bad = (FALSE \/ rest.bad)
    BY <1>2, JoinedIs
  <1>4. from[p].out = o \o rest.out /\ from[p].bad = rest.bad
    BY <1>1, <1>2, <1>3
  <1> QED
    BY <1>4, Zenon DEF rest

(* An escape sequence stands for c, and ends before q; and what is read at *)
(* p is c, and what is read at q.                                          *)
EscapeReads(s, p, c, q) == EscapeSequence(s, p) = [out |-> <<c>>, next |-> q, bad |-> FALSE]
ReadsOn(from, p, c, q) == from[p].out = <<c>> \o from[q].out /\ from[p].bad = from[q].bad

(* A printable character is read as itself.                                *)
LEMMA PlainIsRead ==
  ASSUME NEW s \in Chars, NEW from, IsDecoder(s, from), NEW p \in 1..Len(s),
         NEW c \in 32..126, s[p] = c, c \notin {Quote, Backslash}
  PROVE  ReadsOn(from, p, c, p + 1)
  <1>1. Len(s) \in Nat /\ p + 1 \in 1..Len(s) + 2 /\ p \in 1..Len(s) + 2
    BY DEF Chars
  <1>2. CharAt(s, p) = c
    BY <1>1 DEF CharAt
  <1> DEFINE o == <<c>>
  <1>3. DecoderReads(s, p, o, p + 1)
    BY <1>2, DecodingArms
  <1>4. o \in Chars
    BY DEF Chars
  <1> HIDE DEF o
  <1> DEFINE q == p + 1
  <1> HIDE DEF q
  <1>5. q \in 1..Len(s) + 2 /\ DecoderReads(s, p, o, q)
    BY <1>1, <1>3 DEF q
  <1>6. from[p].out = o \o from[q].out /\ from[p].bad = from[q].bad
    BY <1>1, <1>4, <1>5, WhatIsRead
  <1> QED
    BY <1>6, Zenon DEF o, q, ReadsOn

(* An escape sequence is read as the character that it stands for.         *)
LEMMA EscapeIsRead ==
  ASSUME NEW s \in Chars, NEW from, IsDecoder(s, from), NEW p \in 1..Len(s),
         s[p] = Backslash, NEW c \in 0..255, NEW q \in 1..Len(s) + 1,
         EscapeReads(s, p + 1, c, q)
  PROVE  ReadsOn(from, p, c, q)
  <1>1. Len(s) \in Nat /\ q \in 1..Len(s) + 2 /\ p \in 1..Len(s) + 2
    BY DEF Chars
  <1>2. CharAt(s, p) = s[p]
    BY <1>1 DEF CharAt
  <1> DEFINE o == <<c>>
  <1>3. DecoderReads(s, p, o, q)
    <2>1. DecoderGoesOn(s, p, EscapeSequence(s, p + 1).out, EscapeSequence(s, p + 1).bad,
                        EscapeSequence(s, p + 1).next)
      BY <1>2, DecodingArms
    <2>2. /\ EscapeSequence(s, p + 1).out = <<c>> /\ EscapeSequence(s, p + 1).bad = FALSE
          /\ EscapeSequence(s, p + 1).next = q
      BY DEF EscapeReads
    <2> QED
      BY <2>1, <2>2, Zenon DEF DecoderGoesOn, DecoderReads
  <1>4. o \in Chars
    BY DEF Chars
  <1> HIDE DEF o
  <1>5. from[p].out = o \o from[q].out /\ from[p].bad = from[q].bad
    BY <1>1, <1>3, <1>4, WhatIsRead
  <1> QED
    BY <1>5, Zenon DEF o, ReadsOn

(* Two quotes in a row are skipped, and a last one ends the text.          *)
LEMMA QuotesAreSkipped ==
  ASSUME NEW s \in Chars, NEW from, IsDecoder(s, from), NEW p \in 1..Len(s) - 1,
         s[p] = Quote, s[p + 1] = Quote
  PROVE  from[p] = from[p + 2]
  <1> DEFINE next == PastAll(s, p + 1, Len(s) + 2, 1..32)
  <1>1. /\ Len(s) \in Nat /\ p \in 1..Len(s) + 2 /\ p + 1 \in Nat /\ p + 1 <= Len(s) + 2
        /\ Len(s) + 2 \in Nat /\ p + 1 + 1 = p + 2
    BY DEF Chars
  <1>2. CharAt(s, p) = Quote /\ CharAt(s, p + 1) = Quote
    BY <1>1 DEF CharAt
  <1>3. next = p + 1
    <2>1. CharAt(s, p + 1) \notin 1..32
      <3>1. Quote \notin 1..32
        BY DEF Quote
      <3> QED
        BY <1>2, <3>1, Zenon
    <2> DEFINE m == p + 1
               limit == Len(s) + 2
               blanks == 1..32
    <2>2. /\ m \in Nat /\ limit \in Nat /\ m \in m..limit /\ CharAt(s, m) \notin blanks
          /\ \A k \in m..m - 1 : FALSE
      BY <1>1, <2>1
    <2> HIDE DEF m, limit, blanks
    <2>3. PastAll(s, m, limit, blanks) = m
      BY <2>2, PastAllStops
    <2> QED
      BY <2>3, Zenon DEF m, limit, blanks
  <1>4. CharAt(s, next) = Quote
    BY <1>2, <1>3
  <1>5. DecoderSkips(s, p, next + 1)
    BY <1>2, <1>4, DecodingArms
  <1> HIDE DEF next
  <1> QED
    BY <1>1, <1>3, <1>5 DEF IsDecoder, DecoderSkips

EndsAt(from, p) == from[p].out = <<>> /\ from[p].bad = FALSE

(* The decoder ends without an error at the last quote.                    *)
LEMMA LastQuoteEnds ==
  ASSUME NEW s \in Chars, NEW from, IsDecoder(s, from), NEW p, p = Len(s), p >= 1,
         s[p] = Quote
  PROVE  EndsAt(from, p)
  <1> DEFINE next == PastAll(s, p + 1, Len(s) + 2, 1..32)
  <1>1. /\ Len(s) \in Nat /\ p \in 1..Len(s) + 2 /\ p + 1 \in Nat /\ p + 1 <= Len(s) + 2
        /\ Len(s) + 2 \in Nat /\ p \in 1..Len(s) /\ p \in Nat
    BY DEF Chars
  <1>2. CharAt(s, p) = Quote /\ \A k \in Nat : k > p => CharAt(s, k) = 0
    BY <1>1 DEF CharAt
  <1>3. next \in p + 1..Len(s) + 2
    BY <1>1, PastAllIs
  <1> HIDE DEF next
  <1>4. CharAt(s, next) = 0
    BY <1>1, <1>2, <1>3
  <1>5. Decoding(s, p, from) = [out |-> <<>>, bad |-> FALSE, last |-> next]
    BY <1>2, <1>4, DecodingArms DEF next
  <1>6. from[p] = [out |-> <<>>, bad |-> FALSE, last |-> next]
    BY <1>1, <1>5 DEF IsDecoder
  <1> QED
    BY <1>6 DEF EndsAt

----------------------------------------------------------------------------
(* Every character is read as it was escaped.                              *)

(* The escape sequence of 0 has three digits, so a digit after it is not a *)
(* part of it.                                                             *)
LEMMA OctalZero ==
  ASSUME NEW s, NEW p \in Nat, CharAt(s, p) = 48, CharAt(s, p + 1) = 48, CharAt(s, p + 2) = 48
  PROVE  EscapeReads(s, p, 0, p + 3)
  <1>1. OctalEnd(s, p) = p + 3
    <2> DEFINE q == p + 3
    <2>1. q \in Nat /\ q \in p..q
      OBVIOUS
    <2>2. \A k \in p..q - 1 : CharAt(s, k) \in OctalDigits
      <3> TAKE k \in p..q - 1
      <3>1. k = p \/ k = p + 1 \/ k = p + 2
        OBVIOUS
      <3>2. 48 \in OctalDigits
        BY DEF OctalDigits
      <3> QED
        BY <3>1, <3>2
    <2> HIDE DEF q
    <2>3. PastAll(s, p, q, OctalDigits) = q
      BY <2>1, <2>2, PastAllStops
    <2> QED
      BY <2>3 DEF OctalEnd, q
  <1>2. Octal(s, p) = 0
    <2>1. Octal(s, p) = NumberAt(s, p, p + 3, 8)
      BY <1>1, Zenon DEF Octal
    <2> DEFINE q == p + 3
    <2>2. q \in Nat /\ p <= q /\ 8 \in Int
      OBVIOUS
    <2> HIDE DEF q
    <2>3. PICK sum : IsSumOf(sum, s, p, q, 8) /\ NumberAt(s, p, q, 8) = sum[q]
      BY <2>2, NumberIsSum
    <2>4. sum[p] = 0 /\ \A k \in p + 1..q : sum[k] = sum[k - 1] * 8 + HexDigit(CharAt(s, k - 1))
      BY <2>3, Zenon DEF IsSumOf
    <2>5. HexDigit(48) = 0
      BY DEF HexDigit
    <2>6. sum[p + 1] = 0
      <3>1. p + 1 \in p + 1..q /\ (p + 1) - 1 = p
        BY DEF q
      <3>2. sum[p + 1] = sum[p] * 8 + HexDigit(CharAt(s, p))
        BY <2>4, <3>1
      <3> QED
        BY <2>4, <2>5, <3>2
    <2>7. sum[p + 2] = 0
      <3>1. p + 2 \in p + 1..q /\ (p + 2) - 1 = p + 1
        BY DEF q
      <3>2. sum[p + 2] = sum[p + 1] * 8 + HexDigit(CharAt(s, p + 1))
        BY <2>4, <3>1
      <3> QED
        BY <2>5, <2>6, <3>2
    <2>8. sum[p + 3] = 0
      <3>1. p + 3 \in p + 1..q /\ (p + 3) - 1 = p + 2
        BY DEF q
      <3>2. sum[p + 3] = sum[p + 2] * 8 + HexDigit(CharAt(s, p + 2))
        BY <2>4, <3>1
      <3> QED
        BY <2>5, <2>7, <3>2
    <2> QED
      BY <2>1, <2>3, <2>8 DEF q
  <1>3. EscapeSequence(s, p) =
          [out |-> AsChar(Octal(s, p)), next |-> OctalEnd(s, p), bad |-> Octal(s, p) > 255]
    <2>1. 48 \in OctalDigits
      BY DEF OctalDigits
    <2> QED
      BY <2>1, EscapeArms
  <1>4. AsChar(0) = <<0>>
    BY DEF AsChar
  <1>5. (0 > 255) = FALSE
    OBVIOUS
  <1> QED
    BY <1>1, <1>2, <1>3, <1>4, <1>5, Zenon DEF EscapeReads

LEMMA ByteAsChar ==
  ASSUME NEW c \in 0..255
  PROVE  AsChar(c) = <<c>> /\ (c > 255) = FALSE
  <1>1. c % 256 = c
    OBVIOUS
  <1> QED
    BY <1>1 DEF AsChar

(* A byte is made of its two digits.                                       *)
LEMMA DigitsOfByte ==
  ASSUME NEW c \in 0..255
  PROVE  c \div 16 \in 0..15 /\ c % 16 \in 0..15 /\ c = (c \div 16) * 16 + (c % 16)
  <1>1. PICK q \in 0..15, r \in 0..15 : c = 16 * q + r
    OBVIOUS
  <1>2. q = c \div 16
    BY <1>1
  <1>3. r = c % 16
    BY <1>1
  <1> QED
    BY <1>1, <1>2, <1>3

IsHexForm(t, d1, d2) ==
  /\ t \in Chars /\ Len(t) = 6 /\ t[1] = Backslash /\ t[2] = LetterX /\ t[3] = d1 /\ t[4] = d2
  /\ t[5] = Quote /\ t[6] = Quote

(* The six characters of a hex sequence with the quotes that end it.       *)
LEMMA PairsJoined ==
  ASSUME NEW d1 \in 0..255, NEW d2 \in 0..255
  PROVE  IsHexForm(<<Backslash, LetterX>> \o <<d1, d2>> \o <<Quote, Quote>>, d1, d2)
  <1> DEFINE x == <<Backslash, LetterX>>
             y == <<d1, d2>>
             u == <<Quote, Quote>>
             z == x \o y
             w == z \o u
             T == 0..255
  <1>1. x \in Seq(T) /\ y \in Seq(T) /\ u \in Seq(T) /\ Len(x) = 2 /\ Len(y) = 2 /\ Len(u) = 2
    BY DEF Backslash, LetterX, Quote
  <1>2. x[1] = Backslash /\ x[2] = LetterX /\ y[1] = d1 /\ y[2] = d2 /\ u[1] = Quote
        /\ u[2] = Quote
    OBVIOUS
  <1> HIDE DEF x, y, u, T
  <1>3. z \in Seq(T) /\ IsJoined(z, x, y)
    BY <1>1, ConcatJoins
  <1> HIDE DEF z
  <1>4. Len(z) = 4 /\ z[1] = x[1] /\ z[2] = x[2] /\ z[2 + 1] = y[1] /\ z[2 + 2] = y[2]
    BY <1>1, <1>3 DEF IsJoined
  <1>5. w \in Seq(T) /\ IsJoined(w, z, u)
    BY <1>1, <1>3, ConcatJoins
  <1> HIDE DEF w
  <1>6. /\ Len(w) = 6 /\ w[1] = z[1] /\ w[2] = z[2] /\ w[3] = z[3] /\ w[4] = z[4]
        /\ w[4 + 1] = u[1] /\ w[4 + 2] = u[2]
    BY <1>1, <1>4, <1>5 DEF IsJoined
  <1>7. w \in Chars
    BY <1>5 DEF Chars, T
  <1>8. IsHexForm(w, d1, d2)
    BY <1>2, <1>4, <1>6, <1>7 DEF IsHexForm
  <1> QED
    BY <1>8, Zenon DEF w, z, x, y, u

(* A hex sequence with no digit after it is read as its byte.              *)
LEMMA HexIsRead ==
  ASSUME NEW s \in Chars, NEW p \in Nat, p + 3 <= Len(s),
         NEW d1 \in HexDigits, NEW d2 \in HexDigits,
         CharAt(s, p) = LetterX, CharAt(s, p + 1) = d1, CharAt(s, p + 2) = d2,
         CharAt(s, p + 3) \notin HexDigits, NEW c \in 0..255, c = HexDigit(d1) * 16 + HexDigit(d2)
  PROVE  EscapeReads(s, p, c, p + 3)
  <1>1. HexEnd(s, p) = p + 3
    <2>1. Len(s) \in Nat
      BY DEF Chars
    <2> DEFINE m == p + 1
               q == p + 3
               limit == Len(s) + 2
    <2>2. m \in Nat /\ limit \in Nat /\ q \in m..limit
      BY <2>1
    <2>3. \A k \in m..q - 1 : CharAt(s, k) \in HexDigits
      <3> TAKE k \in m..q - 1
      <3>1. k = p + 1 \/ k = p + 2
        OBVIOUS
      <3> QED
        BY <3>1
    <2>4. CharAt(s, q) \notin HexDigits
      OBVIOUS
    <2> HIDE DEF q, limit, m
    <2>5. PastAll(s, m, limit, HexDigits) = q
      BY <2>2, <2>3, <2>4, PastAllStops
    <2> QED
      BY <2>5, Zenon DEF HexEnd, q, m, limit
  <1>2. Hex(s, p) = c
    <2>1. Hex(s, p) = NumberAt(s, p + 1, p + 3, 16)
      BY <1>1, Zenon DEF Hex
    <2> DEFINE m == p + 1
               q == p + 3
    <2>2. m \in Nat /\ q \in Nat /\ m <= q /\ 16 \in Int
      OBVIOUS
    <2> HIDE DEF q, m
    <2>3. PICK sum : IsSumOf(sum, s, m, q, 16) /\ NumberAt(s, m, q, 16) = sum[q]
      BY <2>2, NumberIsSum
    <2>4. sum[m] = 0 /\ \A k \in m + 1..q : sum[k] = sum[k - 1] * 16 + HexDigit(CharAt(s, k - 1))
      BY <2>3, Zenon DEF IsSumOf
    <2>5. HexDigit(d1) \in Int /\ HexDigit(d2) \in Int
      <3>1. HexDigit(d1) \in -1..15 /\ HexDigit(d2) \in -1..15
        BY HexDigitIsInt, Zenon
      <3>2. \A n \in -1..15 : n \in Int
        OBVIOUS
      <3> QED
        BY <3>1, <3>2, Zenon
    <2>6. sum[p + 2] = HexDigit(d1)
      <3>1. p + 2 \in m + 1..q /\ (p + 2) - 1 = p + 1 /\ m = p + 1
        BY DEF q, m
      <3>2. sum[p + 2] = sum[p + 1] * 16 + HexDigit(CharAt(s, p + 1))
        BY <2>4, <3>1
      <3> QED
        BY <2>4, <2>5, <3>1, <3>2
    <2>7. sum[p + 3] = HexDigit(d1) * 16 + HexDigit(d2)
      <3>1. p + 3 \in m + 1..q /\ (p + 3) - 1 = p + 2
        BY DEF q, m
      <3>2. sum[p + 3] = sum[p + 2] * 16 + HexDigit(CharAt(s, p + 2))
        BY <2>4, <3>1
      <3> QED
        BY <2>6, <3>2
    <2> QED
      BY <2>1, <2>3, <2>7 DEF q, m
  <1>3. EscapeSequence(s, p) =
          [out |-> AsChar(Hex(s, p)), next |-> HexEnd(s, p), bad |-> Hex(s, p) > 255]
    <2>1. HexEnd(s, p) # p + 1
      BY <1>1
    <2>2. EscapeSequence(s, p) =
            IF HexEnd(s, p) = p + 1 THEN [out |-> <<>>, next |-> p + 1, bad |-> TRUE]
            ELSE [out |-> AsChar(Hex(s, p)), next |-> HexEnd(s, p), bad |-> Hex(s, p) > 255]
      BY EscapeArms
    <2> QED
      BY <2>1, <2>2, Zenon
  <1>4. AsChar(c) = <<c>> /\ (c > 255) = FALSE
    BY ByteAsChar
  <1> QED
    BY <1>1, <1>2, <1>3, <1>4, Zenon DEF EscapeReads

(* What escapeCharInString() writes, case by case.                         *)
IsEscaped(c, t) ==
  \/ c = 0 /\ t = <<Backslash, 48, 48, 48>>
  \/ \E l \in {Backslash, Quote} : l = c /\ t = <<Backslash, l>>
  \/ \E l \in DOMAIN Simple : Simple[l] = c /\ t = <<Backslash, l>>
  \/ c \in 32..126 /\ c \notin {Backslash, Quote} /\ t = <<c>>
  \/ \E d1 \in HexDigits, d2 \in HexDigits :
       c = HexDigit(d1) * 16 + HexDigit(d2) /\ IsHexForm(t, d1, d2)

(* escapeCharInString() writes nothing else.                               *)
LEMMA EscapedForms ==
  ASSUME NEW c \in 0..255
  PROVE  IsEscaped(c, EscapeCharInString(c))
  <1> DEFINE hex == <<Backslash, LetterX>> \o HexCode(c) \o <<Quote, Quote>>
             E == EscapeCharInString(c)
  <1>1. E = CASE c = 0 -> <<Backslash, 48, 48, 48>>
              [] c \in {Backslash, Quote} -> <<Backslash, c>>
              [] c = 10 -> <<Backslash, 110>>
              [] c = 13 -> <<Backslash, 114>>
              [] c = 9 -> <<Backslash, 116>>
              [] OTHER -> IF IsAsciiPrintable(c) THEN <<c>> ELSE hex
    BY DEF EscapeCharInString
  <1>2. \E d1 \in HexDigits, d2 \in HexDigits :
          /\ c = HexDigit(d1) * 16 + HexDigit(d2)
          /\ IsHexForm(hex, d1, d2)
    <2> DEFINE Digit(n) == IF n < 10 THEN 48 + n ELSE 55 + n
    <2>1. c \div 16 \in 0..15 /\ c % 16 \in 0..15 /\ c = (c \div 16) * 16 + (c % 16)
      BY DigitsOfByte
    <2>2. \A n \in 0..15 : Digit(n) \in HexDigits /\ HexDigit(Digit(n)) = n
      BY DEF HexDigits, HexDigit
    <2>3. HexCode(c) = <<Digit(c \div 16), Digit(c % 16)>>
      BY DEF HexCode
    <2> DEFINE d1 == Digit(c \div 16)
               d2 == Digit(c % 16)
    <2>4. d1 \in HexDigits /\ d2 \in HexDigits /\ HexDigit(d1) = c \div 16
          /\ HexDigit(d2) = c % 16
      BY <2>1, <2>2
    <2>5. hex = <<Backslash, LetterX>> \o <<d1, d2>> \o <<Quote, Quote>>
      BY <2>3
    <2> HIDE DEF d1, d2, hex
    <2>6. d1 \in 0..255 /\ d2 \in 0..255
      BY <2>4 DEF HexDigits
    <2>7. IsHexForm(<<Backslash, LetterX>> \o <<d1, d2>> \o <<Quote, Quote>>, d1, d2)
      BY <2>6, PairsJoined
    <2>8. IsHexForm(hex, d1, d2)
      BY <2>5, <2>7, Zenon
    <2>9. c = HexDigit(d1) * 16 + HexDigit(d2)
      BY <2>1, <2>4
    <2> QED
      BY <2>4, <2>8, <2>9, Zenon
  <1> HIDE DEF hex
  <1>3. Quote = 34 /\ Backslash = 92
    BY DEF Quote, Backslash
  <1>4. /\ 110 \in DOMAIN Simple /\ Simple[110] = 10 /\ 114 \in DOMAIN Simple /\ Simple[114] = 13
        /\ 116 \in DOMAIN Simple /\ Simple[116] = 9
    BY DEF Simple
  <1> HIDE DEF E
  <1>5. CASE c = 0
    <2>1. c \notin {Backslash, Quote} /\ c # 10 /\ c # 13 /\ c # 9
      BY <1>3, <1>5
    <2> QED
      BY <1>1, <1>5, <2>1, Zenon DEF E, IsEscaped
  <1>6. CASE c \in {Backslash, Quote}
    <2>1. c # 0 /\ c # 10 /\ c # 13 /\ c # 9
      BY <1>3, <1>6
    <2>2. E = <<Backslash, c>>
      BY <1>1, <1>6, <2>1, Zenon
    <2> QED
      BY <1>6, <2>2, Zenon DEF E, IsEscaped
  <1>7. CASE c \in {9, 10, 13}
    <2>1. c # 0 /\ c \notin {Backslash, Quote}
      BY <1>3, <1>7
    <2>2. \E l \in DOMAIN Simple : Simple[l] = c /\ E = <<Backslash, l>>
      <3>1. c = 9 => c # 10 /\ c # 13
        OBVIOUS
      <3>2. c = 10 => c # 9 /\ c # 13
        OBVIOUS
      <3>3. c = 13 => c # 10 /\ c # 9
        OBVIOUS
      <3>4. c = 9 => E = <<Backslash, 116>>
        BY <1>1, <2>1, <3>1, Zenon
      <3>5. c = 10 => E = <<Backslash, 110>>
        BY <1>1, <2>1, <3>2, Zenon
      <3>6. c = 13 => E = <<Backslash, 114>>
        BY <1>1, <2>1, <3>3, Zenon
      <3>7. c = 9 \/ c = 10 \/ c = 13
        BY <1>7
      <3>8. CASE c = 9
        BY <1>4, <3>4, <3>8, Zenon
      <3>9. CASE c = 10
        BY <1>4, <3>5, <3>9, Zenon
      <3>10. CASE c = 13
        BY <1>4, <3>6, <3>10, Zenon
      <3> QED
        BY <3>7, <3>8, <3>9, <3>10, Zenon
    <2> QED
      BY <2>2, Zenon DEF E, IsEscaped
  <1>8. CASE c # 0 /\ c \notin {Backslash, Quote} /\ c \notin {9, 10, 13}
    <2>1. E = IF IsAsciiPrintable(c) THEN <<c>> ELSE hex
      BY <1>1, <1>8, Zenon
    <2>2. CASE c \in 32..126
      <3>1. E = <<c>>
        BY <2>1, <2>2 DEF IsAsciiPrintable
      <3> QED
        BY <1>8, <2>2, <3>1, Zenon DEF E, IsEscaped
    <2>3. CASE c \notin 32..126
      <3>1. E = hex
        BY <2>1, <2>3 DEF IsAsciiPrintable
      <3> QED
        BY <1>2, <3>1, Zenon DEF E, IsEscaped
    <2> QED
      BY <2>2, <2>3
  <1> QED
    BY <1>5, <1>6, <1>7, <1>8

(* And it writes one character at least.                                   *)
LEMMA EscapedIsSeq ==
  ASSUME NEW c \in 0..255, NEW E, IsEscaped(c, E)
  PROVE  E \in Chars /\ Len(E) \in Nat /\ Len(E) >= 1
  <1>0. \A a \in 0..255, b \in 0..255 : /\ <<a>> \in Chars /\ Len(<<a>>) = 1
                                        /\ <<a, b>> \in Chars /\ Len(<<a, b>>) = 2
    BY DEF Chars
  <1>1. CASE E = <<Backslash, 48, 48, 48>>
    <2> DEFINE zeros == <<Backslash, 48, 48, 48>>
    <2>1. zeros \in Chars /\ Len(zeros) = 4
      BY DEF Chars, Backslash
    <2>2. E \in Chars /\ Len(E) = 4
      BY <1>1, <2>1, Zenon
    <2> QED
      BY <2>2
  <1>2. ASSUME NEW l \in 0..255, E = <<Backslash, l>>
        PROVE  E \in Chars /\ Len(E) = 2
    <2>1. Backslash \in 0..255
      BY DEF Backslash
    <2> QED
      BY <1>0, <1>2, <2>1, Zenon
  <1>3. Quote \in 0..255 /\ Backslash \in 0..255 /\ \A l \in DOMAIN Simple : l \in 0..255
    BY DEF Simple, Quote, Backslash
  <1>4. CASE E = <<c>>
    <2>1. E \in Chars /\ Len(E) = 1
      BY <1>0, <1>4, Zenon
    <2> QED
      BY <2>1
  <1>5. CASE \E d1 \in HexDigits, d2 \in HexDigits : IsHexForm(E, d1, d2)
    <2>1. E \in Chars /\ Len(E) = 6
      BY <1>5 DEF IsHexForm
    <2> QED
      BY <2>1
  <1>6. CASE \E l \in {Backslash, Quote} : E = <<Backslash, l>>
    <2>1. E \in Chars /\ Len(E) = 2
      BY <1>2, <1>3, <1>6
    <2> QED
      BY <2>1
  <1>7. CASE \E l \in DOMAIN Simple : E = <<Backslash, l>>
    <2>1. E \in Chars /\ Len(E) = 2
      BY <1>2, <1>3, <1>7
    <2> QED
      BY <2>1
  <1> QED
    BY <1>1, <1>4, <1>5, <1>6, <1>7, Zenon DEF IsEscaped

(* The text t is in s from p to q - 1, and not at its end.                 *)
IsWritten(s, t, p, q) ==
  /\ p >= 2 /\ q = p + Len(t) /\ q <= Len(s)
  /\ \A k \in 1..Len(t) : s[p + k - 1] = t[k]

(* Every character is read as itself where it is written, whatever comes   *)
(* after it.                                                               *)
LEMMA CharacterIsRead ==
  ASSUME NEW s \in Chars, NEW from, IsDecoder(s, from), NEW p \in Nat, NEW c \in 0..255,
         NEW t, t = EscapeCharInString(c), NEW next, IsWritten(s, t, p, next)
  PROVE  ReadsOn(from, p, c, next)
  <1>0. /\ next = p + Len(t) /\ p >= 1 /\ p + Len(t) <= Len(s)
        /\ \A k \in 1..Len(t) : s[p + k - 1] = t[k]
    BY DEF IsWritten
  <1> SUFFICES ReadsOn(from, p, c, p + Len(t))
    BY <1>0, Zenon
  <1>1. Len(s) \in Nat
    BY DEF Chars
  <1>2. Quote = 34 /\ Backslash = 92 /\ LetterX = 120
    BY DEF Quote, Backslash, LetterX
  <1>3. CASE c = 0 /\ t = <<Backslash, 48, 48, 48>>
    <2>1. Len(t) = 4 /\ t[1] = Backslash /\ t[2] = 48 /\ t[3] = 48 /\ t[4] = 48
      BY <1>3
    <2>2. p + 4 <= Len(s) /\ s[p] = Backslash /\ s[p + 1] = 48 /\ s[p + 2] = 48 /\ s[p + 3] = 48
      BY <1>0, <2>1
    <2>3. CharAt(s, p + 1) = 48 /\ CharAt(s, p + 2) = 48 /\ CharAt(s, p + 3) = 48
      BY <1>1, <2>2 DEF CharAt
    <2> DEFINE m == p + 1
    <2>4. EscapeReads(s, p + 1, 0, p + 4)
      <3>1. m \in Nat /\ m + 1 = p + 2 /\ m + 2 = p + 3 /\ m + 3 = p + 4
        OBVIOUS
      <3>2. CharAt(s, m) = 48 /\ CharAt(s, m + 1) = 48 /\ CharAt(s, m + 2) = 48
        BY <2>3, <3>1
      <3> HIDE DEF m
      <3>3. EscapeReads(s, m, 0, m + 3)
        BY <3>1, <3>2, OctalZero
      <3> QED
        BY <3>1, <3>3 DEF m
    <2> DEFINE q == p + 4
    <2>5. p \in 1..Len(s) /\ q \in 1..Len(s) + 1 /\ 0 \in 0..255
      BY <1>0, <1>1, <2>2
    <2>6. EscapeReads(s, p + 1, 0, q)
      BY <2>4
    <2>7. q = p + Len(t)
      BY <2>1
    <2> HIDE DEF q
    <2>8. ReadsOn(from, p, 0, q)
      BY <2>2, <2>5, <2>6, EscapeIsRead
    <2> QED
      BY <1>3, <2>7, <2>8, Zenon
  <1>4. ASSUME NEW l \in 0..255, t = <<Backslash, l>>,
               \/ l \in {39, Quote, 63, Backslash} /\ l = c
               \/ l \in DOMAIN Simple /\ Simple[l] = c
        PROVE  ReadsOn(from, p, c, p + Len(t))
    <2>1. Len(t) = 2 /\ t[1] = Backslash /\ t[2] = l
      BY <1>4
    <2>2. p + 2 <= Len(s) /\ s[p] = Backslash /\ s[p + 1] = l
      BY <1>0, <2>1
    <2> DEFINE m == p + 1
               q == p + 2
    <2>3. CharAt(s, m) = l
      BY <1>1, <2>2 DEF CharAt
    <2>5. p \in 1..Len(s) /\ q \in 1..Len(s) + 1 /\ m + 1 = q
      BY <1>0, <1>1, <2>2
    <2>7. q = p + Len(t)
      BY <2>1
    <2>4. EscapeReads(s, m, c, m + 1)
      <3> HIDE DEF m
      <3>1. CASE l \in {39, Quote, 63, Backslash} /\ l = c
        BY <2>3, <3>1, EscapeArms DEF EscapeReads
      <3>2. CASE l \in DOMAIN Simple /\ Simple[l] = c
        BY <2>3, <3>2, EscapeArms DEF EscapeReads
      <3> QED
        BY <1>4, <3>1, <3>2
    <2>6. EscapeReads(s, p + 1, c, q)
      BY <2>4, <2>5
    <2> HIDE DEF q
    <2>8. ReadsOn(from, p, c, q)
      BY <2>2, <2>5, <2>6, EscapeIsRead
    <2> QED
      BY <2>7, <2>8, Zenon
  <1>5. CASE c \in 32..126 /\ c \notin {Backslash, Quote} /\ t = <<c>>
    <2>1. Len(t) = 1 /\ t[1] = c
      BY <1>5
    <2>2. p \in 1..Len(s) /\ s[p] = c /\ p + Len(t) = p + 1
      BY <1>0, <1>1, <2>1
    <2>3. c \in 32..126 /\ c \notin {Quote, Backslash}
      BY <1>5
    <2> QED
      BY <2>2, <2>3, PlainIsRead
  <1>6. ASSUME NEW d1 \in HexDigits, NEW d2 \in HexDigits, c = HexDigit(d1) * 16 + HexDigit(d2),
               IsHexForm(t, d1, d2)
        PROVE  ReadsOn(from, p, c, p + Len(t))
    <2>1. /\ Len(t) = 6 /\ t[1] = Backslash /\ t[2] = LetterX /\ t[3] = d1 /\ t[4] = d2
          /\ t[5] = Quote /\ t[6] = Quote
      BY <1>6 DEF IsHexForm
    <2>2. /\ p + 6 <= Len(s) /\ s[p] = Backslash /\ s[p + 1] = LetterX /\ s[p + 2] = d1
          /\ s[p + 3] = d2 /\ s[p + 4] = Quote /\ s[p + 5] = Quote
      BY <1>0, <2>1
    <2>3. /\ CharAt(s, p + 1) = LetterX /\ CharAt(s, p + 2) = d1 /\ CharAt(s, p + 3) = d2
          /\ CharAt(s, p + 4) = Quote
      BY <1>1, <2>2 DEF CharAt
    <2>0. p + 6 <= Len(s)
      BY <2>2
    <2> DEFINE m == p + 1
               q == p + 4
    <2>4. m \in Nat /\ m + 1 = p + 2 /\ m + 2 = p + 3 /\ m + 3 = q /\ m + 3 <= Len(s)
      BY <1>1, <2>0
    <2>5. /\ CharAt(s, m) = LetterX /\ CharAt(s, m + 1) = d1 /\ CharAt(s, m + 2) = d2
          /\ CharAt(s, m + 3) \notin HexDigits
      <3>1. Quote \notin HexDigits
        BY DEF Quote, HexDigits
      <3> QED
        BY <2>3, <2>4, <3>1, Zenon
    <2>6. /\ p \in 1..Len(s) /\ q \in 1..Len(s) + 1 /\ q \in 1..Len(s) - 1
          /\ q + 2 = p + 6 /\ q + 1 = p + 5
      BY <1>0, <1>1, <2>2
    <2> HIDE DEF m
    <2>7. EscapeReads(s, m, c, m + 3)
      BY <1>6, <2>4, <2>5, HexIsRead
    <2>8. EscapeReads(s, p + 1, c, q)
      BY <2>4, <2>7 DEF m
    <2>9. s[q] = Quote /\ s[q + 1] = Quote
      BY <2>2, <2>6
    <2>10. p + Len(t) = q + 2
      BY <2>1, <2>6
    <2> HIDE DEF q
    <2>11. ReadsOn(from, p, c, q)
      BY <2>2, <2>6, <2>8, EscapeIsRead
    <2>12. from[q] = from[q + 2]
      BY <2>6, <2>9, QuotesAreSkipped
    <2> QED
      BY <2>10, <2>11, <2>12, Zenon DEF ReadsOn
  <1>7. Backslash \in 0..255 /\ Quote \in 0..255 /\ \A l \in DOMAIN Simple : l \in 0..255
    BY DEF Backslash, Quote, Simple
  <1>8. IsEscaped(c, t)
    BY EscapedForms, Zenon
  <1>9. CASE \E l \in {Backslash, Quote} : l = c /\ t = <<Backslash, l>>
    <2>1. PICK l \in {Backslash, Quote} : l = c /\ t = <<Backslash, l>>
      BY <1>9
    <2>2. l \in 0..255 /\ l \in {39, Quote, 63, Backslash}
      BY <1>7
    <2> QED
      BY <1>4, <2>1, <2>2, Zenon
  <1>10. CASE \E l \in DOMAIN Simple : Simple[l] = c /\ t = <<Backslash, l>>
    BY <1>4, <1>7, <1>10
  <1> QED
    BY <1>3, <1>5, <1>6, <1>8, <1>9, <1>10, Zenon DEF IsEscaped

----------------------------------------------------------------------------
(* A literal is read as it was written.                                    *)

(* The characters of s are escaped in L, the i-th one at at[i].            *)
IsLiteral(L, s, at) ==
  /\ L \in Chars /\ at \in [1..Len(s) + 1 -> Nat]
  /\ Len(L) >= 2 /\ at[1] = 2 /\ at[Len(s) + 1] = Len(L) /\ L[1] = Quote /\ L[Len(L)] = Quote
  /\ \A i \in 1..Len(s) :
       IsWritten(L, EscapeCharInString(s[i]), at[i], at[i + 1])

(* Each character has its place in what toString() writes.                 *)
LEMMA LiteralPlaces ==
  ASSUME NEW s \in Chars
  PROVE  \E at : IsLiteral(Literal(s), s, at)
  <1> DEFINE T == 0..255
             n == Len(s)
             seqs == [i \in DOMAIN s |-> EscapeCharInString(s[i])]
             L == Literal(s)
             quote == <<Quote>>
  <1>1. n \in Nat /\ DOMAIN s = 1..n /\ \A i \in 1..n : s[i] \in 0..255
    BY ElementOfSeq, LenProperties DEF Chars
  <1>2. \A i \in 1..n : EscapeCharInString(s[i]) \in Seq(T)
    <2> TAKE i \in 1..n
    <2>1. IsEscaped(s[i], EscapeCharInString(s[i]))
      BY <1>1, EscapedForms
    <2> QED
      BY <1>1, <2>1, EscapedIsSeq DEF Chars
  <1>3. seqs \in Seq(Seq(T)) /\ Len(seqs) = n /\ \A i \in 1..n : seqs[i] = EscapeCharInString(s[i])
    <2>1. seqs = [i \in 1..n |-> EscapeCharInString(s[i])]
      BY <1>1
    <2>2. seqs \in [1..n -> Seq(T)]
      BY <1>2, <2>1
    <2> HIDE DEF seqs
    <2>3. seqs \in Seq(Seq(T)) /\ Len(seqs) = n
      <3> HIDE DEF n, T
      <3> QED
        BY <1>1, <2>2, IsASeq
    <2> QED
      BY <2>1, <2>3
  <1> HIDE DEF seqs, T, n
  <1>4. PICK flat : IsFlat(flat, T, seqs) /\ FlattenSeq(seqs) = flat[Len(seqs)]
    BY <1>3, FlattenSeqIs
  <1>5. flat \in [0..n -> Seq(T)] /\ flat[0] = <<>>
    BY <1>3, <1>4 DEF IsFlat
  <1> DEFINE all == flat[n]
             size == [i \in 0..n |-> Len(flat[i])]
             at == [i \in 1..n + 1 |-> size[i - 1] + 2]
             y == quote \o all
             w == y \o quote
  <1>6. all \in Seq(T) /\ size[0] = 0 /\ size[n] = Len(all) /\ n \in 0..n
    BY <1>1, <1>5
  <1>7. quote \in Seq(T) /\ Len(quote) = 1 /\ quote[1] = Quote
    BY DEF T, Quote
  <1>8. L = w
    BY <1>3, <1>4 DEF Literal, seqs, n
  <1> HIDE DEF all, quote
  <1>9. y \in Seq(T) /\ IsJoined(y, quote, all)
    BY <1>6, <1>7, ConcatJoins
  <1> HIDE DEF y
  <1>10. w \in Seq(T) /\ IsJoined(w, y, quote)
    BY <1>7, <1>9, ConcatJoins
  <1> HIDE DEF w
  <1>11. Len(all) \in Nat /\ Len(y) \in Nat /\ Len(w) \in Nat
    BY <1>6, <1>9, <1>10
  <1>12. /\ Len(y) = 1 + Len(all) /\ y[1] = Quote
         /\ \A j \in 1..Len(all) : y[1 + j] = all[j]
    BY <1>7, <1>9, <1>11 DEF IsJoined
  <1>13. /\ Len(w) = 2 + Len(all) /\ w[Len(y) + 1] = Quote
         /\ \A j \in 1..Len(y) : w[j] = y[j]
    BY <1>7, <1>10, <1>11, <1>12 DEF IsJoined
  <1>14. w[1] = Quote /\ w[Len(w)] = Quote /\ \A j \in 1..Len(all) : w[1 + j] = all[j]
    <2>1. 1 \in 1..Len(y) /\ Len(y) + 1 = Len(w) /\ \A j \in 1..Len(all) : 1 + j \in 1..Len(y)
      BY <1>11, <1>12, <1>13
    <2> QED
      BY <1>12, <1>13, <2>1
  <1>15. \A i \in 1..n :
           /\ size[i] = size[i - 1] + Len(seqs[i]) /\ size[i - 1] \in Nat /\ Len(seqs[i]) \in Nat
           /\ size[i] <= Len(all)
           /\ \A k \in 1..Len(seqs[i]) : all[size[i - 1] + k] = seqs[i][k]
    <2> SUFFICES ASSUME NEW i \in 1..n
                 PROVE  /\ size[i] = size[i - 1] + Len(seqs[i]) /\ size[i - 1] \in Nat
                        /\ Len(seqs[i]) \in Nat /\ size[i] <= Len(all)
                        /\ \A k \in 1..Len(seqs[i]) : all[size[i - 1] + k] = seqs[i][k]
      OBVIOUS
    <2>1. IsPlaced(flat, seqs, i)
      <3>1. i \in 1..Len(seqs)
        BY <1>3
      <3> QED
        BY <1>3, <1>4, <3>1, FlatPlaces
    <2>2. size[i] = Len(flat[i]) /\ size[i - 1] = Len(flat[i - 1])
      BY <1>1
    <2> HIDE DEF size
    <2> QED
      BY <1>3, <2>1, <2>2 DEF all, IsPlaced
  <1>16. \A i \in 0..n : size[i] \in Nat
    BY <1>5
  <1> HIDE DEF size
  <1>17. at \in [1..n + 1 -> Nat] /\ at[1] = 2 /\ at[n + 1] = Len(w)
    <2>1. \A i \in 1..n + 1 : i - 1 \in 0..n
      BY <1>1
    <2>2. 1 \in 1..n + 1 /\ n + 1 \in 1..n + 1 /\ 1 - 1 = 0 /\ (n + 1) - 1 = n
      BY <1>1
    <2> QED
      BY <1>6, <1>11, <1>13, <1>16, <2>1, <2>2
  <1>18. \A i \in 1..n : at[i] = size[i - 1] + 2 /\ at[i + 1] = size[i] + 2
    BY <1>1
  <1> HIDE DEF at
  <1>19. ASSUME NEW i \in 1..n
         PROVE  IsWritten(w, seqs[i], at[i], at[i + 1])
    <2> DEFINE a == size[i - 1]
               l == Len(seqs[i])
               N == Len(all)
    <2>1. size[i] = a + l /\ a \in Nat /\ l \in Nat /\ a + l <= N
      BY <1>15
    <2>2. at[i] = a + 2 /\ at[i + 1] = a + l + 2 /\ Len(w) = 2 + N /\ N \in Nat
      BY <1>11, <1>13, <1>18, <2>1
    <2>3. \A k \in 1..l : all[a + k] = seqs[i][k]
      BY <1>15
    <2>4. \A j \in 1..N : w[1 + j] = all[j]
      BY <1>14
    <2> HIDE DEF a, l, N
    <2>5. at[i] >= 2 /\ at[i + 1] = at[i] + l /\ at[i + 1] <= Len(w)
      BY <2>1, <2>2
    <2>6. ASSUME NEW k \in 1..l
          PROVE  w[at[i] + k - 1] = seqs[i][k]
      <3>1. a + k \in 1..N /\ at[i] + k - 1 = 1 + (a + k)
        BY <2>1, <2>2
      <3>2. w[1 + (a + k)] = all[a + k]
        BY <2>4, <3>1
      <3> QED
        BY <2>3, <3>1, <3>2
    <2> QED
      BY <2>5, <2>6 DEF IsWritten, l
  <1>20. w \in Chars
    BY <1>10 DEF Chars, T
  <1>22. Len(w) >= 2
    BY <1>11, <1>13
  <1>21. IsLiteral(w, s, at)
    BY <1>22, <1>3, <1>14, <1>17, <1>19, <1>20 DEF IsLiteral, n
  <1> QED
    BY <1>8, <1>21

(* From the last character backwards, each place is read as the rest of    *)
(* the string.                                                             *)
LEMMA LiteralIsRead ==
  ASSUME NEW s \in Chars, NEW L, NEW at, IsLiteral(L, s, at), NEW from, IsDecoder(L, from)
  PROVE  from[2].out = s /\ from[2].bad = FALSE
  <1> DEFINE n == Len(s)
             Read(i) == from[at[i]].out = SubSeq(s, i, n) /\ from[at[i]].bad = FALSE
             Bad == {i \in 1..n + 1 : ~Read(i)}
  <1>1. n \in Nat /\ \A i \in 1..n : s[i] \in 0..255
    BY ElementOfSeq DEF Chars
  <1>2. /\ L \in Chars /\ at \in [1..n + 1 -> Nat] /\ at[1] = 2 /\ at[n + 1] = Len(L)
        /\ L[Len(L)] = Quote /\ Len(L) >= 2
    BY DEF IsLiteral
  <1>3. ASSUME NEW i \in 1..n
        PROVE  IsWritten(L, EscapeCharInString(s[i]), at[i], at[i + 1])
    BY DEF IsLiteral
  <1>4. Bad = {}
    <2> SUFFICES ASSUME Bad # {} PROVE FALSE
      OBVIOUS
    <2>1. PICK i \in Bad : \A j \in Bad : j <= i
      <3>1. Bad \in SUBSET (0..n + 1) /\ n + 1 \in Nat
        BY <1>1
      <3> HIDE DEF Bad, n
      <3> QED
        BY <1>1, <3>1, GreatestNumber
    <2>2. i \in 1..n + 1 /\ ~Read(i)
      OBVIOUS
    <2>3. CASE i = n + 1
      <3>1. Len(L) \in Nat
        BY <1>2 DEF Chars
      <3>2. Len(L) >= 1
        BY <1>2, <3>1
      <3> DEFINE p == Len(L)
      <3>3. EndsAt(from, p)
        <4>1. p = Len(L) /\ p >= 1 /\ L[p] = Quote
          BY <1>2, <3>2
        <4> HIDE DEF p
        <4> QED
          BY <1>2, <4>1, LastQuoteEnds
      <3>4. SubSeq(s, n + 1, n) = <<>>
        BY <1>1, SubSeqEmpty
      <3> QED
        BY <1>2, <2>2, <2>3, <3>3, <3>4 DEF EndsAt
    <2>4. CASE i # n + 1
      <3>1. i \in 1..n /\ i + 1 \in 1..n + 1 /\ ~(i + 1 <= i)
        BY <1>1, <2>2, <2>4
      <3>2. Read(i + 1)
        <4> HIDE DEF Read
        <4> QED
          BY <2>1, <3>1
      <3> DEFINE t == EscapeCharInString(s[i])
                 p == at[i]
                 c == s[i]
                 q == at[i + 1]
      <3>3. p \in Nat /\ IsWritten(L, t, p, q)
        BY <1>2, <1>3, <3>1
      <3>4. c \in 0..255 /\ t = EscapeCharInString(c)
        BY <1>1, <3>1
      <3> HIDE DEF t, p, c, q
      <3>5. ReadsOn(from, p, c, q)
        BY <1>2, <3>3, <3>4, CharacterIsRead
      <3>6. from[p].out = <<c>> \o from[q].out /\ from[p].bad = from[q].bad
        BY <3>5, Zenon DEF ReadsOn
      <3>7. SubSeq(s, i, n) = <<s[i]>> \o SubSeq(s, i + 1, n)
        <4>1. n \in i..Len(s) /\ i \in 1..Len(s)
          BY <1>1, <3>1
        <4> QED
          BY <4>1, SubSeqRecursiveFirst DEF Chars
      <3> QED
        BY <2>2, <3>2, <3>6, <3>7, Zenon DEF p, c, q
    <2> QED
      BY <2>3, <2>4
  <1>5. Read(1)
    <2>1. 1 \in 1..n + 1
      BY <1>1
    <2> HIDE DEF Read
    <2> QED
      BY <1>4, <2>1
  <1>6. SubSeq(s, 1, n) = s
    BY SubSeqFull DEF Chars
  <1> QED
    BY <1>2, <1>5, <1>6

(* The value of a line of the default file is the literal itself.          *)
LEMMA TrimmedLiteral ==
  ASSUME NEW L \in Chars, L # <<>>, L[1] = Quote, L[Len(L)] = Quote
  PROVE  Trimmed(L) = L
  <1> DEFINE n == Len(L)
             kept == {i \in DOMAIN L : ~IsSpaceOrControlChar(L[i])}
             first == CHOOSE i \in kept : \A j \in kept : i <= j
             last == CHOOSE i \in kept : \A j \in kept : i >= j
  <1>1. n \in Nat /\ n # 0 /\ DOMAIN L = 1..n
    <2>1. n \in Nat /\ DOMAIN L = 1..n
      BY LenProperties DEF Chars
    <2> QED
      BY <2>1, EmptySeq DEF Chars
  <1>2. kept \subseteq 1..n /\ 1 \in kept /\ n \in kept
    <2>1. ~IsSpaceOrControlChar(Quote)
      BY DEF IsSpaceOrControlChar, Quote
    <2> QED
      BY <1>1, <2>1
  <1> HIDE DEF kept
  <1>3. first = 1
    <2>1. 1 \in kept /\ \A j \in kept : 1 <= j
      BY <1>1, <1>2
    <2>2. first \in kept /\ \A j \in kept : first <= j
      BY <2>1
    <2> HIDE DEF first
    <2>3. first <= 1 /\ first \in 1..n
      BY <1>2, <2>1, <2>2
    <2> QED
      BY <1>1, <2>3
  <1>4. last = n
    <2>1. n \in kept /\ \A j \in kept : n >= j
      BY <1>1, <1>2
    <2>2. last \in kept /\ \A j \in kept : last >= j
      BY <2>1
    <2> HIDE DEF last
    <2>3. last >= n /\ last \in 1..n
      BY <1>2, <2>1, <2>2
    <2>4. n \in Nat
      BY <1>1
    <2> HIDE DEF n
    <2> QED
      BY <2>3, <2>4
  <1>5. Trimmed(L) = IF kept = {} THEN <<>> ELSE SubSeq(L, first, last)
    BY DEF Trimmed, kept
  <1>6. SubSeq(L, 1, n) = L
    BY SubSeqFull DEF Chars
  <1> QED
    BY <1>2, <1>3, <1>4, <1>5, <1>6, Zenon

(* No blank of the literal is trimmed, and no equals sign in it ends the   *)
(* name.                                                                   *)
LEMMA ValueIsLiteral ==
  ASSUME NEW L \in Chars, L # <<>>, L[1] = Quote, L[Len(L)] = Quote
  PROVE  ParseNameValue(<<LetterX, Equals>> \o L) = L
  <1> DEFINE name == <<LetterX, Equals>>
             line == name \o L
             found == {i \in 1..Len(line) : line[i] = Equals}
  <1>1. name \in Chars /\ Len(name) = 2 /\ name[1] = LetterX /\ name[2] = Equals
    BY DEF Chars, LetterX, Equals
  <1>2. Len(L) \in Nat /\ Len(L) # 0
    BY EmptySeq DEF Chars
  <1> HIDE DEF name
  <1>3. line \in Chars /\ IsJoined(line, name, L)
    BY <1>1, ConcatJoins DEF Chars
  <1>4. Len(line) = 2 + Len(L) /\ line[1] = LetterX /\ line[2] = Equals
    BY <1>1, <1>2, <1>3 DEF IsJoined
  <1> HIDE DEF line
  <1>5. SelectInSeq(line, LAMBDA c : c = Equals) = IF found # {} THEN Min(found) ELSE 0
    BY DEF SelectInSeq
  <1>6. 2 \in found /\ \A i \in found : 2 <= i
    <2>1. LetterX # Equals
      BY DEF LetterX, Equals
    <2> QED
      BY <1>2, <1>4, <2>1
  <1>7. Min(found) = 2
    <2>1. found \subseteq Nat
      BY <1>2, <1>4
    <2> HIDE DEF found
    <2>2. Min(found) \in found /\ \A i \in found : Min(found) <= i
      BY <1>6 DEF Min
    <2>3. Min(found) \in Nat /\ Min(found) <= 2 /\ 2 <= Min(found)
      BY <1>6, <2>1, <2>2
    <2> QED
      BY <2>3
  <1>8. SelectInSeq(line, LAMBDA c : c = Equals) = 2
    BY <1>5, <1>6, <1>7
  <1>9. SubSeq(line, 2 + 1, Len(line)) = L
    <2> DEFINE m == 2 + 1
               k == 2 + Len(L)
    <2>1. /\ m \in Len(name) + 1..Len(name) + Len(L) /\ k \in Len(name) + 1..Len(name) + Len(L)
          /\ m - Len(name) = 1 /\ k - Len(name) = Len(L)
      BY <1>1, <1>2
    <2>2. SubSeq(name \o L, m, k) = SubSeq(L, 1, Len(L))
      <3> HIDE DEF m, k
      <3> DEFINE T == 0..255
      <3>1. name \in Seq(T) /\ L \in Seq(T)
        BY <1>1 DEF Chars
      <3> HIDE DEF T
      <3>2. SubSeq(name \o L, m, k) = SubSeq(L, m - Len(name), k - Len(name))
        BY <2>1, <3>1, SubSeqOfConcat2
      <3> QED
        BY <2>1, <3>2, Zenon
    <2>3. SubSeq(L, 1, Len(L)) = L
      BY SubSeqFull DEF Chars
    <2> QED
      BY <1>4, <2>2, <2>3, Zenon DEF line
  <1>10. ParseNameValue(line) = Trimmed(SubSeq(line, 2 + 1, Len(line)))
    BY <1>8 DEF ParseNameValue
  <1>11. Trimmed(L) = L
    BY TrimmedLiteral
  <1> QED
    BY <1>9, <1>10, <1>11, Zenon DEF line, name

TextTyped == text \in Chars

(* A text is a string of bytes.                                            *)
LEMMA TextIsTyped == TextSpec => []TextTyped
  <1>1. TextInit => TextTyped
    BY EmptySeq DEF TextInit, TextTyped, Chars
  <1>2. TextTyped /\ [TextNext]_text => TextTyped'
    <2> SUFFICES ASSUME TextTyped, [TextNext]_text
                 PROVE  TextTyped'
      OBVIOUS
    <2>1. ASSUME NEW c \in Characters, AppendCharacter(c)
          PROVE  TextTyped'
      <3>1. c \in 0..255
        BY CharAssumption
      <3> QED
        BY <2>1, <3>1, AppendProperties DEF TextTyped, AppendCharacter, Chars
    <2> QED
      BY <2>1 DEF TextNext, TextTyped
  <1> QED
    BY <1>1, <1>2, PTL DEF TextSpec

(* The decoder, and reload(), read what toString() has written.            *)
LEMMA StringIsReadBack ==
  ASSUME TextTyped
  PROVE  WrittenIsRead
  <1> DEFINE L == Literal(text)
  <1>1. text \in Chars
    BY DEF TextTyped
  <1>2. PICK at : IsLiteral(L, text, at)
    BY <1>1, LiteralPlaces
  <1>3. L \in Chars /\ L[1] = Quote /\ L[Len(L)] = Quote /\ Len(L) >= 2
    BY <1>2 DEF IsLiteral
  <1>4. L # <<>> /\ CharAt(L, 1) = Quote
    <2>1. Len(L) \in Nat
      BY <1>3 DEF Chars
    <2>2. Len(L) # 0 /\ 1 <= Len(L)
      BY <1>3, <2>1
    <2>3. L # <<>>
      BY <2>2
    <2> QED
      BY <1>3, <2>2, <2>3 DEF CharAt
  <1> HIDE DEF L
  <1>5. PICK from :
          /\ IsDecoder(L, from)
          /\ Decoded(L) = IF CharAt(L, 1) = Quote THEN from[2]
                          ELSE [out |-> L, bad |-> TRUE, last |-> 1]
    BY <1>3, DecodedIs
  <1> DEFINE decoded == Decoded(L)
  <1>6. decoded = from[2]
    BY <1>4, <1>5, Zenon
  <1>7. from[2].out = text /\ from[2].bad = FALSE
    BY <1>1, <1>2, <1>5, LiteralIsRead
  <1>8. from[2] \in DecodingResults
    <2>1. 2 \in 1..Len(L) + 2
      BY <1>3 DEF Chars
    <2> QED
      BY <1>5, <2>1 DEF IsDecoder
  <1>9. decoded.out = text /\ decoded.bad = FALSE /\ decoded \in DecodingResults
    BY <1>6, <1>7, <1>8, Zenon
  <1> DEFINE reloaded == ReloadedString(DefaultLine(text))
  <1>10. ParseNameValue(DefaultLine(text)) = L
    BY <1>3, <1>4, ValueIsLiteral DEF DefaultLine, L
  <1>11. reloaded = [decoded EXCEPT !.bad = @ \/ 0 \in Range(decoded.out)]
    BY <1>4, <1>10 DEF ReloadedString
  <1> HIDE DEF decoded
  <1>12. reloaded.out = text /\ (reloaded.bad <=> 0 \in Range(text))
    BY <1>9, <1>11 DEF DecodingResults
  <1> QED
    BY <1>9, <1>12 DEF WrittenIsRead, decoded, L

(* The decoder reads any string at all within its end.                     *)
LEMMA DecoderIsInside ==
  ASSUME TextTyped
  PROVE  DecoderStaysInside
  <1>1. text \in Chars
    BY DEF TextTyped
  <1>2. <<Quote>> \o text \in Chars
    <2>1. <<Quote>> \in Chars
      BY DEF Chars, Quote
    <2> QED
      BY <1>1, <2>1, ConcatProperties DEF Chars
  <1> QED
    BY <1>1, <1>2, DecodedStaysInside DEF DecoderStaysInside

----------------------------------------------------------------------------
(* UuidStrings: the digits of a string.                                    *)

(* The digits among the first characters of s.                             *)
AreKept(kept, s) ==
  /\ kept \in [0..Len(s) -> Chars] /\ kept[0] = <<>>
  /\ \A i \in 1..Len(s) :
       kept[i] = IF s[i] \in Skipped THEN kept[i - 1] ELSE Append(kept[i - 1], s[i])

(* The computation of the digits exists.                                   *)
LEMMA DigitsAreKept ==
  ASSUME NEW s \in Chars
  PROVE  \E kept : AreKept(kept, s) /\ DigitsOf(s) = kept[Len(s)]
  <1> DEFINE n == Len(s)
             step == [x \in Chars \X (1..n) |->
                        IF s[x[2]] \in Skipped THEN x[1] ELSE Append(x[1], s[x[2]])]
             Keeps(f) ==
               f = [i \in 0..n |->
                      IF i = 0 THEN <<>>
                      ELSE IF s[i] \in Skipped THEN f[i - 1] ELSE Append(f[i - 1], s[i])]
             keep == CHOOSE f : Keeps(f)
  <1>1. n \in Nat /\ <<>> \in Chars /\ \A i \in 1..n : s[i] \in 0..255
    BY EmptySeq, ElementOfSeq DEF Chars
  <1>2. step \in [Chars \X (1..n) -> Chars]
    <2>1. \A x \in Chars \X (1..n) : Append(x[1], s[x[2]]) \in Chars
      BY <1>1, AppendProperties DEF Chars
    <2> QED
      BY <2>1
  <1>3. PICK f : f \in Computations(Chars, <<>>, n, step)
    <2> HIDE DEF step, n
    <2> QED
      BY <1>1, <1>2, ComputationExists
  <1>4. f \in [0..n -> Chars] /\ f[0] = <<>> /\ \A i \in 1..n : f[i] = step[<<f[i - 1], i>>]
    BY <1>3 DEF Computations
  <1>5. \A i \in 1..n : f[i - 1] \in Chars
    <2>1. \A i \in 1..n : i - 1 \in 0..n
      BY <1>1
    <2> QED
      BY <1>4, <2>1
  <1>6. \A i \in 1..n : f[i] = IF s[i] \in Skipped THEN f[i - 1] ELSE Append(f[i - 1], s[i])
    BY <1>4, <1>5
  <1>7. Keeps(f)
    <2>1. \A i \in 0..n : i # 0 => i \in 1..n
      BY <1>1
    <2> QED
      BY <1>4, <1>6, <2>1
  <1>8. Keeps(keep)
    <2> HIDE DEF Keeps
    <2> QED
      BY <1>7
  <1>9. DigitsOf(s) = keep[n]
    BY DEF DigitsOf
  <1> HIDE DEF keep, step
  <1>10. keep[0] = <<>> /\ \A i \in 1..n :
           keep[i] = IF s[i] \in Skipped THEN keep[i - 1] ELSE Append(keep[i - 1], s[i])
    <2>1. 0 \in 0..n /\ \A i \in 1..n : i \in 0..n /\ i # 0
      BY <1>1
    <2> QED
      BY <1>8, <2>1
  <1>11. \A i \in 0..n : keep[i] \in Chars
    <2> DEFINE Bad == {i \in 0..n : keep[i] \notin Chars}
    <2> SUFFICES ASSUME Bad # {} PROVE FALSE
      OBVIOUS
    <2>1. PICK i \in Bad : \A m \in Bad : i <= m
      <3>1. Bad \in SUBSET Nat
        BY <1>1
      <3> HIDE DEF Bad
      <3> QED
        BY <3>1, LeastNumber
    <2>2. i # 0
      BY <1>1, <1>10
    <2>3. i \in 1..n /\ i - 1 \in 0..n /\ ~(i <= i - 1)
      BY <1>1, <2>2
    <2>4. keep[i - 1] \in Chars
      BY <2>1, <2>3
    <2>5. keep[i] \in Chars
      <3>1. Append(keep[i - 1], s[i]) \in Chars
        BY <1>1, <2>3, <2>4, AppendProperties DEF Chars
      <3> QED
        BY <1>10, <2>3, <2>4, <3>1
    <2> QED
      BY <2>1, <2>5
  <1>12. keep \in [0..n -> Chars]
    BY <1>8, <1>11
  <1>13. AreKept(keep, s)
    BY <1>10, <1>12 DEF AreKept
  <1> QED
    BY <1>9, <1>13

LEMMA DigitsAreChars ==
  ASSUME NEW s \in Chars
  PROVE  DigitsOf(s) \in Chars
  <1>1. PICK kept : AreKept(kept, s) /\ DigitsOf(s) = kept[Len(s)]
    BY DigitsAreKept
  <1>2. Len(s) \in 0..Len(s)
    BY DEF Chars
  <1> QED
    BY <1>1, <1>2 DEF AreKept

(* The digits of two strings, one after another, and of a character.       *)
LEMMA DigitsJoined ==
  ASSUME NEW s \in Chars, NEW t \in Chars
  PROVE  DigitsOf(s \o t) = DigitsOf(s) \o DigitsOf(t)
  <1> DEFINE w == s \o t
             n == Len(s)
             m == Len(t)
  <1>1. n \in Nat /\ m \in Nat /\ w \in Chars /\ IsJoined(w, s, t)
    BY ConcatJoins DEF Chars
  <1> HIDE DEF w
  <1>2. Len(w) = n + m /\ (\A i \in 1..n : w[i] = s[i]) /\ \A i \in 1..m : w[n + i] = t[i]
    BY <1>1 DEF IsJoined
  <1>3. PICK ks : AreKept(ks, s) /\ DigitsOf(s) = ks[n]
    BY DigitsAreKept
  <1>4. PICK kt : AreKept(kt, t) /\ DigitsOf(t) = kt[m]
    BY DigitsAreKept
  <1>5. PICK kw : AreKept(kw, w) /\ DigitsOf(w) = kw[n + m]
    BY <1>1, <1>2, DigitsAreKept
  <1>6. \A i \in 1..n : s[i] \in 0..255
    BY ElementOfSeq DEF Chars
  <1>7. \A i \in 1..m : t[i] \in 0..255
    BY ElementOfSeq DEF Chars
  <1> HIDE DEF n, m
  <1>8. /\ ks \in [0..n -> Chars] /\ ks[0] = <<>>
        /\ \A i \in 1..n : ks[i] = IF s[i] \in Skipped THEN ks[i - 1] ELSE Append(ks[i - 1], s[i])
    BY <1>3 DEF AreKept, n
  <1>9. /\ kt \in [0..m -> Chars] /\ kt[0] = <<>>
        /\ \A i \in 1..m : kt[i] = IF t[i] \in Skipped THEN kt[i - 1] ELSE Append(kt[i - 1], t[i])
    BY <1>4 DEF AreKept, m
  <1>10. /\ kw[0] = <<>>
         /\ \A i \in 1..n + m :
              kw[i] = IF w[i] \in Skipped THEN kw[i - 1] ELSE Append(kw[i - 1], w[i])
    BY <1>2, <1>5 DEF AreKept
  <1>11. \A i \in 0..n : kw[i] = ks[i]
    <2> DEFINE Bad == {i \in 0..n : kw[i] # ks[i]}
    <2> SUFFICES ASSUME Bad # {} PROVE FALSE
      OBVIOUS
    <2>1. PICK i \in Bad : \A j \in Bad : i <= j
      <3>1. Bad \in SUBSET Nat
        BY <1>1
      <3> HIDE DEF Bad
      <3> QED
        BY <3>1, LeastNumber
    <2>2. i # 0
      BY <1>8, <1>10
    <2>3. i \in 1..n /\ i - 1 \in 0..n /\ ~(i <= i - 1) /\ i \in 1..n + m
      BY <1>1, <2>2
    <2>4. kw[i - 1] = ks[i - 1] /\ w[i] = s[i]
      BY <1>2, <2>1, <2>3
    <2> QED
      BY <1>8, <1>10, <2>1, <2>3, <2>4
  <1>12. \A i \in 0..m : kw[n + i] = ks[n] \o kt[i]
    <2> DEFINE Extends(i) == kw[n + i] = ks[n] \o kt[i]
               Bad == {i \in 0..m : ~Extends(i)}
    <2> SUFFICES ASSUME Bad # {} PROVE FALSE
      OBVIOUS
    <2>0. n \in 0..n /\ ks[n] \in Chars
      BY <1>1, <1>8
    <2>1. PICK i \in Bad : \A j \in Bad : i <= j
      <3>1. Bad \in SUBSET Nat
        <4> HIDE DEF Extends
        <4> QED
          BY <1>1
      <3> HIDE DEF Bad
      <3> QED
        BY <3>1, LeastNumber
    <2>2. i # 0
      <3>1. ks[n] \o <<>> = ks[n]
        BY <2>0, ConcatEmptySeq DEF Chars
      <3>2. n + 0 = n
        BY <1>1
      <3>3. kw[n + 0] = ks[n] \o kt[0]
        BY <1>9, <1>11, <2>0, <3>1, <3>2
      <3> QED
        BY <3>3
    <2>3. /\ i \in 1..m /\ i - 1 \in 0..m /\ ~(i <= i - 1) /\ n + i \in 1..n + m
          /\ (n + i) - 1 = n + (i - 1) /\ i \in 0..m
      BY <1>1, <2>2
    <2> DEFINE a == ks[n]
               b == kt[i - 1]
               c == t[i]
    <2>4. kw[(n + i) - 1] = a \o b
      BY <2>1, <2>3
    <2>5. w[n + i] = c /\ c \in 0..255
      BY <1>2, <1>7, <2>3
    <2>6. a \in Chars /\ b \in Chars
      BY <1>9, <2>0, <2>3
    <2>7. kw[n + i] = IF c \in Skipped THEN a \o b ELSE Append(a \o b, c)
      BY <1>10, <2>3, <2>4, <2>5
    <2>8. kt[i] = IF c \in Skipped THEN b ELSE Append(b, c)
      BY <1>9, <2>3
    <2>9. kw[n + i] # a \o kt[i]
      BY <2>1
    <2> HIDE DEF a, b, c
    <2>10. Append(a \o b, c) = a \o Append(b, c)
      <3> DEFINE one == <<c>>
      <3>1. one \in Chars /\ a \o b \in Chars
        BY <2>5, <2>6, ConcatProperties DEF Chars
      <3>2. Append(a \o b, c) = (a \o b) \o one /\ Append(b, c) = b \o one
        BY <2>5, <2>6, <3>1, AppendIsConcat DEF Chars
      <3> HIDE DEF one
      <3>3. (a \o b) \o one = a \o (b \o one)
        BY <2>6, <3>1, ConcatAssociative DEF Chars
      <3> QED
        BY <3>2, <3>3, Zenon
    <2> QED
      BY <2>7, <2>8, <2>9, <2>10, Zenon
  <1>13. kw[n + m] = ks[n] \o kt[m]
    <2>1. m \in 0..m
      BY <1>1
    <2> QED
      BY <1>12, <2>1, Zenon
  <1> QED
    BY <1>3, <1>4, <1>5, <1>13, Zenon DEF w

(* A character is a digit, or is skipped.                                  *)
LEMMA DigitsOfOne ==
  ASSUME NEW c \in 0..255
  PROVE  DigitsOf(<<c>>) = IF c \in Skipped THEN <<>> ELSE <<c>>
  <1> DEFINE s == <<c>>
  <1>1. s \in Chars /\ Len(s) = 1 /\ s[1] = c
    BY DEF Chars
  <1> HIDE DEF s
  <1>2. PICK kept : AreKept(kept, s) /\ DigitsOf(s) = kept[Len(s)]
    BY <1>1, DigitsAreKept
  <1>3. kept[0] = <<>> /\ kept[1] = IF c \in Skipped THEN kept[0] ELSE Append(kept[0], c)
    <2>1. kept[1] = IF s[1] \in Skipped THEN kept[1 - 1] ELSE Append(kept[1 - 1], s[1])
      BY <1>1, <1>2 DEF AreKept
    <2>2. 1 - 1 = 0
      OBVIOUS
    <2> QED
      BY <1>1, <1>2, <2>1, <2>2, Zenon DEF AreKept
  <1>4. Append(<<>>, c) = <<c>>
    OBVIOUS
  <1> QED
    BY <1>1, <1>2, <1>3, <1>4, Zenon DEF s

LEMMA DigitsOfNone == DigitsOf(<<>>) = <<>>
  <1>1. <<>> \in Chars /\ Len(<<>>) = 0
    BY EmptySeq DEF Chars
  <1>2. PICK kept : AreKept(kept, <<>>) /\ DigitsOf(<<>>) = kept[Len(<<>>)]
    BY <1>1, DigitsAreKept
  <1> QED
    BY <1>1, <1>2, Zenon DEF AreKept

(* A string of digits only is what it is.                                  *)
LEMMA DigitsOfDigits ==
  ASSUME NEW s \in Chars, \A i \in 1..Len(s) : s[i] \notin Skipped
  PROVE  DigitsOf(s) = s
  <1> DEFINE n == Len(s)
  <1>1. n \in Nat /\ \A i \in 1..n : s[i] \in 0..255
    BY ElementOfSeq DEF Chars
  <1>2. PICK kept : AreKept(kept, s) /\ DigitsOf(s) = kept[n]
    BY DigitsAreKept
  <1>3. kept[0] = <<>> /\ \A i \in 1..n : kept[i] = Append(kept[i - 1], s[i])
    BY <1>2 DEF AreKept
  <1> DEFINE Bad == {i \in 0..n : kept[i] # SubSeq(s, 1, i)}
  <1>4. Bad = {}
    <2> SUFFICES ASSUME Bad # {} PROVE FALSE
      OBVIOUS
    <2>1. PICK i \in Bad : \A j \in Bad : i <= j
      <3>1. Bad \in SUBSET Nat
        BY <1>1
      <3> HIDE DEF Bad
      <3> QED
        BY <3>1, LeastNumber
    <2>2. i # 0
      <3>1. SubSeq(s, 1, 0) = <<>>
        BY SubSeqEmpty
      <3> QED
        BY <1>3, <3>1
    <2>3. i \in 1..n /\ i - 1 \in 0..n /\ ~(i <= i - 1) /\ kept[i] # SubSeq(s, 1, i)
      BY <1>1, <2>2
    <2> DEFINE before == SubSeq(s, 1, i - 1)
               c == s[i]
    <2>4. kept[i - 1] = before /\ c \in 0..255
      BY <1>1, <2>1, <2>3
    <2>5. before \in Chars
      <3>1. \A k \in 1..i - 1 : s[k] \in 0..255
        BY <1>1, <2>3
      <3>2. 1 \in Int /\ i - 1 \in Int
        BY <1>1, <2>3
      <3> QED
        BY <3>1, <3>2, SubSeqProperties DEF Chars
    <2>6. SubSeq(s, 1, i) = before \o <<c>>
      <3>1. 1 \in 1..n /\ i \in 1..n
        BY <1>1, <2>3
      <3> QED
        BY <3>1, SubSeqRecursiveSecond DEF Chars
    <2>7. kept[i] = Append(before, c)
      BY <1>3, <2>3, <2>4
    <2> HIDE DEF before, c
    <2>8. Append(before, c) = before \o <<c>>
      BY <2>4, <2>5, AppendIsConcat DEF Chars
    <2> QED
      BY <2>3, <2>6, <2>7, <2>8, Zenon
  <1>5. kept[n] = SubSeq(s, 1, n)
    BY <1>1, <1>4
  <1>6. SubSeq(s, 1, n) = s
    BY SubSeqFull DEF Chars
  <1> QED
    BY <1>2, <1>5, <1>6, Zenon

(* There are no more digits than characters.                               *)
LEMMA NoMoreDigits ==
  ASSUME NEW s \in Chars
  PROVE  Len(DigitsOf(s)) \in Nat /\ Len(DigitsOf(s)) <= Len(s)
  <1> DEFINE n == Len(s)
  <1>1. n \in Nat /\ \A i \in 1..n : s[i] \in 0..255
    BY ElementOfSeq DEF Chars
  <1>2. PICK kept : AreKept(kept, s) /\ DigitsOf(s) = kept[n]
    BY DigitsAreKept
  <1>3. /\ kept \in [0..n -> Chars] /\ kept[0] = <<>>
        /\ \A i \in 1..n :
             kept[i] = IF s[i] \in Skipped THEN kept[i - 1] ELSE Append(kept[i - 1], s[i])
    BY <1>2 DEF AreKept
  <1> DEFINE Bad == {i \in 0..n : ~(Len(kept[i]) <= i)}
  <1>4. Bad = {}
    <2> SUFFICES ASSUME Bad # {} PROVE FALSE
      OBVIOUS
    <2>1. PICK i \in Bad : \A j \in Bad : i <= j
      <3>1. Bad \in SUBSET Nat
        BY <1>1
      <3> HIDE DEF Bad
      <3> QED
        BY <3>1, LeastNumber
    <2>2. i # 0
      BY <1>3
    <2>3. i \in 1..n /\ i - 1 \in 0..n /\ ~(i <= i - 1) /\ ~(Len(kept[i]) <= i)
      BY <1>1, <2>2
    <2> DEFINE before == kept[i - 1]
               c == s[i]
    <2>4. before \in Chars /\ Len(before) <= i - 1 /\ c \in 0..255
      BY <1>1, <1>3, <2>1, <2>3
    <2>5. kept[i] = IF c \in Skipped THEN before ELSE Append(before, c)
      BY <1>3, <2>3
    <2> HIDE DEF before, c
    <2>6. Len(Append(before, c)) = Len(before) + 1 /\ Len(before) \in Nat
      BY <2>4, AppendProperties DEF Chars
    <2>7. Len(kept[i]) = Len(before) \/ Len(kept[i]) = Len(before) + 1
      BY <2>5, <2>6
    <2> QED
      BY <2>3, <2>4, <2>6, <2>7
  <1>5. Len(kept[n]) <= n
    BY <1>1, <1>4
  <1>6. DigitsOf(s) \in Chars
    BY DigitsAreChars
  <1> QED
    BY <1>2, <1>5, <1>6 DEF Chars

----------------------------------------------------------------------------
(* The two digits of a byte are read as it.                                *)
LEMMA HexByteIs ==
  ASSUME NEW byte \in 0..255, NEW isUppercase \in BOOLEAN
  PROVE  \E d1 \in HexDigits, d2 \in HexDigits :
           HexByte(byte, isUppercase) = <<d1, d2>> /\ ByteOf(d1, d2) = byte
  <1> DEFINE Digit(n) == IF n < 10 THEN 48 + n ELSE IF isUppercase THEN 55 + n ELSE 87 + n
             d1 == Digit(byte \div 16)
             d2 == Digit(byte % 16)
  <1>1. byte \div 16 \in 0..15 /\ byte % 16 \in 0..15 /\ byte = (byte \div 16) * 16 + (byte % 16)
    BY DigitsOfByte
  <1>2. \A n \in 0..15 : Digit(n) \in HexDigits /\ HexDigit(Digit(n)) = n
    <2>1. CASE isUppercase
      BY <2>1 DEF HexDigits, HexDigit
    <2>2. CASE ~isUppercase
      BY <2>2 DEF HexDigits, HexDigit
    <2> QED
      BY <2>1, <2>2
  <1>3. HexByte(byte, isUppercase) = <<d1, d2>>
    BY DEF HexByte
  <1> HIDE DEF Digit
  <1>4. /\ d1 \in HexDigits /\ d2 \in HexDigits /\ HexDigit(d1) = byte \div 16
        /\ HexDigit(d2) = byte % 16
    BY <1>1, <1>2
  <1> HIDE DEF d1, d2
  <1>5. ByteOf(d1, d2) = byte
    <2>1. d1 # 0 /\ d2 # 0 /\ d1 \notin {11, 12, 13, 43}
      BY <1>4 DEF HexDigits
    <2>2. HexDigit(d1) >= 0 /\ HexDigit(d2) >= 0
      BY <1>1, <1>4
    <2>3. ByteOf(d1, d2) = HexDigit(d1) * 16 + HexDigit(d2)
      BY <2>1, <2>2, Zenon DEF ByteOf
    <2> QED
      BY <1>1, <1>4, <2>3
  <1> QED
    BY <1>3, <1>4, <1>5, Zenon

(* The bytes of a UUID from first to last are read of these digits.        *)
HoldsBytes(b, uuid, first, last) ==
  /\ b \in Chars /\ Len(b) = 2 * (last - first + 1)
  /\ \A j \in 1..Len(b) : b[j] \in HexDigits
  /\ \A i \in first..last : ByteOf(b[2 * (i - first) + 1], b[2 * (i - first) + 2]) = uuid[i]

(* Bytes are held by the digits that follow those of the bytes before      *)
(* them.                                                                   *)
LEMMA BytesJoined ==
  ASSUME NEW a, NEW b, NEW uuid,
         NEW first \in Nat, NEW m \in Nat, NEW next \in Nat, NEW last \in Nat,
         first <= m + 1, next = m + 1, m <= last,
         HoldsBytes(a, uuid, first, m), HoldsBytes(b, uuid, next, last)
  PROVE  HoldsBytes(a \o b, uuid, first, last)
  <1> DEFINE w == a \o b
             la == Len(a)
             lb == Len(b)
  <1>1. a \in Chars /\ b \in Chars
    BY DEF HoldsBytes
  <1>2. w \in Chars /\ IsJoined(w, a, b)
    BY <1>1, ConcatJoins DEF Chars
  <1>3. la = 2 * (m - first + 1) /\ lb = 2 * (last - next + 1) /\ la \in Nat /\ lb \in Nat
    BY <1>1 DEF HoldsBytes, Chars
  <1> HIDE DEF w
  <1>4. Len(w) = la + lb /\ (\A i \in 1..la : w[i] = a[i]) /\ \A i \in 1..lb : w[la + i] = b[i]
    BY <1>2 DEF IsJoined
  <1>5. /\ \A j \in 1..la : a[j] \in HexDigits
        /\ \A j \in 1..lb : b[j] \in HexDigits
    BY DEF HoldsBytes
  <1>6. /\ \A i \in first..m : ByteOf(a[2 * (i - first) + 1], a[2 * (i - first) + 2]) = uuid[i]
        /\ \A i \in next..last : ByteOf(b[2 * (i - next) + 1], b[2 * (i - next) + 2]) = uuid[i]
    BY DEF HoldsBytes
  <1> HIDE DEF la, lb
  <1>7. Len(w) = 2 * (last - first + 1)
    BY <1>3, <1>4
  <1>8. ASSUME NEW j \in 1..Len(w)
        PROVE  w[j] \in HexDigits
    <2>1. CASE j <= la
      BY <1>3, <1>4, <1>5, <2>1
    <2>2. CASE ~(j <= la)
      <3>1. j - la \in 1..lb /\ la + (j - la) = j
        BY <1>3, <1>4, <2>2
      <3>2. w[la + (j - la)] = b[j - la] /\ b[j - la] \in HexDigits
        BY <1>4, <1>5, <3>1
      <3> QED
        BY <3>1, <3>2
    <2> QED
      BY <2>1, <2>2
  <1>9. ASSUME NEW i \in first..last
        PROVE  ByteOf(w[2 * (i - first) + 1], w[2 * (i - first) + 2]) = uuid[i]
    <2>1. CASE i <= m
      <3> DEFINE x == 2 * (i - first) + 1
                 y == 2 * (i - first) + 2
      <3>1. x \in 1..la /\ y \in 1..la /\ i \in first..m
        BY <1>3, <2>1
      <3>2. ByteOf(a[x], a[y]) = uuid[i]
        BY <1>6, <3>1
      <3> HIDE DEF x, y
      <3>3. w[x] = a[x] /\ w[y] = a[y]
        BY <1>4, <3>1
      <3>4. ByteOf(w[x], w[y]) = uuid[i]
        BY <3>2, <3>3, Zenon
      <3> QED
        BY <3>4 DEF x, y
    <2>2. CASE ~(i <= m)
      <3> DEFINE x == 2 * (i - next) + 1
                 y == 2 * (i - next) + 2
      <3>1. /\ x \in 1..lb /\ y \in 1..lb /\ i \in next..last
            /\ la + x = 2 * (i - first) + 1 /\ la + y = 2 * (i - first) + 2
        BY <1>3, <2>2
      <3>2. ByteOf(b[x], b[y]) = uuid[i]
        BY <1>6, <3>1
      <3> HIDE DEF x, y
      <3>3. w[la + x] = b[x] /\ w[la + y] = b[y]
        BY <1>4, <3>1
      <3> QED
        BY <3>1, <3>2, <3>3, Zenon
    <2> QED
      BY <2>1, <2>2
  <1> QED
    BY <1>2, <1>7, <1>8, <1>9 DEF HoldsBytes, w

LEMMA NoBytes ==
  ASSUME NEW uuid, NEW first \in Nat, NEW last \in Nat, first = last + 1
  PROVE  HoldsBytes(<<>>, uuid, first, last)
  <1>1. <<>> \in Chars /\ Len(<<>>) = 0 /\ 2 * (last - first + 1) = 0
    BY EmptySeq DEF Chars
  <1>2. \A i \in first..last : FALSE
    OBVIOUS
  <1>3. \A j \in 1..0 : FALSE
    OBVIOUS
  <1> QED
    BY <1>1, <1>2, <1>3, Zenon DEF HoldsBytes

(* One byte is held by the digits that toStdString() writes.               *)
LEMMA OneByte ==
  ASSUME NEW uuid, NEW i \in Nat, uuid[i] \in 0..255, NEW isUppercase \in BOOLEAN
  PROVE  HoldsBytes(HexByte(uuid[i], isUppercase), uuid, i, i)
  <1> DEFINE byte == uuid[i]
             b == HexByte(byte, isUppercase)
  <1>1. PICK d1 \in HexDigits, d2 \in HexDigits : b = <<d1, d2>> /\ ByteOf(d1, d2) = byte
    <2>1. byte \in 0..255
      OBVIOUS
    <2> HIDE DEF byte
    <2> QED
      BY <2>1, HexByteIs
  <1> HIDE DEF b, byte
  <1>2. d1 \in 0..255 /\ d2 \in 0..255
    BY DEF HexDigits
  <1>3. b \in Chars /\ Len(b) = 2 /\ b[1] = d1 /\ b[2] = d2
    BY <1>1, <1>2 DEF Chars
  <1>4. \A j \in 1..2 : b[j] \in HexDigits
    <2>1. \A j \in 1..2 : j = 1 \/ j = 2
      OBVIOUS
    <2> QED
      BY <1>3, <2>1, Zenon
  <1>5. 2 * (i - i + 1) = 2 /\ 2 * (i - i) + 1 = 1 /\ 2 * (i - i) + 2 = 2
    OBVIOUS
  <1>6. \A j \in i..i : j = i
    OBVIOUS
  <1>7. \A j \in i..i : ByteOf(b[2 * (j - i) + 1], b[2 * (j - i) + 2]) = uuid[j]
    BY <1>1, <1>3, <1>5, <1>6, Zenon DEF byte
  <1> QED
    BY <1>3, <1>4, <1>5, <1>7, Zenon DEF HoldsBytes, b, byte

(* The bytes from first to last, written one after another.                *)
BytesText(uuid, isUppercase, first, last) ==
  FlattenSeq([i \in 1..last - first + 1 |-> HexByte(uuid[first + i - 1], isUppercase)])

(* By induction over the bytes.                                            *)
LEMMA BytesAreHeld ==
  ASSUME NEW uuid \in [1..16 -> 0..255], NEW isUppercase \in BOOLEAN,
         NEW first \in 1..16, NEW last \in first..16
  PROVE  HoldsBytes(BytesText(uuid, isUppercase, first, last), uuid, first, last)
  <1> DEFINE n == last - first + 1
             T == 0..255
             seqs == [i \in 1..n |-> HexByte(uuid[first + i - 1], isUppercase)]
  <1>1. n \in Nat /\ first \in Nat /\ last \in Nat /\ first - 1 \in Nat /\ first + n - 1 = last
    OBVIOUS
  <1>2. \A i \in 1..n : first + i - 1 \in Nat /\ first + i - 1 \in 1..16
    BY <1>1
  <1>3. ASSUME NEW i \in 1..n
        PROVE  HoldsBytes(seqs[i], uuid, first + i - 1, first + i - 1)
    <2> DEFINE j == first + i - 1
    <2>1. j \in Nat /\ uuid[j] \in 0..255 /\ seqs[i] = HexByte(uuid[j], isUppercase)
      BY <1>2
    <2> HIDE DEF j, seqs
    <2>2. HoldsBytes(HexByte(uuid[j], isUppercase), uuid, j, j)
      BY <2>1, OneByte
    <2> QED
      BY <2>1, <2>2, Zenon DEF j
  <1>4. seqs \in Seq(Seq(T)) /\ Len(seqs) = n
    <2>1. \A i \in 1..n : seqs[i] \in Seq(T)
      BY <1>3 DEF HoldsBytes, Chars
    <2>2. seqs \in [1..n -> Seq(T)]
      BY <2>1
    <2> HIDE DEF seqs, T, n
    <2> QED
      BY <1>1, <2>2, IsASeq
  <1> HIDE DEF seqs, T
  <1>5. PICK flat : IsFlat(flat, T, seqs) /\ FlattenSeq(seqs) = flat[Len(seqs)]
    BY <1>4, FlattenSeqIs
  <1>6. flat[0] = <<>> /\ \A i \in 1..n : flat[i] = flat[i - 1] \o seqs[i]
    BY <1>4, <1>5 DEF IsFlat
  <1> HIDE DEF n
  <1> DEFINE Holds(i) == HoldsBytes(flat[i], uuid, first, first + i - 1)
             Bad == {i \in 0..n : ~Holds(i)}
  <1>7. Bad = {}
    <2> SUFFICES ASSUME Bad # {} PROVE FALSE
      OBVIOUS
    <2>1. PICK i \in Bad : \A j \in Bad : i <= j
      <3>1. Bad \in SUBSET Nat
        <4> HIDE DEF Holds
        <4> QED
          BY <1>1
      <3> HIDE DEF Bad
      <3> QED
        BY <3>1, LeastNumber
    <2>2. i \in 0..n /\ ~Holds(i)
      OBVIOUS
    <2>3. CASE i = 0
      <3> DEFINE l == first - 1
      <3>1. l \in Nat /\ first = l + 1 /\ first \in Nat
        BY <1>1
      <3> HIDE DEF l
      <3>2. HoldsBytes(<<>>, uuid, first, l)
        BY <3>1, NoBytes
      <3>3. first + i - 1 = l
        BY <1>1, <2>3 DEF l
      <3> QED
        BY <1>6, <2>2, <2>3, <3>2, <3>3, Zenon
    <2>4. CASE i # 0
      <3>1. i \in 1..n /\ i - 1 \in 0..n /\ ~(i <= i - 1)
        BY <1>1, <2>2, <2>4
      <3>2. Holds(i - 1)
        <4> HIDE DEF Holds
        <4> QED
          BY <2>1, <3>1
      <3> DEFINE m == first + (i - 1) - 1
                 l == first + i - 1
                 a == flat[i - 1]
                 b == seqs[i]
      <3>3. m \in Nat /\ l \in Nat /\ first \in Nat /\ first <= m + 1 /\ l = m + 1 /\ m <= l
        BY <1>1, <3>1
      <3>4. HoldsBytes(a, uuid, first, m) /\ HoldsBytes(b, uuid, l, l)
        BY <1>3, <3>1, <3>2
      <3>5. flat[i] = a \o b
        BY <1>6, <3>1
      <3> HIDE DEF m, l, a, b
      <3>6. HoldsBytes(a \o b, uuid, first, l)
        BY <3>3, <3>4, BytesJoined
      <3> QED
        BY <2>2, <3>5, <3>6, Zenon DEF l
    <2> QED
      BY <2>3, <2>4
  <1>8. Holds(n)
    <2>1. n \in 0..n
      BY <1>1
    <2> HIDE DEF Holds
    <2> QED
      BY <1>7, <2>1
  <1>9. BytesText(uuid, isUppercase, first, last) = flat[n]
    BY <1>4, <1>5 DEF BytesText, seqs, n
  <1> QED
    BY <1>1, <1>8, <1>9, Zenon

(* A string of which the digits are those of the bytes.                    *)
Spells(s, uuid, first, last) == s \in Chars /\ HoldsBytes(DigitsOf(s), uuid, first, last)

(* Strings that spell bytes in a row spell them one after another.         *)
LEMMA SpellsJoined ==
  ASSUME NEW s, NEW t, NEW uuid,
         NEW first \in Nat, NEW m \in Nat, NEW next \in Nat, NEW last \in Nat,
         first <= m + 1, next = m + 1, m <= last,
         Spells(s, uuid, first, m), Spells(t, uuid, next, last)
  PROVE  Spells(s \o t, uuid, first, last)
  <1> DEFINE a == DigitsOf(s)
             b == DigitsOf(t)
  <1>1. /\ s \in Chars /\ t \in Chars
        /\ HoldsBytes(a, uuid, first, m) /\ HoldsBytes(b, uuid, next, last)
    BY DEF Spells
  <1>2. s \o t \in Chars
    BY <1>1, ConcatProperties DEF Chars
  <1>3. DigitsOf(s \o t) = a \o b
    BY <1>1, DigitsJoined
  <1> HIDE DEF a, b
  <1>4. HoldsBytes(a \o b, uuid, first, last)
    BY <1>1, BytesJoined
  <1> QED
    BY <1>2, <1>3, <1>4, Zenon DEF Spells

(* A brace or a hyphen, which is skipped, spells no byte.                  *)
LEMMA SeparatorSpells ==
  ASSUME NEW uuid, NEW c \in Skipped, NEW s, s = <<>> \/ s = <<c>>,
         NEW first \in Nat, NEW last \in Nat, first = last + 1
  PROVE  Spells(s, uuid, first, last)
  <1>1. c \in 0..255
    BY DEF Skipped
  <1>2. HoldsBytes(<<>>, uuid, first, last)
    BY NoBytes
  <1>3. <<>> \in Chars /\ <<c>> \in Chars
    BY <1>1, EmptySeq DEF Chars
  <1>4. DigitsOf(<<c>>) = <<>>
    BY <1>1, DigitsOfOne
  <1> QED
    BY <1>2, <1>3, <1>4, DigitsOfNone, Zenon DEF Spells

(* The digits of bytes spell them.                                         *)
LEMMA BytesSpell ==
  ASSUME NEW b, NEW uuid, NEW first, NEW last, HoldsBytes(b, uuid, first, last)
  PROVE  Spells(b, uuid, first, last)
  <1>1. b \in Chars /\ \A j \in 1..Len(b) : b[j] \in HexDigits
    BY DEF HoldsBytes
  <1>2. \A d \in HexDigits : d \notin Skipped
    BY DEF HexDigits, Skipped
  <1>3. DigitsOf(b) = b
    BY <1>1, <1>2, DigitsOfDigits
  <1> QED
    BY <1>1, <1>3, Zenon DEF Spells

(* In any format, a written UUID spells its sixteen bytes.                 *)
LEMMA UuidIsSpelled ==
  ASSUME NEW uuid \in [1..16 -> 0..255], NEW options
  PROVE  Spells(UuidString(uuid, options), uuid, 1, 16)
  <1> DEFINE If(option, c) == IF option \in options THEN <<c>> ELSE <<>>
             isUppercase == "uppercase" \in options
             B(first, last) == BytesText(uuid, isUppercase, first, last)
             open == If("braces", 123)
             hyphen == If("hyphens", 45)
             close == If("braces", 125)
             s1 == open \o B(1, 4)
             s2 == s1 \o hyphen
             s3 == s2 \o B(5, 6)
             s4 == s3 \o hyphen
             s5 == s4 \o B(7, 8)
             s6 == s5 \o hyphen
             s7 == s6 \o B(9, 10)
             s8 == s7 \o hyphen
             s9 == s8 \o B(11, 16)
             s10 == s9 \o close
  <1>1. UuidString(uuid, options) = s10
    BY DEF UuidString, BytesText
  <1>2. /\ 123 \in Skipped /\ (open = <<>> \/ open = <<123>>)
        /\ 45 \in Skipped /\ (hyphen = <<>> \/ hyphen = <<45>>)
        /\ 125 \in Skipped /\ (close = <<>> \/ close = <<125>>)
    BY DEF Skipped
  <1>3. isUppercase \in BOOLEAN
    OBVIOUS
  <1> HIDE DEF isUppercase, open, hyphen, close
  <1>4. ASSUME NEW first \in 1..16, NEW last \in first..16
        PROVE  Spells(B(first, last), uuid, first, last)
    BY <1>3, BytesAreHeld, BytesSpell
  <1>5. ASSUME NEW first \in Nat, NEW last \in Nat, first = last + 1
        PROVE  /\ Spells(open, uuid, first, last) /\ Spells(hyphen, uuid, first, last)
               /\ Spells(close, uuid, first, last)
    <2>1. Spells(open, uuid, first, last)
      BY <1>2, <1>5, SeparatorSpells, Zenon
    <2>2. Spells(hyphen, uuid, first, last)
      BY <1>2, <1>5, SeparatorSpells, Zenon
    <2>3. Spells(close, uuid, first, last)
      BY <1>2, <1>5, SeparatorSpells, Zenon
    <2> QED
      BY <2>1, <2>2, <2>3
  <1> HIDE DEF B, s1, s2, s3, s4, s5, s6, s7, s8, s9, s10
  <1>6. Spells(open, uuid, 1, 0)
    BY <1>5
  <1>7. Spells(s1, uuid, 1, 4)
    <2>1. Spells(B(1, 4), uuid, 1, 4)
      BY <1>4
    <2> QED
      BY <1>6, <2>1, SpellsJoined DEF s1
  <1>8. Spells(s2, uuid, 1, 4)
    <2>1. Spells(hyphen, uuid, 5, 4)
      BY <1>5
    <2> QED
      BY <1>7, <2>1, SpellsJoined DEF s2
  <1>9. Spells(s3, uuid, 1, 6)
    <2>1. Spells(B(5, 6), uuid, 5, 6)
      BY <1>4
    <2> QED
      BY <1>8, <2>1, SpellsJoined DEF s3
  <1>10. Spells(s4, uuid, 1, 6)
    <2>1. Spells(hyphen, uuid, 7, 6)
      BY <1>5
    <2> QED
      BY <1>9, <2>1, SpellsJoined DEF s4
  <1>11. Spells(s5, uuid, 1, 8)
    <2>1. Spells(B(7, 8), uuid, 7, 8)
      BY <1>4
    <2> QED
      BY <1>10, <2>1, SpellsJoined DEF s5
  <1>12. Spells(s6, uuid, 1, 8)
    <2>1. Spells(hyphen, uuid, 9, 8)
      BY <1>5
    <2> QED
      BY <1>11, <2>1, SpellsJoined DEF s6
  <1>13. Spells(s7, uuid, 1, 10)
    <2>1. Spells(B(9, 10), uuid, 9, 10)
      BY <1>4
    <2> QED
      BY <1>12, <2>1, SpellsJoined DEF s7
  <1>14. Spells(s8, uuid, 1, 10)
    <2>1. Spells(hyphen, uuid, 11, 10)
      BY <1>5
    <2> QED
      BY <1>13, <2>1, SpellsJoined DEF s8
  <1>15. Spells(s9, uuid, 1, 16)
    <2>1. Spells(B(11, 16), uuid, 11, 16)
      BY <1>4
    <2> QED
      BY <1>14, <2>1, SpellsJoined DEF s9
  <1>16. Spells(s10, uuid, 1, 16)
    <2>1. Spells(close, uuid, 17, 16)
      BY <1>5
    <2> QED
      BY <1>15, <2>1, SpellsJoined DEF s10
  <1> QED
    BY <1>1, <1>16, Zenon

----------------------------------------------------------------------------
(* fromStdString() reads 32 digits, and no other number of them.           *)
LEMMA DigitsAreRead ==
  ASSUME NEW s \in Chars, NEW uuid \in [1..16 -> 0..255], HoldsBytes(DigitsOf(s), uuid, 1, 16)
  PROVE  FromStdString(s) = uuid
  <1> DEFINE d == DigitsOf(s)
             read == [i \in 1..16 |-> ByteOf(d[2 * i - 1], d[2 * i])]
  <1>1. FromStdString(s) =
          IF Len(s) >= 32 /\ Len(d) = 32 /\ -1 \notin Range(read) THEN read ELSE NullUuid
    <2>1. 2 * 16 = 32
      OBVIOUS
    <2> QED
      BY <2>1 DEF FromStdString, UuidSize
  <1>2. Len(d) \in Nat /\ Len(d) <= Len(s) /\ Len(s) \in Nat
    BY NoMoreDigits DEF Chars
  <1>3. Len(d) = 2 * (16 - 1 + 1)
        /\ \A i \in 1..16 : ByteOf(d[2 * (i - 1) + 1], d[2 * (i - 1) + 2]) = uuid[i]
    BY DEF HoldsBytes
  <1> HIDE DEF d
  <1>4. \A i \in 1..16 : 2 * (i - 1) + 1 = 2 * i - 1 /\ 2 * (i - 1) + 2 = 2 * i
    OBVIOUS
  <1>5. \A i \in 1..16 : ByteOf(d[2 * i - 1], d[2 * i]) = uuid[i]
    BY <1>3, <1>4, Zenon
  <1>6. read = uuid
    BY <1>5
  <1>7. -1 \notin Range(uuid)
    <2>1. DOMAIN uuid = 1..16 /\ (\A i \in 1..16 : uuid[i] \in 0..255) /\ -1 \notin 0..255
      OBVIOUS
    <2>2. \A x \in Range(uuid) : x \in 0..255
      BY <2>1 DEF Range
    <2> QED
      BY <2>1, <2>2
  <1>8. Len(s) >= 32 /\ Len(d) = 32
    BY <1>2, <1>3
  <1> QED
    BY <1>1, <1>6, <1>7, <1>8, Zenon

(* With another number of digits it is the null UUID.                      *)
LEMMA OtherDigitsAreNull ==
  ASSUME NEW s \in Chars, Len(DigitsOf(s)) # 32
  PROVE  FromStdString(s) = NullUuid
  <1>1. 2 * 16 = 32
    OBVIOUS
  <1> QED
    BY <1>1 DEF FromStdString, UuidSize

(* What has the digits of a UUID is read as it, also with one more         *)
(* character or one less.                                                  *)
LEMMA UuidStringIsRead ==
  ASSUME NEW uuid \in [1..16 -> 0..255], NEW s \in Chars, HoldsBytes(DigitsOf(s), uuid, 1, 16),
         TextTyped
  PROVE  UuidIsRead(uuid, s)
  <1> DEFINE n == Len(s)
             d == DigitsOf(s)
             with(i, c) == SubSeq(s, 1, i) \o <<c>> \o SubSeq(s, i + 1, n)
             without(i) == SubSeq(s, 1, i - 1) \o SubSeq(s, i + 1, n)
  <1>1. n \in Nat /\ d \in Chars /\ Len(d) = 32 /\ \A i \in 1..n : s[i] \in 0..255
    <2>1. Len(d) = 2 * (16 - 1 + 1)
      BY DEF HoldsBytes
    <2> QED
      BY <2>1, DigitsAreChars, ElementOfSeq DEF Chars
  <1>2. Range(text) \subseteq 0..255
    BY RangeOfSeq DEF TextTyped, Chars
  <1>3. \A i \in 0..n : SubSeq(s, 1, i) \in Chars /\ SubSeq(s, i + 1, n) \in Chars
    <2> TAKE i \in 0..n
    <2>1. (\A k \in 1..i : s[k] \in 0..255) /\ (\A k \in i + 1..n : s[k] \in 0..255)
          /\ 1 \in Int /\ i \in Int /\ i + 1 \in Int /\ n \in Int
      BY <1>1
    <2> HIDE DEF n
    <2>2. SubSeq(s, 1, i) \in Chars
      BY <2>1, SubSeqProperties DEF Chars
    <2>3. SubSeq(s, i + 1, n) \in Chars
      <3> DEFINE m == i + 1
      <3>1. m \in Int /\ \A k \in m..n : s[k] \in 0..255
        BY <2>1
      <3> HIDE DEF m
      <3>2. SubSeq(s, m, n) \in Chars
        BY <2>1, <3>1, SubSeqProperties DEF Chars
      <3> QED
        BY <3>2 DEF m
    <2> QED
      BY <2>2, <2>3
  <1>4. FromStdString(s) = uuid
    BY DigitsAreRead
  <1>5. ASSUME NEW i \in 0..n, NEW c \in Range(text)
        PROVE  FromStdString(with(i, c)) = IF c \in Skipped THEN uuid ELSE NullUuid
    <2> DEFINE a == SubSeq(s, 1, i)
               b == SubSeq(s, i + 1, n)
               one == <<c>>
               w == a \o one \o b
    <2>1. a \in Chars /\ b \in Chars /\ one \in Chars /\ c \in 0..255
      BY <1>2, <1>3 DEF Chars
    <2>2. s = a \o b
      <3> DEFINE m == 1
      <3>1. m \in 1..Len(s) + 1 /\ i \in m - 1..Len(s) /\ n \in i..Len(s)
        BY <1>1
      <3> HIDE DEF m
      <3>2. SubSeq(s, m, i) \o SubSeq(s, i + 1, n) = SubSeq(s, m, n)
        BY <3>1, ConcatAdjacentSubSeq DEF Chars
      <3>3. SubSeq(s, 1, n) = s
        BY SubSeqFull DEF Chars
      <3> QED
        BY <3>2, <3>3, Zenon DEF m
    <2> HIDE DEF a, b
    <2> DEFINE da == DigitsOf(a)
               db == DigitsOf(b)
               dc == DigitsOf(one)
    <2>3. a \o one \in Chars /\ w \in Chars
      <3>1. a \o one \in Chars
        BY <2>1, ConcatProperties DEF Chars
      <3> QED
        BY <2>1, <3>1, ConcatProperties DEF Chars
    <2>4. da \in Chars /\ db \in Chars /\ dc = IF c \in Skipped THEN <<>> ELSE one
      BY <2>1, DigitsAreChars, DigitsOfOne
    <2>5. d = da \o db
      BY <2>1, <2>2, DigitsJoined
    <2>6. DigitsOf(w) = da \o dc \o db
      <3>1. DigitsOf(a \o one) = da \o dc
        BY <2>1, DigitsJoined
      <3>2. DigitsOf((a \o one) \o b) = DigitsOf(a \o one) \o db
        BY <2>1, <2>3, DigitsJoined
      <3> QED
        BY <3>1, <3>2, Zenon
    <2> HIDE DEF da, db, dc, w, d, one
    <2>7. CASE c \in Skipped
      <3>1. da \o <<>> = da
        BY <2>4, ConcatEmptySeq DEF Chars
      <3>2. DigitsOf(w) = d
        BY <2>4, <2>5, <2>6, <2>7, <3>1, Zenon
      <3>3. FromStdString(w) = uuid
        BY <2>3, <3>2, DigitsAreRead, Zenon DEF d
      <3> QED
        BY <2>7, <3>3, Zenon DEF w, a, b, one
    <2>8. CASE c \notin Skipped
      <3>1. Len(one) = 1
        BY DEF one
      <3>2. dc = one /\ dc \in Chars
        BY <2>1, <2>4, <2>8
      <3>3. Len(da) \in Nat /\ Len(db) \in Nat /\ Len(da) + Len(db) = 32
        <4>1. Len(da \o db) = Len(da) + Len(db)
          BY <2>4, ConcatProperties DEF Chars
        <4>2. Len(da) \in Nat /\ Len(db) \in Nat
          BY <2>4 DEF Chars
        <4> QED
          BY <1>1, <2>5, <4>1, <4>2
      <3>4. da \o dc \in Chars /\ Len(da \o dc) = Len(da) + Len(dc)
        BY <2>4, <3>2, ConcatProperties DEF Chars
      <3>5. Len((da \o dc) \o db) = Len(da \o dc) + Len(db)
        BY <2>4, <3>4, ConcatProperties DEF Chars
      <3>6. Len(DigitsOf(w)) = Len(da) + 1 + Len(db)
        BY <2>6, <3>1, <3>2, <3>4, <3>5, Zenon
      <3>7. Len(DigitsOf(w)) # 32
        <4> DEFINE x == Len(da)
                   y == Len(db)
        <4>1. x \in Nat /\ y \in Nat /\ x + y = 32 /\ Len(DigitsOf(w)) = x + 1 + y
          BY <3>3, <3>6, Zenon
        <4> HIDE DEF x, y
        <4> QED
          BY <4>1
      <3>8. FromStdString(w) = NullUuid
        BY <2>3, <3>7, OtherDigitsAreNull
      <3> QED
        BY <2>8, <3>8, Zenon DEF w, a, b, one
    <2> QED
      BY <2>7, <2>8
  <1>6. ASSUME NEW i \in 1..n
        PROVE  FromStdString(without(i)) = IF s[i] \in Skipped THEN uuid ELSE NullUuid
    <2> DEFINE c == s[i]
               a == SubSeq(s, 1, i - 1)
               b == SubSeq(s, i + 1, n)
               one == <<c>>
               w == a \o b
    <2>1. a \in Chars /\ b \in Chars /\ one \in Chars /\ c \in 0..255
      <3>1. i - 1 \in 0..n /\ i \in 0..n
        BY <1>1
      <3> QED
        BY <1>1, <1>3, <3>1 DEF Chars
    <2>2. s = a \o one \o b
      <3> DEFINE m == 1
      <3>1. /\ m \in 1..Len(s) + 1 /\ i \in m - 1..Len(s) /\ n \in i..Len(s)
            /\ m \in 1..Len(s) /\ i \in m..Len(s)
        BY <1>1
      <3> HIDE DEF m
      <3>2. SubSeq(s, m, i) \o SubSeq(s, i + 1, n) = SubSeq(s, m, n)
        BY <3>1, ConcatAdjacentSubSeq DEF Chars
      <3>3. SubSeq(s, m, i) = SubSeq(s, m, i - 1) \o <<s[i]>>
        BY <3>1, SubSeqRecursiveSecond DEF Chars
      <3>4. SubSeq(s, 1, n) = s
        BY SubSeqFull DEF Chars
      <3> QED
        BY <3>2, <3>3, <3>4, Zenon DEF m
    <2> HIDE DEF a, b, c
    <2> DEFINE da == DigitsOf(a)
               db == DigitsOf(b)
               dc == DigitsOf(one)
    <2>3. a \o one \in Chars /\ w \in Chars
      BY <2>1, ConcatProperties DEF Chars
    <2>4. da \in Chars /\ db \in Chars /\ dc = IF c \in Skipped THEN <<>> ELSE one
      BY <2>1, DigitsAreChars, DigitsOfOne
    <2>5. DigitsOf(w) = da \o db
      BY <2>1, DigitsJoined
    <2>6. d = da \o dc \o db
      <3>1. DigitsOf(a \o one) = da \o dc
        BY <2>1, DigitsJoined
      <3>2. DigitsOf((a \o one) \o b) = DigitsOf(a \o one) \o db
        BY <2>1, <2>3, DigitsJoined
      <3> QED
        BY <2>2, <3>1, <3>2, Zenon
    <2> HIDE DEF da, db, dc, w, d, one
    <2>7. CASE c \in Skipped
      <3>1. da \o <<>> = da
        BY <2>4, ConcatEmptySeq DEF Chars
      <3>2. DigitsOf(w) = d
        BY <2>4, <2>5, <2>6, <2>7, <3>1, Zenon
      <3>3. FromStdString(w) = uuid
        BY <2>3, <3>2, DigitsAreRead, Zenon DEF d
      <3> QED
        BY <2>7, <3>3, Zenon DEF w, a, b, c
    <2>8. CASE c \notin Skipped
      <3>1. Len(one) = 1
        BY DEF one
      <3>2. dc = one /\ dc \in Chars
        BY <2>1, <2>4, <2>8
      <3>3. Len(da) \in Nat /\ Len(db) \in Nat /\ Len(da \o db) = Len(da) + Len(db)
        BY <2>4, ConcatProperties DEF Chars
      <3>4. da \o dc \in Chars /\ Len(da \o dc) = Len(da) + Len(dc)
        BY <2>4, <3>2, ConcatProperties DEF Chars
      <3>5. Len((da \o dc) \o db) = Len(da \o dc) + Len(db)
        BY <2>4, <3>4, ConcatProperties DEF Chars
      <3>6. 32 = Len(da) + 1 + Len(db) /\ Len(DigitsOf(w)) = Len(da) + Len(db)
        BY <1>1, <2>5, <2>6, <3>1, <3>2, <3>3, <3>4, <3>5, Zenon
      <3>7. Len(DigitsOf(w)) # 32
        <4> DEFINE x == Len(da)
                   y == Len(db)
        <4>1. x \in Nat /\ y \in Nat /\ 32 = x + 1 + y /\ Len(DigitsOf(w)) = x + y
          BY <3>3, <3>6, Zenon
        <4> HIDE DEF x, y
        <4> QED
          BY <4>1
      <3>8. FromStdString(w) = NullUuid
        BY <2>3, <3>7, OtherDigitsAreNull
      <3> QED
        BY <2>8, <3>8, Zenon DEF w, a, b, c
    <2> QED
      BY <2>7, <2>8
  <1> QED
    BY <1>4, <1>5, <1>6 DEF UuidIsRead

(* And so are UUIDs of any bytes, and random ones.                         *)
LEMMA UuidsAreReadBack ==
  ASSUME TextTyped
  PROVE  UuidsAreRead
  <1> SUFFICES ASSUME Len(text) \in 1..2
               PROVE  LET bytes == [i \in 1..UuidSize |-> text[1 + (i % Len(text))]]
                      IN /\ RandomUuid(bytes) # NullUuid
                         /\ \A uuid \in {bytes, RandomUuid(bytes)},
                               options \in SUBSET FormatOptions :
                              UuidIsRead(uuid, UuidString(uuid, options))
    BY DEF UuidsAreRead
  <1> DEFINE bytes == [i \in 1..16 |-> text[1 + (i % Len(text))]]
             random == RandomUuid(bytes)
  <1>1. bytes \in [1..16 -> 0..255]
    <2>1. ASSUME NEW i \in 1..16
          PROVE  1 + (i % Len(text)) \in 1..Len(text)
      <3>1. CASE Len(text) = 1
        BY <3>1
      <3>2. CASE Len(text) = 2
        BY <3>2
      <3> QED
        BY <3>1, <3>2
    <2>2. \A k \in 1..Len(text) : text[k] \in 0..255
      BY ElementOfSeq DEF TextTyped, Chars
    <2> QED
      BY <2>1, <2>2
  <1> HIDE DEF bytes
  <1>2. random \in [1..16 -> 0..255] /\ random # NullUuid
    <2> DEFINE b7 == 64 + (bytes[7] % 16)
               b9 == 128 + (bytes[9] % 64)
    <2>1. bytes[7] \in 0..255 /\ bytes[9] \in 0..255
      BY <1>1
    <2>2. b7 \in 0..255 /\ b7 # 0 /\ b9 \in 0..255
      BY <2>1
    <2>3. random = [bytes EXCEPT ![7] = b7, ![9] = b9]
      BY DEF RandomUuid
    <2> HIDE DEF b7, b9, random
    <2>4. random \in [1..16 -> 0..255] /\ random[7] = b7
      BY <1>1, <2>2, <2>3
    <2>5. NullUuid[7] = 0
      BY DEF NullUuid, UuidSize
    <2> QED
      BY <2>2, <2>4, <2>5
  <1> HIDE DEF random
  <1>3. ASSUME NEW uuid \in [1..16 -> 0..255], NEW options
        PROVE  UuidIsRead(uuid, UuidString(uuid, options))
    <2> DEFINE s == UuidString(uuid, options)
    <2>1. s \in Chars /\ HoldsBytes(DigitsOf(s), uuid, 1, 16)
      BY UuidIsSpelled DEF Spells
    <2> HIDE DEF s
    <2>2. UuidIsRead(uuid, s)
      BY <2>1, UuidStringIsRead
    <2> QED
      BY <2>2 DEF s
  <1>4. \A uuid \in {bytes, random}, options \in SUBSET FormatOptions :
          UuidIsRead(uuid, UuidString(uuid, options))
    BY <1>1, <1>2, <1>3
  <1> QED
    BY <1>2, <1>4, Zenon DEF bytes, random, UuidSize

(* Whatever is written, by toString() or by toStdString(), is read as it   *)
(* was: strings with any characters, by the decoder and from a line of the *)
(* default .ini file; and UUIDs in any format, with a character more or    *)
(* less too.  The decoder never reads past the end.                        *)
THEOREM TextsSurvive == TextSpec => []TextsAreReadBack
  <1>1. TextTyped => TextsAreReadBack
    BY StringIsReadBack, DecoderIsInside, UuidsAreReadBack
       DEF TextsAreReadBack, StringsAreReadBack
  <1> QED
    BY <1>1, TextIsTyped, PTL

==============================================================================
