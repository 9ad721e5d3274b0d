---------------------------- MODULE UuidStrings ----------------------------
(***************************************************************************)
(* The SDK's uuid_helper.cpp: UUIDs are written as strings and read from   *)
(* them.  The bytes of a UUID repeat those of the text of EscapedStrings.  *)
(***************************************************************************)
EXTENDS EscapedStrings

UuidSize == 16
NullUuid == [i \in 1..UuidSize |-> 0]

(* FormatOptions, of which any set may be chosen.                          *)
FormatOptions == {"uppercase", "hyphens", "braces"}

(* toStdString(); every byte takes two digits.                             *)
HexByte(byte, isUppercase) ==
  LET Digit(n) == IF n < 10 THEN 48 + n ELSE IF isUppercase THEN 55 + n ELSE 87 + n
  IN <<Digit(byte \div 16), Digit(byte % 16)>>

UuidString(uuid, options) ==
  LET If(option, c) == IF option \in options THEN <<c>> ELSE <<>>
      Bytes(first, last) ==
        FlattenSeq([i \in 1..last - first + 1 |->
                      HexByte(uuid[first + i - 1], "uppercase" \in options)])
      hyphen == If("hyphens", 45)
  IN If("braces", 123) \o Bytes(1, 4) \o hyphen \o Bytes(5, 6) \o hyphen \o Bytes(7, 8)
     \o hyphen \o Bytes(9, 10) \o hyphen \o Bytes(11, 16) \o If("braces", 125)

(* The characters that fromStdString() skips; the letter r is among them,  *)
(* and the carriage return is not.                                         *)
Skipped == {123, 125, 45, 9, 10, 114, 32}

DigitsOf(s) ==
  LET kept[i \in 0..Len(s)] ==
        IF i = 0 THEN <<>>
        ELSE IF s[i] \in Skipped THEN kept[i - 1] ELSE Append(kept[i - 1], s[i])
  IN kept[Len(s)]

(* What strtol() makes of two characters, or -1 where the code finds an    *)
(* error: a sign, or a blank that was not skipped, may come before the     *)
(* digit, and a 0 character ends the number.                               *)
ByteOf(c1, c2) ==
  CASE c1 = 0 -> 0
    [] HexDigit(c1) >= 0 /\ c2 = 0 -> HexDigit(c1)
    [] HexDigit(c1) >= 0 /\ HexDigit(c2) >= 0 -> HexDigit(c1) * 16 + HexDigit(c2)
    [] c1 \in {11, 12, 13, 43} /\ HexDigit(c2) >= 0 -> HexDigit(c2)
    [] OTHER -> -1

(* fromStdString().  A mutant, `FromFirstDigits`, ignores what is left.    *)
FromFirstDigits(s) ==
  LET digits == DigitsOf(s)
      uuid == [i \in 1..UuidSize |-> ByteOf(digits[2 * i - 1], digits[2 * i])]
  IN IF Len(s) >= 2 * UuidSize /\ Len(digits) >= 2 * UuidSize /\ -1 \notin Range(uuid)
     THEN uuid ELSE NullUuid

FromStdString(s) ==
  LET digits == DigitsOf(s)
      uuid == [i \in 1..UuidSize |-> ByteOf(digits[2 * i - 1], digits[2 * i])]
  IN IF Len(s) >= 2 * UuidSize /\ Len(digits) = 2 * UuidSize /\ -1 \notin Range(uuid)
     THEN uuid ELSE NullUuid

(* randomUuid(), of any random bytes: the version and the variant are set. *)
RandomUuid(bytes) ==
  [bytes EXCEPT ![7] = 64 + (@ % 16), ![9] = 128 + (@ % 64)]

----------------------------------------------------------------------------
(* A UUID is read as it was written, in any format; a character more, at   *)
(* any place, leaves it as it is or makes it null, and never another one;  *)
(* a character less makes it null unless it is a separator.                *)
UuidIsRead(uuid, s) ==
  LET with(i, c) == SubSeq(s, 1, i) \o <<c>> \o SubSeq(s, i + 1, Len(s))
      without(i) == SubSeq(s, 1, i - 1) \o SubSeq(s, i + 1, Len(s))
  IN /\ FromStdString(s) = uuid
     /\ \A i \in 0..Len(s), c \in Range(text) :
          FromStdString(with(i, c)) = IF c \in Skipped THEN uuid ELSE NullUuid
     /\ \A i \in 1..Len(s) :
          FromStdString(without(i)) = IF s[i] \in Skipped THEN uuid ELSE NullUuid

(* A random UUID is never the null one, and all UUIDs are read back.       *)
UuidsAreRead ==
  Len(text) \in 1..2 =>
    LET bytes == [i \in 1..UuidSize |-> text[1 + (i % Len(text))]]
    IN /\ RandomUuid(bytes) # NullUuid
       /\ \A uuid \in {bytes, RandomUuid(bytes)}, options \in SUBSET FormatOptions :
            UuidIsRead(uuid, UuidString(uuid, options))

(* Strings and UUIDs: what is written is read.                             *)
TextsAreReadBack == StringsAreReadBack /\ UuidsAreRead

=============================================================================
