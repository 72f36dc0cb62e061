-------------------------------- MODULE Color --------------------------------
(***************************************************************************)
(* Color of config/schema.rs (lines 35-113): colors are written to TOML by *)
(* to_hex and read back by from_hex.  A string is a sequence of ASCII     *)
(* characters; the characters are "#", "+" and the hex digits.             *)
(***************************************************************************)
EXTENDS Integers, Sequences, SequencesExt

InvalidColor == [r |-> 0, g |-> 0, b |-> 0, a |-> 0, invalid |-> TRUE]
Rgba(r, g, b, a) == [r |-> r, g |-> g, b |-> b, a |-> a, invalid |-> FALSE]

HexDigit == <<"0", "1", "2", "3", "4", "5", "6", "7", "8", "9",
              "a", "b", "c", "d", "e", "f">>

\* The value of a hex digit (either case), or 16 for any other character.
DigitValue(ch) ==
    LET upper == <<"A", "B", "C", "D", "E", "F">>
    IN  IF \E i \in 1..16 : HexDigit[i] = ch
        THEN CHOOSE v \in 0..15 : HexDigit[v + 1] = ch
        ELSE IF \E i \in 1..6 : upper[i] = ch
        THEN CHOOSE v \in 10..15 : upper[v - 9] = ch
        ELSE 16

(***************************************************************************)
(* u8::from_str_radix(s, 16) on a two-character slice: an optional "+"     *)
(* then digits; -1 stands for the error.                                   *)
(***************************************************************************)
ParseU8Hex(s) ==
    LET digits == IF s[1] = "+" THEN Tail(s) ELSE s
    IN  IF digits = <<>> \/ \E i \in DOMAIN digits : DigitValue(digits[i]) = 16
        THEN -1
        ELSE FoldLeft(LAMBDA acc, ch : acc * 16 + DigitValue(ch), 0, digits)

\* Color::from_hex: every leading "#" is trimmed, then six or eight digits.
FromHex(str) ==
    LET s == IF \A i \in DOMAIN str : str[i] = "#" THEN <<>>
             ELSE SubSeq(str, Min({i \in DOMAIN str : str[i] # "#"}), Len(str))
        pair(i) == ParseU8Hex(SubSeq(s, i, i + 1))
        channels == IF Len(s) = 6 THEN <<pair(1), pair(3), pair(5)>>
                    ELSE <<pair(1), pair(3), pair(5), pair(7)>>
    IN  IF Len(s) \notin {6, 8} \/ \E i \in DOMAIN channels : channels[i] = -1
        THEN InvalidColor
        ELSE Rgba(channels[1], channels[2], channels[3],
                  IF Len(s) = 6 THEN 255 ELSE channels[4])

\* format!("{:x}"): the digits of a byte without leading zeros.
HexUnpadded(v) ==
    IF v < 16 THEN <<HexDigit[v + 1]>>
    ELSE <<HexDigit[(v \div 16) + 1], HexDigit[(v % 16) + 1]>>

\* format!("{:02x}"): two lower-case digits.
Hex2(v) == <<HexDigit[(v \div 16) + 1], HexDigit[(v % 16) + 1]>>

ToHexUnpadded(c) ==
    <<"#">> \o HexUnpadded(c.r) \o HexUnpadded(c.g) \o HexUnpadded(c.b)
    \o HexUnpadded(c.a)

\* Color::to_hex: "#" and the four channels, alpha included.
ToHex(c) == <<"#">> \o Hex2(c.r) \o Hex2(c.g) \o Hex2(c.b) \o Hex2(c.a)
====
