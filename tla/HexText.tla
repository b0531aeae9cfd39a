------------------------------- MODULE HexText --------------------------------
(***************************************************************************)
(* The conversions of chain_utils.rs between bytes and the hexadecimal     *)
(* text that requests and answers are.  A character is a digit or the x of *)
(* 0x; a byte is a number below 256.                                       *)
(***************************************************************************)
EXTENDS Integers, Sequences

CONSTANT AddressBytes   \* 20

ASSUME AddressAssumption == AddressBytes \in Nat \ {0}

Byte == 0..255
Digit == 0..15
LetterX == 16
ZeroX == <<0, LetterX>>

\* Result<T, Error>, with a panic as a third outcome.
Ok(value) == [out |-> "ok", value |-> value]
Err == [out |-> "err", value |-> <<>>]
Panic == [out |-> "panic", value |-> <<>>]
-----------------------------------------------------------------------------
\* Two digits for each byte, the high one first.
BytesToHex(bytes) ==
    [i \in 1..(2 * Len(bytes)) |->
       LET byte == bytes[(i + 1) \div 2]
       IN IF i % 2 = 1 THEN byte \div 16 ELSE byte % 16]

HasZeroX(s) == Len(s) >= 2 /\ s[1] = 0 /\ s[2] = LetterX

HexAdd0x(s) == IF HasZeroX(s) THEN s ELSE ZeroX \o s

HexRemove0x(s) == IF HasZeroX(s) THEN SubSeq(s, 3, Len(s)) ELSE s

HexToBytes(s) ==
    LET data == HexRemove0x(s)
    IN IF Len(s) % 2 # 0 \/ Len(s) < 2 \/ \E i \in DOMAIN data : data[i] \notin Digit
       THEN Err
       ELSE Ok([i \in 1..(Len(data) \div 2) |-> 16 * data[2*i - 1] + data[2*i]])

\* Takes the last characters of the string, wherever they are.
DecodeAddressResponse(s) ==
    LET chars == 2 * AddressBytes
        last == SubSeq(s, Len(s) - chars + 1, Len(s))
    IN IF Len(s) < chars \/ \E i \in DOMAIN last : last[i] \notin Digit
       THEN Panic
       ELSE Ok([i \in 1..AddressBytes |-> 16 * last[2*i - 1] + last[2*i]])
=============================================================================
