---------------------------- MODULE HexTextProofs -----------------------------
(***************************************************************************)
(* Proofs about the conversions of HexText, for byte strings and addresses *)
(* of any length.                                                          *)
(***************************************************************************)
EXTENDS HexText, TLAPS

\* First-order leaves go to Zenon; those that need arithmetic, sequences or records
\* cite SMT, with a limit that leaves room for a slow machine.
USE Zenon

\* A byte is its two digits.
LEMMA ByteIsItsDigits ==
    ASSUME NEW b \in Byte
    PROVE  /\ b \div 16 \in Digit /\ b % 16 \in Digit
           /\ 16 * (b \div 16) + (b % 16) = b
BY SMTT(30) DEF Byte, Digit

\* What bytes_to_hex writes: two digits for each byte, in order.
LEMMA HexOfBytes ==
    ASSUME NEW bytes \in Seq(Byte), NEW h, h = BytesToHex(bytes)
    PROVE  /\ h \in Seq(Digit) /\ Len(h) = 2 * Len(bytes)
           /\ \A i \in 1 .. Len(bytes) :
                h[2 * i - 1] = bytes[i] \div 16 /\ h[2 * i] = bytes[i] % 16
<1>1. Len(bytes) \in Nat /\ 2 * Len(bytes) \in Nat
  BY SMTT(30)
<1>2. h = [i \in 1 .. 2 * Len(bytes) |->
             IF i % 2 = 1 THEN bytes[(i + 1) \div 2] \div 16
                          ELSE bytes[(i + 1) \div 2] % 16]
  BY DEF BytesToHex
<1>3. ASSUME NEW i \in 1 .. 2 * Len(bytes)
      PROVE  h[i] \in Digit
  <2>1. (i + 1) \div 2 \in 1 .. Len(bytes)
    BY <1>1, SMTT(30)
  <2>2. bytes[(i + 1) \div 2] \in Byte
    BY <2>1, SMTT(30)
  <2> QED
    BY <1>2, <2>2, ByteIsItsDigits
<1>4. h \in [1 .. 2 * Len(bytes) -> Digit]
  BY <1>2, <1>3
<1>5. h \in Seq(Digit) /\ Len(h) = 2 * Len(bytes)
  BY <1>1, <1>4, SMTT(30)
<1>6. ASSUME NEW i \in 1 .. Len(bytes)
      PROVE  h[2 * i - 1] = bytes[i] \div 16 /\ h[2 * i] = bytes[i] % 16
  <2>1. /\ 2 * i - 1 \in 1 .. 2 * Len(bytes) /\ (2 * i - 1) % 2 = 1
        /\ (2 * i - 1 + 1) \div 2 = i
    BY <1>1, SMTT(30)
  <2>2. /\ 2 * i \in 1 .. 2 * Len(bytes) /\ (2 * i) % 2 = 0
        /\ (2 * i + 1) \div 2 = i
    BY <1>1, SMTT(30)
  <2> QED
    BY <1>2, <2>1, <2>2, SMTT(30)
<1> QED
  BY <1>5, <1>6

\* The text of bytes: 0x and the digits.
LEMMA TextOfBytes ==
    ASSUME NEW bytes \in Seq(Byte), NEW t, t = ZeroX \o BytesToHex(bytes)
    PROVE  /\ t \in Seq(0 .. 16) /\ Len(t) = 2 * Len(bytes) + 2
           /\ t[1] = 0 /\ t[2] = LetterX
           /\ \A i \in 1 .. Len(bytes) :
                t[2 * i + 1] = bytes[i] \div 16 /\ t[2 * i + 2] = bytes[i] % 16
<1> DEFINE h == BytesToHex(bytes)
<1>1. /\ h \in Seq(Digit) /\ Len(h) = 2 * Len(bytes)
      /\ \A i \in 1 .. Len(bytes) :
           h[2 * i - 1] = bytes[i] \div 16 /\ h[2 * i] = bytes[i] % 16
  BY HexOfBytes
<1> HIDE DEF h
<1>2. h \in Seq(0 .. 16)
  BY <1>1, SMTT(30) DEF Digit
<1>3. t = <<0, 16>> \o h
  BY DEF h, ZeroX, LetterX
<1>4. t \in Seq(0 .. 16) /\ Len(t) = Len(h) + 2 /\ t[1] = 0 /\ t[2] = 16
  BY <1>2, <1>3, SMTT(30)
<1>5. \A k \in 1 .. Len(h) : t[k + 2] = h[k]
  BY <1>2, <1>3, SMTT(30)
<1>6. ASSUME NEW i \in 1 .. Len(bytes)
      PROVE  t[2 * i + 1] = bytes[i] \div 16 /\ t[2 * i + 2] = bytes[i] % 16
  <2>1. 2 * i - 1 \in 1 .. Len(h) /\ 2 * i \in 1 .. Len(h) /\ (2 * i - 1) + 2 = 2 * i + 1
    BY <1>1, SMTT(30)
  <2>2. t[(2 * i - 1) + 2] = h[2 * i - 1] /\ t[2 * i + 2] = h[2 * i]
    BY <1>5, <2>1
  <2> QED
    BY <1>1, <2>1, <2>2
<1> QED
  BY <1>1, <1>4, <1>6 DEF LetterX

\* hex_add_0x never takes digits for a prefix that is there already.
LEMMA ZeroXIsAdded ==
    ASSUME NEW bytes \in Seq(Byte)
    PROVE  HexAdd0x(BytesToHex(bytes)) = ZeroX \o BytesToHex(bytes)
<1> DEFINE h == BytesToHex(bytes)
<1>1. h \in Seq(Digit)
  BY HexOfBytes
<1> HIDE DEF h
<1>2. Len(h) >= 2 => h[2] # LetterX
  BY <1>1, SMTT(30) DEF Digit, LetterX
<1>3. HexAdd0x(h) = ZeroX \o h
  BY <1>2 DEF HexAdd0x, HasZeroX
<1> QED
  BY <1>3 DEF h

\* hex_to_bytes gives back the bytes that bytes_to_hex was given, with the 0x
\* that requests and answers carry: none of them, an odd nibble or a leading
\* zero is lost.
THEOREM HexRoundTrip ==
    ASSUME NEW bytes \in Seq(Byte)
    PROVE  HexToBytes(HexAdd0x(BytesToHex(bytes))) = Ok(bytes)
<1> DEFINE t == ZeroX \o BytesToHex(bytes)
           data == HexRemove0x(t)
           n == Len(bytes)
<1>1. /\ t \in Seq(0 .. 16) /\ Len(t) = 2 * n + 2 /\ t[1] = 0 /\ t[2] = LetterX
      /\ \A i \in 1 .. n : t[2 * i + 1] = bytes[i] \div 16 /\ t[2 * i + 2] = bytes[i] % 16
  BY TextOfBytes
<1> HIDE DEF t
<1>2. n \in Nat /\ \A i \in 1 .. n : bytes[i] \in Byte
  BY SMTT(30)
<1> HIDE DEF n
<1>3. data = SubSeq(t, 3, Len(t))
  BY <1>1, <1>2, SMTT(30) DEF HexRemove0x, HasZeroX
<1>4. Len(data) = 2 * n /\ \A k \in 1 .. 2 * n : data[k] = t[k + 2]
  BY <1>1, <1>2, <1>3, SMTT(30)
<1> HIDE DEF data
<1>5. ASSUME NEW i \in 1 .. n
      PROVE  /\ data[2 * i - 1] = bytes[i] \div 16 /\ data[2 * i] = bytes[i] % 16
             /\ 16 * data[2 * i - 1] + data[2 * i] = bytes[i]
  <2>1. /\ 2 * i - 1 \in 1 .. 2 * n /\ 2 * i \in 1 .. 2 * n
        /\ (2 * i - 1) + 2 = 2 * i + 1
    BY <1>2, SMTT(30)
  <2>2. data[2 * i - 1] = t[2 * i + 1] /\ data[2 * i] = t[2 * i + 2]
    BY <1>4, <2>1
  <2>3. data[2 * i - 1] = bytes[i] \div 16 /\ data[2 * i] = bytes[i] % 16
    BY <1>1, <2>2
  <2> QED
    BY <1>2, <2>3, ByteIsItsDigits
<1>6. ASSUME NEW k \in 1 .. 2 * n
      PROVE  data[k] \in Digit
  <2>1. PICK i \in 1 .. n : k = 2 * i - 1 \/ k = 2 * i
    <3>1. (k + 1) \div 2 \in 1 .. n
      BY <1>2, SMTT(30)
    <3>2. k = 2 * ((k + 1) \div 2) - 1 \/ k = 2 * ((k + 1) \div 2)
      BY <1>2, SMTT(30)
    <3> QED
      BY <3>1, <3>2
  <2> QED
    BY <1>2, <1>5, <2>1, ByteIsItsDigits
<1>7. Len(t) % 2 = 0 /\ Len(t) >= 2 /\ Len(data) \div 2 = n
  BY <1>1, <1>2, <1>4, SMTT(30)
<1>8. DOMAIN data = 1 .. 2 * n
  BY <1>1, <1>3, <1>4, SMTT(30)
<1>9. HexToBytes(t) = Ok([i \in 1 .. n |-> 16 * data[2 * i - 1] + data[2 * i]])
  <2>1. ~(Len(t) % 2 # 0 \/ Len(t) < 2 \/ \E i \in DOMAIN data : data[i] \notin Digit)
    BY <1>1, <1>2, <1>6, <1>7, <1>8, SMTT(30)
  <2> QED
    BY <1>7, <2>1 DEF HexToBytes, data
<1>10. [i \in 1 .. n |-> 16 * data[2 * i - 1] + data[2 * i]] = bytes
  BY <1>2, <1>5, SMTT(30) DEF n
<1> QED
  BY <1>9, <1>10, ZeroXIsAdded DEF t

\* The digits of the last k bytes of a text, and what they say.
LastOf(bytes, k) ==
    LET t == ZeroX \o BytesToHex(bytes)
    IN SubSeq(t, Len(t) - 2 * k + 1, Len(t))

SaysLast(last, bytes, k) ==
    /\ DOMAIN last = 1 .. 2 * k
    /\ \A i \in 1 .. 2 * k : last[i] \in Digit
    /\ \A i \in 1 .. k : 16 * last[2 * i - 1] + last[2 * i] = bytes[Len(bytes) - k + i]

\* The last digits of a text are those of the last bytes.
LEMMA LastDigits ==
    ASSUME NEW bytes \in Seq(Byte), NEW k \in 0 .. Len(bytes)
    PROVE  SaysLast(LastOf(bytes, k), bytes, k)
<1> DEFINE n == Len(bytes)
           t == ZeroX \o BytesToHex(bytes)
           last == SubSeq(t, Len(t) - 2 * k + 1, Len(t))
<1>1. /\ t \in Seq(0 .. 16) /\ Len(t) = 2 * n + 2
      /\ \A i \in 1 .. n : t[2 * i + 1] = bytes[i] \div 16 /\ t[2 * i + 2] = bytes[i] % 16
  BY TextOfBytes
<1> HIDE DEF t
<1>2. n \in Nat /\ k \in 0 .. n /\ \A i \in 1 .. n : bytes[i] \in Byte
  BY SMTT(30)
<1> HIDE DEF n
<1>3. /\ DOMAIN last = 1 .. 2 * k
      /\ \A i \in 1 .. 2 * k : last[i] = t[2 * (n - k) + 2 + i]
  BY <1>1, <1>2, SMTT(30)
<1> HIDE DEF last
<1>4. ASSUME NEW i \in 1 .. k
      PROVE  /\ last[2 * i - 1] = bytes[n - k + i] \div 16
             /\ last[2 * i] = bytes[n - k + i] % 16
             /\ bytes[n - k + i] \in Byte
  <2>1. /\ n - k + i \in 1 .. n /\ 2 * i - 1 \in 1 .. 2 * k /\ 2 * i \in 1 .. 2 * k
        /\ 2 * (n - k) + 2 + (2 * i - 1) = 2 * (n - k + i) + 1
        /\ 2 * (n - k) + 2 + 2 * i = 2 * (n - k + i) + 2
    BY <1>2, SMTT(30)
  <2>2. last[2 * i - 1] = t[2 * (n - k + i) + 1] /\ last[2 * i] = t[2 * (n - k + i) + 2]
    BY <1>3, <2>1
  <2> QED
    BY <1>1, <1>2, <2>1, <2>2
<1>5. ASSUME NEW j \in 1 .. 2 * k
      PROVE  last[j] \in Digit
  <2>1. PICK i \in 1 .. k : j = 2 * i - 1 \/ j = 2 * i
    <3>1. (j + 1) \div 2 \in 1 .. k
      BY <1>2, SMTT(30)
    <3>2. j = 2 * ((j + 1) \div 2) - 1 \/ j = 2 * ((j + 1) \div 2)
      BY <1>2, SMTT(30)
    <3> QED
      BY <3>1, <3>2
  <2>2. last[2 * i - 1] \in Digit /\ last[2 * i] \in Digit
    BY <1>4, ByteIsItsDigits
  <2> QED
    BY <2>1, <2>2
<1>6. \A i \in 1 .. k : 16 * last[2 * i - 1] + last[2 * i] = bytes[n - k + i]
  BY <1>4, ByteIsItsDigits
<1>7. LastOf(bytes, k) = last
  BY DEF LastOf, last, t
<1> QED
  BY <1>3, <1>5, <1>6, <1>7 DEF SaysLast, n

\* decode_address_response takes the last bytes of an answer that has at least as
\* many as an address: from a word, the address that is padded in it.
THEOREM AddressIsRead ==
    ASSUME NEW bytes \in Seq(Byte), Len(bytes) >= AddressBytes
    PROVE  DecodeAddressResponse(ZeroX \o BytesToHex(bytes))
             = Ok([i \in 1 .. AddressBytes |-> bytes[Len(bytes) - AddressBytes + i]])
<1> DEFINE t == ZeroX \o BytesToHex(bytes)
           n == Len(bytes)
           k == AddressBytes
           last == SubSeq(t, Len(t) - 2 * k + 1, Len(t))
<1>1. n \in Nat /\ k \in Nat /\ k \in 0 .. n
  BY AddressAssumption, SMTT(30)
<1>2. /\ DOMAIN last = 1 .. 2 * k
      /\ \A i \in 1 .. 2 * k : last[i] \in Digit
      /\ \A i \in 1 .. k : 16 * last[2 * i - 1] + last[2 * i] = bytes[n - k + i]
  <2>1. SaysLast(LastOf(bytes, k), bytes, k)
    BY <1>1, LastDigits
  <2>2. LastOf(bytes, k) = last
    BY DEF LastOf
  <2> QED
    BY <2>1, <2>2 DEF SaysLast
<1>3. Len(t) = 2 * n + 2
  BY TextOfBytes
<1> HIDE DEF t, last, n
<1>4. ~(Len(t) < 2 * k \/ \E i \in DOMAIN last : last[i] \notin Digit)
  BY <1>1, <1>2, <1>3, SMTT(30)
<1>5. DecodeAddressResponse(t) = Ok([i \in 1 .. k |-> 16 * last[2 * i - 1] + last[2 * i]])
  BY <1>4 DEF DecodeAddressResponse, last
<1>6. [i \in 1 .. k |-> 16 * last[2 * i - 1] + last[2 * i]]
        = [i \in 1 .. k |-> bytes[n - k + i]]
  BY <1>2
<1> QED
  BY <1>5, <1>6 DEF t, n

\* An answer with fewer bytes than an address ends in a panic and never passes
\* for an address, not even one that is a single byte short: with 0x it has as
\* many characters as an address has digits, but x is none.
THEOREM ShortAddressPanics ==
    ASSUME NEW bytes \in Seq(Byte), Len(bytes) < AddressBytes
    PROVE  DecodeAddressResponse(ZeroX \o BytesToHex(bytes)) = Panic
<1> DEFINE t == ZeroX \o BytesToHex(bytes)
           n == Len(bytes)
           k == AddressBytes
           last == SubSeq(t, Len(t) - 2 * k + 1, Len(t))
<1>1. n \in Nat /\ k \in Nat /\ n < k
  BY AddressAssumption, SMTT(30)
<1>2. t \in Seq(0 .. 16) /\ Len(t) = 2 * n + 2 /\ t[2] = LetterX
  BY TextOfBytes
<1> HIDE DEF t, n
<1>3. CASE Len(t) < 2 * k
  BY <1>3 DEF DecodeAddressResponse, t
<1>4. CASE ~(Len(t) < 2 * k)
  <2>1. Len(t) - 2 * k + 1 = 1 /\ Len(t) >= 2
    BY <1>1, <1>2, <1>4, SMTT(30)
  <2>2. last = SubSeq(t, 1, Len(t))
    BY <2>1
  <2>3. 2 \in DOMAIN last /\ last[2] = t[2]
    BY <1>2, <2>1, <2>2, SMTT(30)
  <2> HIDE DEF last
  <2>4. last[2] \notin Digit
    BY <1>2, <2>3, SMTT(30) DEF LetterX, Digit
  <2>5. \E i \in DOMAIN last : last[i] \notin Digit
    BY <2>3, <2>4
  <2> QED
    BY <2>5 DEF DecodeAddressResponse, last, t
<1> QED
  BY <1>3, <1>4
=============================================================================
