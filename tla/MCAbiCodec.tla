------------------------------ MODULE MCAbiCodec ------------------------------
(***************************************************************************)
(* Instances of AbiCodec: words of two bytes, the second of which is a     *)
(* count.                                                                  *)
(***************************************************************************)
EXTENDS AbiCodec

Uint == Kind("uint", <<>>, 0)
SignedInt == Kind("int", <<>>, 0)
Bool == Kind("bool", <<>>, 0)
Address == Kind("address", <<>>, 0)
Bytes == Kind("bytes", <<>>, 0)
String == Kind("string", <<>>, 0)
FixedBytes(size) == Kind("fixedBytes", <<>>, size)
Array(kind) == Kind("array", <<kind>>, 0)
FixedArray(kind, size) == Kind("fixedArray", <<kind>>, size)
Tuple(kinds) == Kind("tuple", kinds, 0)

Block == Tuple(<<Uint, Uint>>)

\* The shapes the portal's methods use, and the ones the codec's tests nest.
SomeLayouts ==
    <<<<Address>>,
      <<FixedBytes(1), Uint, Array(Uint), Bytes>>,
      <<Block, Array(Tuple(<<Address, Array(Bytes)>>))>>,
      <<Tuple(<<FixedBytes(1), Block>>), Array(Bytes)>>,
      <<Array(Block), Bool>>,
      <<Tuple(<<SignedInt, String>>), FixedBytes(3), Bool>>,
      <<FixedArray(Bytes, 2), FixedArray(Uint, 2), String>>,
      <<Tuple(<<Tuple(<<Bytes, Uint>>), Array(Array(Uint))>>)>>>>

RECURSIVE TokenSet(_)

Sequences(S, lens) == UNION {[1..n -> S] : n \in lens}

\* All sequences that take their i-th element from the i-th set.
RECURSIVE Product(_)
Product(sets) ==
    IF sets = <<>> THEN {<<>>}
    ELSE {<<first>> \o rest : first \in Head(sets), rest \in Product(Tail(sets))}

TokenSet(kind) ==
    LET parts == [i \in DOMAIN kind.of |-> TokenSet(kind.of[i])]
        values ==
          CASE kind.type = "uint"       -> {<<0, 2>>, <<1, 255>>}
            [] kind.type = "int"        -> {<<0, 255>>, <<255, 255>>}
            [] kind.type = "bool"       -> BOOLEAN
            [] kind.type = "address"    -> {<<255>>}
            [] kind.type = "bytes"      -> {<<>>, <<7, 0, 9>>}
            [] kind.type = "string"     -> {<<>>, <<7, 8>>}
            [] kind.type = "fixedBytes" -> [1..kind.size -> {0, 255}]
            [] kind.type = "array"      -> Sequences(parts[1], 0..2)
            [] kind.type = "fixedArray" -> [1..kind.size -> parts[1]]
            [] kind.type = "tuple"      -> Product(parts)
    IN {Token(kind.type, v) : v \in values}

SomeTokens(kinds) == Product([i \in DOMAIN kinds |-> TokenSet(kinds[i])])

SomeSelector == <<18>>
=============================================================================
