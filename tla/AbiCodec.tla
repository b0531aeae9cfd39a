------------------------------- MODULE AbiCodec -------------------------------
(***************************************************************************)
(* What the node exchanges with a contract: a call is encoded by           *)
(* ethabi-nostd and sent as a hexadecimal string, the contract's answer    *)
(* comes back as one and is decoded.  The answer may be for another layout *)
(* than the one asked for, or short (an address without code answers 0x).  *)
(* A byte is a number, a word a sequence of WordBytes of them, and a U256  *)
(* is its word.                                                            *)
(***************************************************************************)
EXTENDS HexText, SequencesExt

CONSTANTS
    WordBytes,      \* 32
    CountBytes,     \* bytes of a u32, and of a usize in the runtime: 4
    MaxElements,    \* array elements for which memory can be had
    Selector,       \* first bytes of the hash of a method's signature
    Layouts,        \* the lists of ParamKinds calls and answers are made of
    TokensOf(_)     \* the tokens of a list of ParamKinds

ASSUME CodecAssumption ==
    /\ {WordBytes, CountBytes} \subseteq Nat \ {0}
    /\ CountBytes < WordBytes /\ AddressBytes < WordBytes
    /\ MaxElements \in Nat

VARIABLES
    phase,    \* idle, called, answered or read
    layout,   \* what the text was encoded from
    tokens,
    text,     \* the string on its way, as hexadecimal digits and x
    asked,    \* the layout it is decoded with
    result

codecVars == <<phase, layout, tokens, text, asked, result>>

-----------------------------------------------------------------------------
\* Words
Zeros(n) == [i \in 1..n |-> 0]

PadU32(n) == [i \in 1..WordBytes |-> (n \div 256^(WordBytes - i)) % 256]

AsU32(word) ==
    IF \E i \in 1..(WordBytes - CountBytes) : word[i] # 0
    THEN Err
    ELSE Ok(FoldLeft(LAMBDA n, b : 256 * n + b, 0, word))

SliceData(data) ==
    IF Len(data) % WordBytes # 0
    THEN Err
    ELSE Ok([i \in 1..(Len(data) \div WordBytes) |->
               SubSeq(data, WordBytes * (i - 1) + 1, WordBytes * i)])

PadFixedBytes(bytes) ==
    LET len == (Len(bytes) + WordBytes - 1) \div WordBytes
    IN SliceData(bytes \o Zeros(len * WordBytes - Len(bytes))).value

PadBytes(bytes) == <<PadU32(Len(bytes))>> \o PadFixedBytes(bytes)
-----------------------------------------------------------------------------
\* Tokens and ParamKinds have the same types; a ParamKind lists its parts.
Token(type, value) == [type |-> type, value |-> value]
Kind(type, of, size) == [type |-> type, of |-> of, size |-> size]

RECURSIVE KindIsDynamic(_), TokenIsDynamic(_), TypeCheck(_, _)

KindIsDynamic(kind) ==
    \/ kind.type \in {"bytes", "string", "array"}
    \/ /\ kind.type \in {"fixedArray", "tuple"}
       /\ \E i \in DOMAIN kind.of : KindIsDynamic(kind.of[i])

TokenIsDynamic(token) ==
    \/ token.type \in {"bytes", "string", "array"}
    \/ /\ token.type \in {"fixedArray", "tuple"}
       /\ \E i \in DOMAIN token.value : TokenIsDynamic(token.value[i])

IsEmptyBytesValidEncoding(kind) ==
    kind.type \in {"fixedBytes", "fixedArray"} /\ kind.size = 0

TypeCheck(token, kind) ==
    /\ token.type = kind.type
    /\ token.type = "fixedBytes" => kind.size >= Len(token.value)
    /\ token.type = "fixedArray" => kind.size = Len(token.value)
    /\ token.type \in {"array", "fixedArray"} =>
         \A i \in DOMAIN token.value : TypeCheck(token.value[i], kind.of[1])
    /\ token.type = "tuple" =>
         \A i \in DOMAIN token.value : TypeCheck(token.value[i], kind.of[i])

TypesCheck(ts, kinds) ==
    Len(ts) = Len(kinds) /\ \A i \in DOMAIN ts : TypeCheck(ts[i], kinds[i])
-----------------------------------------------------------------------------
\* encoder.rs: a token becomes a Mediate, whose head and tail are laid out by
\* encode_head_tail.
Raw(words) == [form |-> "Raw", words |-> words, parts |-> <<>>]
Prefixed(words) == [form |-> "Prefixed", words |-> words, parts |-> <<>>]
Composed(form, parts) == [form |-> form, words |-> <<>>, parts |-> parts]

RECURSIVE TailLen(_), Head_(_, _), EncodeHeadTail(_), EncodeToken(_)

Total(len(_), parts) == FoldLeft(LAMBDA n, m : n + len(m), 0, parts)

HeadLen(m) ==
    CASE m.form = "Raw"      -> WordBytes * Len(m.words)
      [] m.form = "RawTuple" -> WordBytes * Len(m.parts)
      [] OTHER               -> WordBytes

\* Mutant: the word that holds an array's length is not counted.
TailLenWithoutCount(m) ==
    CASE m.form \in {"Raw", "RawTuple"} -> 0
      [] m.form = "Prefixed"            -> WordBytes * Len(m.words)
      [] OTHER -> Total(HeadLen, m.parts) + Total(TailLen, m.parts)

TailLen(m) ==
    CASE m.form \in {"Raw", "RawTuple"} -> 0
      [] m.form = "Prefixed"            -> WordBytes * Len(m.words)
      [] m.form = "PrefixedArrayWithLength" ->
           WordBytes + Total(HeadLen, m.parts) + Total(TailLen, m.parts)
      [] OTHER -> Total(HeadLen, m.parts) + Total(TailLen, m.parts)

Head_(m, suffixOffset) ==
    CASE m.form = "Raw"      -> m.words
      [] m.form = "RawTuple" ->
           FlattenSeq([i \in DOMAIN m.parts |-> Head_(m.parts[i], 0)])
      [] OTHER               -> <<PadU32(suffixOffset)>>

Tail_(m) ==
    CASE m.form \in {"Raw", "RawTuple"} -> <<>>
      [] m.form = "Prefixed"            -> m.words
      [] m.form = "PrefixedArrayWithLength" ->
           <<PadU32(Len(m.parts))>> \o EncodeHeadTail(m.parts)
      [] OTHER                          -> EncodeHeadTail(m.parts)

EncodeHeadTail(parts) ==
    LET offset(i) == Total(HeadLen, parts) + Total(TailLen, SubSeq(parts, 1, i - 1))
    IN FlattenSeq([i \in DOMAIN parts |-> Head_(parts[i], offset(i))])
         \o FlattenSeq([i \in DOMAIN parts |-> Tail_(parts[i])])

EncodeToken(token) ==
    LET parts == [i \in DOMAIN token.value |-> EncodeToken(token.value[i])]
    IN CASE token.type = "address" ->
              Raw(<<Zeros(WordBytes - AddressBytes) \o token.value>>)
         [] token.type \in {"bytes", "string"} -> Prefixed(PadBytes(token.value))
         [] token.type = "fixedBytes"          -> Raw(PadFixedBytes(token.value))
         [] token.type \in {"int", "uint"}     -> Raw(<<token.value>>)
         [] token.type = "bool" -> Raw(<<PadU32(IF token.value THEN 1 ELSE 0)>>)
         [] token.type = "array" -> Composed("PrefixedArrayWithLength", parts)
         [] token.type = "fixedArray" ->
              IF TokenIsDynamic(token) THEN Composed("PrefixedArray", parts)
                                       ELSE Raw(EncodeHeadTail(parts))
         [] token.type = "tuple" ->
              IF TokenIsDynamic(token) THEN Composed("PrefixedTuple", parts)
                                       ELSE Composed("RawTuple", parts)

Encode(ts) ==
    FlattenSeq(EncodeHeadTail([i \in DOMAIN ts |-> EncodeToken(ts[i])]))

EncodeFunction(ts) == Selector \o Encode(ts)
-----------------------------------------------------------------------------
\* decoder.rs: positions are in words from 0, as in the code.  A decoded
\* token comes with the position after it.
DecodeResult(token, newOffset) == Ok([token |-> token, newOffset |-> newOffset])

Peek(slices, position) ==
    IF position < Len(slices) THEN Ok(slices[position + 1]) ELSE Err

\* A u32 that is read at a position.
PeekU32(slices, position) ==
    LET word == Peek(slices, position)
    IN IF word.out = "ok" THEN AsU32(word.value) ELSE word

\* Mutant: the padding of the last word is not taken off.
TakeWords(slices, position, len) ==
    LET count == ((len + WordBytes - 1) % 256^CountBytes) \div WordBytes
        taken == FlattenSeq([i \in 1..count |-> Peek(slices, position + i - 1).value])
    IN IF \E i \in 0..(count - 1) : Peek(slices, position + i).out # "ok"
       THEN Err
       ELSE Ok([bytes |-> taken, newOffset |-> position + count])

\* Mutant: words that are not there are skipped.
TakeAvailable(slices, position, len) ==
    LET count == ((len + WordBytes - 1) % 256^CountBytes) \div WordBytes
        taken == FlattenSeq(SubSeq(slices, position + 1, Min({position + count, Len(slices)})))
    IN Ok([bytes |-> SubSeq(taken, 1, Min({len, Len(taken)})),
           newOffset |-> position + count])

\* len + 31 wraps around where a usize is a u32.
TakeBytes(slices, position, len) ==
    LET count == ((len + WordBytes - 1) % 256^CountBytes) \div WordBytes
        taken == FlattenSeq([i \in 1..count |-> Peek(slices, position + i - 1).value])
    IN IF \E i \in 0..(count - 1) : Peek(slices, position + i).out # "ok"
       THEN Err
       ELSE Ok([bytes |-> SubSeq(taken, 1, Min({len, Len(taken)})),
                newOffset |-> position + count])

AsBool(word) ==
    IF \E i \in 1..(WordBytes - 1) : word[i] # 0 THEN Err ELSE Ok(word[WordBytes] = 1)

\* Mutant: what follows a static tuple or array is looked for one word on.
NewOffsetOneWord(kind, offset, last) == offset + 1

\* Where the head of the next parameter is.
NewOffset(kind, offset, last) == IF KindIsDynamic(kind) THEN offset + 1 ELSE last

RECURSIVE DecodeParam(_, _, _), DecodeParams(_, _, _)

DecodeWord(kind, slices, offset) ==
    LET word == Peek(slices, offset)
        b == AsBool(word.value)
    IN CASE word.out # "ok" -> word
         [] kind.type = "address" ->
              DecodeResult(Token("address",
                             SubSeq(word.value, WordBytes - AddressBytes + 1, WordBytes)),
                           offset + 1)
         [] kind.type \in {"int", "uint"} ->
              DecodeResult(Token(kind.type, word.value), offset + 1)
         [] kind.type = "bool" ->
              IF b.out = "ok" THEN DecodeResult(Token("bool", b.value), offset + 1) ELSE b

DecodeFixedBytes(kind, slices, offset) ==
    LET taken == TakeBytes(slices, offset, kind.size)
    IN IF taken.out # "ok"
       THEN taken
       ELSE DecodeResult(Token("fixedBytes", taken.value.bytes), taken.value.newOffset)

\* Bytes, strings and arrays start with an offset to where their length is.
DecodeBytes(kind, slices, offset) ==
    LET at == PeekU32(slices, offset)
        start == at.value \div WordBytes
        len == PeekU32(slices, start)
        taken == TakeBytes(slices, start + 1, len.value)
    IN CASE at.out # "ok"    -> at
         [] len.out # "ok"   -> len
         [] taken.out # "ok" -> taken
         [] OTHER -> DecodeResult(Token(kind.type, taken.value.bytes), offset + 1)

\* The elements' memory is asked for before the first of them is read: a count
\* that is too large for it panics, whatever follows.
DecodeArray(kind, slices, offset) ==
    LET at == PeekU32(slices, offset)
        start == at.value \div WordBytes
        len == PeekU32(slices, start)
        tail == SubSeq(slices, start + 2, Len(slices))
        parts == DecodeParams([i \in 1..len.value |-> kind.of[1]], tail, 0)
    IN CASE at.out # "ok"    -> at
         [] len.out # "ok"   -> len
         [] len.value > MaxElements -> Panic
         [] parts.out # "ok" -> parts
         [] OTHER -> DecodeResult(Token("array", parts.value.tokens), offset + 1)

\* Fixed arrays and tuples: the data follows an offset if they are dynamic,
\* and a slice past the end of the data panics.
DecodeParts(kind, kinds, slices, offset) ==
    LET dynamic == KindIsDynamic(kind)
        at == IF dynamic THEN PeekU32(slices, offset) ELSE Ok(0)
        start == at.value \div WordBytes
        parts == IF dynamic
                 THEN DecodeParams(kinds, SubSeq(slices, start + 1, Len(slices)), 0)
                 ELSE DecodeParams(kinds, slices, offset)
    IN CASE at.out # "ok"        -> at
         [] start > Len(slices)  -> Panic
         [] parts.out # "ok"     -> parts
         [] OTHER -> DecodeResult(Token(kind.type, parts.value.tokens),
                                  NewOffset(kind, offset, parts.value.newOffset))

DecodeParam(kind, slices, offset) ==
    CASE kind.type \in {"address", "int", "uint", "bool"} ->
           DecodeWord(kind, slices, offset)
      [] kind.type = "fixedBytes"           -> DecodeFixedBytes(kind, slices, offset)
      [] kind.type \in {"bytes", "string"}  -> DecodeBytes(kind, slices, offset)
      [] kind.type = "array"                -> DecodeArray(kind, slices, offset)
      [] kind.type = "fixedArray" ->
           DecodeParts(kind, [i \in 1..kind.size |-> kind.of[1]], slices, offset)
      [] kind.type = "tuple"                -> DecodeParts(kind, kind.of, slices, offset)

\* The loop over parameters; the first that fails ends it.
DecodeParams(kinds, slices, offset) ==
    IF kinds = <<>>
    THEN Ok([tokens |-> <<>>, newOffset |-> offset])
    ELSE LET first == DecodeParam(Head(kinds), slices, offset)
             rest == DecodeParams(Tail(kinds), slices, first.value.newOffset)
         IN CASE first.out # "ok" -> first
              [] rest.out # "ok"  -> rest
              [] OTHER -> Ok([tokens |-> <<first.value.token>> \o rest.value.tokens,
                              newOffset |-> rest.value.newOffset])

Decode(kinds, data) ==
    LET slices == SliceData(data)
        decoded == DecodeParams(kinds, slices.value, 0)
        emptyIsValid == \A i \in DOMAIN kinds : IsEmptyBytesValidEncoding(kinds[i])
    IN CASE data = <<>> /\ ~emptyIsValid -> Err
         [] slices.out # "ok"            -> slices
         [] decoded.out # "ok"           -> decoded
         [] OTHER                        -> Ok(decoded.value.tokens)

DecodeText(kinds, s) ==
    LET data == HexToBytes(s)
    IN IF data.out = "ok" THEN Decode(kinds, data.value) ELSE data
-----------------------------------------------------------------------------
\* The contract's own encoder, by the definition of the ABI: the encodings of
\* static parts in place, those of dynamic parts after all heads, in order.
RECURSIVE AbiEncoding(_)

AbiSequence(ts) ==
    LET enc == [i \in DOMAIN ts |-> AbiEncoding(ts[i])]
        headWords(i) == IF TokenIsDynamic(ts[i]) THEN 1 ELSE Len(enc[i])
        tailWords(i) == IF TokenIsDynamic(ts[i]) THEN Len(enc[i]) ELSE 0
        offset(i) == MapThenSumSet(headWords, DOMAIN ts) + MapThenSumSet(tailWords, 1..(i - 1))
        head(i) == IF TokenIsDynamic(ts[i]) THEN <<PadU32(WordBytes * offset(i))>> ELSE enc[i]
        tail(i) == IF TokenIsDynamic(ts[i]) THEN enc[i] ELSE <<>>
    IN FlattenSeq([i \in DOMAIN ts |-> head(i)]) \o FlattenSeq([i \in DOMAIN ts |-> tail(i)])

AbiEncoding(token) ==
    CASE token.type = "address"           -> <<Zeros(WordBytes - AddressBytes) \o token.value>>
      [] token.type = "bool"              -> <<PadU32(IF token.value THEN 1 ELSE 0)>>
      [] token.type \in {"int", "uint"}   -> <<token.value>>
      [] token.type = "fixedBytes"        -> PadFixedBytes(token.value)
      [] token.type \in {"bytes", "string"} ->
           <<PadU32(Len(token.value))>> \o PadFixedBytes(token.value)
      [] token.type = "array" ->
           <<PadU32(Len(token.value))>> \o AbiSequence(token.value)
      [] token.type \in {"fixedArray", "tuple"} -> AbiSequence(token.value)

AbiEncode(ts) == FlattenSeq(AbiSequence(ts))
-----------------------------------------------------------------------------
NoResult == [out |-> "none", value |-> <<>>]

Init ==
    /\ phase = "idle"
    /\ layout = <<>> /\ tokens = <<>> /\ text = <<>> /\ asked = <<>>
    /\ result = NoResult

\* ContractClient::call and send: what they put into the request.
Call(l, ts) ==
    /\ phase' = "called"
    /\ layout' = l /\ tokens' = ts
    /\ text' = HexAdd0x(BytesToHex(EncodeFunction(ts)))
    /\ UNCHANGED <<asked, result>>

\* A contract answers, with all its words or only the first of them.
Answer(l, ts, words) ==
    /\ phase' = "answered"
    /\ layout' = l /\ tokens' = ts
    /\ text' = ZeroX \o BytesToHex(SubSeq(AbiEncode(ts), 1, WordBytes * words))
    /\ UNCHANGED <<asked, result>>

\* The portal client decodes an answer with its own layout.
ReadAnswer(kinds) ==
    /\ phase = "answered" /\ phase' = "read"
    /\ asked' = kinds
    /\ result' = DecodeText(kinds, text)
    /\ UNCHANGED <<layout, tokens, text>>

\* The getters of manager addresses do not use the decoder.
ReadAddress ==
    LET address == DecodeAddressResponse(text)
    IN /\ phase = "answered" /\ phase' = "read"
       /\ asked' = <<Kind("address", <<>>, 0)>>
       /\ result' = IF address.out = "ok"
                    THEN Ok(<<Token("address", address.value)>>)
                    ELSE address
       /\ UNCHANGED <<layout, tokens, text>>

Over ==
    /\ phase \in {"called", "read"} /\ phase' = "idle"
    /\ layout' = <<>> /\ tokens' = <<>> /\ text' = <<>> /\ asked' = <<>>
    /\ result' = NoResult

AnswerWords(ts) == Len(AbiEncode(ts)) \div WordBytes

Next ==
    \/ /\ phase = "idle"
       /\ \E i \in DOMAIN Layouts : \E ts \in TokensOf(Layouts[i]) :
            \/ Call(Layouts[i], ts)
            \/ \E words \in 0..AnswerWords(ts) : Answer(Layouts[i], ts, words)
    \/ \E i \in DOMAIN Layouts : ReadAnswer(Layouts[i])
    \/ ReadAddress
    \/ Over

Spec == Init /\ [][Next]_codecVars
-----------------------------------------------------------------------------
RECURSIVE HasWideTuple(_)

\* A static tuple some part of which takes more than one word.
HasWideTuple(token) ==
    /\ token.type \in {"array", "fixedArray", "tuple"}
    /\ \/ /\ token.type = "tuple" /\ ~TokenIsDynamic(token)
          /\ \E i \in DOMAIN token.value : Len(AbiEncoding(token.value[i])) > 1
       \/ \E i \in DOMAIN token.value : HasWideTuple(token.value[i])

\* "Encodes vector of tokens into ABI compliant vector of bytes": a request
\* carries the selector and exactly what the contract's own encoder would
\* write, for every nesting of arrays and tuples, unless a static tuple has a
\* part of several words.  head_len counts such a part as one word, and the
\* offsets of what follows are too small.
CallIsCompliant ==
    phase = "called" /\ ~(\E i \in DOMAIN tokens : HasWideTuple(tokens[i]))
      => text = ZeroX \o BytesToHex(Selector \o AbiEncode(tokens))

\* An answer that arrives whole, and is decoded with the contract's layout,
\* gives the values the contract encoded: decode follows every offset from
\* the right base, and goes on after static and dynamic parts at the right
\* word.
AnswerIsRead ==
    phase = "read" /\ asked = layout /\ text = ZeroX \o BytesToHex(AbiEncode(tokens))
      => result = Ok(tokens)

\* A short answer is refused, or ends in a panic: it never passes for other
\* values, whether it is decoded or an address is taken from its end.
ShortIsNeverMisread ==
    phase = "read" /\ asked = layout /\ result.out = "ok" => result.value = tokens

\* Whatever the contract answered, what decode accepts has the types it was
\* asked for, so that Token::to_uint and its like find their variant.
AnswerFitsLayout ==
    phase = "read" /\ result.out = "ok" => TypesCheck(result.value, asked)
=============================================================================
