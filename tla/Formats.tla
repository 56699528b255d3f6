------------------------------- MODULE Formats -------------------------------
(***************************************************************************)
(* What the libraries move bytes in: Convert, from one format to another   *)
(* (convert.ts), Multicodec, which says what the bytes are (multicodec.ts),*)
(* and the chunks of a generated stream (stream.ts).                       *)
(***************************************************************************)
EXTENDS Integers, Sequences, SequencesExt, TLC

(* Convert.  A value is a format and its content.  Contents differ in what a *)
(* decoder and JSON.parse() make of them: raw bytes are no text, JSON may    *)
(* have spaces in it.  A view may be a part of its buffer.                   *)

Content == {"raw", "text", "json", "spaced"}
Refused == [format |-> "none", content |-> "refused", part |-> FALSE]
Views == {"Uint8Array", "BufferSource"}
InText == {"Base32Z", "Base58Btc", "Base64Url", "Hex", "Multibase"}

ValueOf(format, content, part) == [format |-> format, content |-> content, part |-> part]
Values ==
    {ValueOf(f, c, FALSE) : f \in InText \cup Views \cup {"ArrayBuffer", "AsyncIterable"}, c \in Content}
        \cup {ValueOf(f, c, TRUE) : f \in Views, c \in Content}
        \cup {ValueOf("String", c, FALSE) : c \in Content \ {"raw"}}
        \cup {ValueOf("Object", "json", FALSE)}

\* What each method converts from.
Converts ==
    ("ArrayBuffer" :> {"Base58Btc", "Base64Url", "BufferSource", "Hex", "String",
                       "Uint8Array", "AsyncIterable"}) @@
    ("Blob"        :> {"AsyncIterable"}) @@
    ("Base32Z"     :> {"Uint8Array"}) @@
    ("Base58Btc"   :> {"ArrayBuffer", "Multibase", "Uint8Array"}) @@
    ("Base64Url"   :> {"ArrayBuffer", "BufferSource", "Object", "String", "Uint8Array"}) @@
    ("Hex"         :> {"ArrayBuffer", "Base64Url", "Uint8Array"}) @@
    ("Multibase"   :> {"Base58Btc"}) @@
    ("Object"      :> {"Base64Url", "String", "Uint8Array", "AsyncIterable"}) @@
    ("String"      :> {"ArrayBuffer", "Base64Url", "Object", "Uint8Array", "AsyncIterable"}) @@
    ("Uint8Array"  :> {"ArrayBuffer", "Base32Z", "Base58Btc", "Base64Url", "BufferSource",
                       "Hex", "Object", "String", "AsyncIterable"})

\* The buffer of a view has what lies beside it, too.  toArrayBuffer() cuts a
\* BufferSource out of it and hands out that of a Uint8Array.
WholeBuffer(v) == v.format = "Uint8Array" /\ v.part
AsArrayBuffer(v) == ValueOf("ArrayBuffer", IF WholeBuffer(v) THEN "more" ELSE v.content, FALSE)

\* toUint8Array(): that of a BufferSource is a view on the same buffer.
AsUint8Array(v) == ValueOf("Uint8Array", v.content, v.format = "BufferSource" /\ v.part)

\* toString() and toStringAsync(): what the decoder can read.
AsString(v) == ValueOf("String", IF v.content = "raw" THEN "mangled" ELSE v.content, FALSE)

\* toObject() and toObjectAsync(): what JSON.parse() can read.
AsObject(v) ==
    IF v.content \in {"json", "spaced"} THEN ValueOf("Object", "json", FALSE) ELSE Refused

\* toBase32Z(), toBase58Btc(), toBase64Url(), toHex(), toMultibase(), toBlobAsync().
AsEncoded(format, v) == ValueOf(format, v.content, FALSE)

To(format, v) ==
    IF v.format \notin Converts[format] THEN Refused
    ELSE CASE format = "ArrayBuffer" -> AsArrayBuffer(v)
           [] format = "Uint8Array"  -> AsUint8Array(v)
           [] format = "String"      -> AsString(v)
           [] format = "Object"      -> AsObject(v)
           [] OTHER                  -> AsEncoded(format, v)

\* Hex: digits are 0..15; parseInt() skips white space and a sign before them,
\* stops at anything else, and takes "0x" for a prefix.
NoDigit == 16
Minus == 17
PlusOrSpace == 18
Ex == 19
IsDigit(c) == c < 16
NotANumber == -1

ParsePair(a, b) ==
    IF a = 0 /\ b = Ex THEN NotANumber
    ELSE CASE IsDigit(a) /\ IsDigit(b)       -> 16 * a + b
           [] IsDigit(a) /\ ~IsDigit(b)      -> a
           [] a = Minus /\ IsDigit(b)        -> (256 - b) % 256
           [] a = PlusOrSpace /\ IsDigit(b)  -> b
           [] OTHER                          -> NotANumber
HexBytes(digits) == [i \in 1 .. Len(digits) \div 2 |-> ParsePair(digits[2 * i - 1], digits[2 * i])]
HexAccepted(digits) == Len(digits) % 2 = 0 /\ NotANumber \notin Range(HexBytes(digits))
ToHex(bytes) ==
    [i \in 1 .. 2 * Len(bytes) |->
        IF i % 2 = 1 THEN bytes[(i + 1) \div 2] \div 16 ELSE bytes[i \div 2] % 16]

---------------------------------------------------------------------------
(* Multicodec: tables of codes and names, and prefixes in front of data.    *)

\* varint of multiformats: groups of seven bits, the lowest first, and the top
\* bit says that there is another.
Groups(n) == IF n < 128 THEN 1 ELSE IF n < 16384 THEN 2 ELSE 3
Varint(n) ==
    [i \in 1..Groups(n) |->
        LET bits == (n \div 128 ^ (i - 1)) % 128 IN IF i < Groups(n) THEN bits + 128 ELSE bits]
VarintLength(bytes) == CHOOSE n \in 1..Len(bytes) :
                           bytes[n] < 128 /\ \A i \in 1 .. n - 1 : bytes[i] >= 128
VarintOf(bytes) ==
    FoldLeft(LAMBDA sum, i : sum + (bytes[i] % 128) * 128 ^ (i - 1), 0,
             [i \in 1..VarintLength(bytes) |-> i])

Codec(code, name) == [code |-> code, name |-> name]
Predefined == <<Codec(237, "ed25519-pub"), Codec(4864, "ed25519-priv"), Codec(236, "x25519-pub"),
                Codec(4866, "x25519-priv"), Codec(231, "secp256k1-pub"),
                Codec(4865, "secp256k1-priv")>>

\* registerCodec(): either table takes the last entry and keeps the others.
NoName == "none"
NoCode == 0
LastWith(codecs, field, value) ==
    LET found == {i \in DOMAIN codecs : codecs[i][field] = value}
    IN IF found = {} THEN Codec(NoCode, NoName)
       ELSE codecs[CHOOSE i \in found : \A j \in found : j <= i]
CodeToName(codecs, code) == LastWith(codecs, "code", code).name
NameToCode(codecs, name) == LastWith(codecs, "name", name)

Unsupported == [supported |-> FALSE, code |-> NoCode, name |-> NoName, data |-> <<>>]
Coded(code, name, data) == [supported |-> TRUE, code |-> code, name |-> name, data |-> data]

\* addPrefix() by code, which must not be 0, or by name.
AddPrefix(codecs, code, name, data) ==
    LET by == IF name # NoName THEN NameToCode(codecs, name)
              ELSE Codec(code, CodeToName(codecs, code))
    IN IF (name # NoName) = (code # NoCode) \/ by.name = NoName THEN Unsupported
       ELSE Coded(by.code, by.name, Varint(by.code) \o data)

\* getCodeFromData() and removePrefix().
RemovePrefix(codecs, bytes) ==
    LET name == CodeToName(codecs, VarintOf(bytes))
    IN IF name = NoName THEN Unsupported
       ELSE Coded(VarintOf(bytes), name, SubSeq(bytes, VarintLength(bytes) + 1, Len(bytes)))

---------------------------------------------------------------------------
(* generateByteStream(): the lengths of its chunks; one of length 0 when      *)
(* nothing is asked for.                                                      *)

Chunks(streamLength, chunkLength) ==
    LET whole == streamLength \div chunkLength
        rest  == streamLength % chunkLength
    IN [i \in 1..whole |-> chunkLength] \o (IF rest > 0 \/ whole = 0 THEN <<rest>> ELSE <<>>)
Sum(lengths) == FoldLeft(LAMBDA a, b : a + b, 0, lengths)

---------------------------------------------------------------------------
(* Inputs *)

HexSamples == UNION {[1..n -> {0, 7, 10, NoDigit, Minus, PlusOrSpace, Ex}] : n \in {0, 1, 2, 4}}
CodecSamples ==
    {<<codecs, later, code, name, data>> :
        codecs \in {Predefined, Append(Predefined, Codec(20000, "sample"))},
        later \in {<<>>, <<Codec(237, "renamed")>>},
        code \in {NoCode, 7, 231, 237, 4864, 20000},
        name \in {NoName, "sample", "x25519-pub", "ed25519-priv"},
        data \in {<<>>, <<5>>, <<128, 1>>}}

---------------------------------------------------------------------------
(* Properties *)

\* Safety: what a conversion accepts comes back as it was, by the way back
\* there is, except: raw bytes are no text, spaces of JSON are not kept, and
\* the buffer of a view is more than the view (convert.ts 80-443).
ConvertsBack(v) ==
    \A f \in DOMAIN Converts : \A g \in DOMAIN Converts \cap {v.format} :
        LET there == To(f, v)
            back  == To(g, there)
        IN there # Refused /\ back # Refused =>
               \/ back.content = v.content
               \/ f = "String" /\ v.content = "raw"
               \/ f = "Object" /\ v.content = "spaced"
               \/ f = "ArrayBuffer" /\ WholeBuffer(v)

\* Safety: hexadecimal digits come back from the bytes they give, and of every
\* two characters that are accepted one at least is a digit; the error of line
\* 412 promises that both are (convert.ts 54-62, 229-256, 407-417).
HexComesBack(digits) ==
    /\ (\A i \in DOMAIN digits : IsDigit(digits[i])) /\ Len(digits) % 2 = 0
           => HexAccepted(digits) /\ ToHex(HexBytes(digits)) = digits
    /\ HexAccepted(digits) => \A i \in 1 .. Len(digits) \div 2 :
                                  IsDigit(digits[2 * i - 1]) \/ IsDigit(digits[2 * i])

\* Safety: prefixed data are told by every process that knows the code to be
\* what they were: the code, the data and, unless the code has been given
\* another name since, the name (multicodec.ts 50-78, 154-168).
PrefixTells(codecs, later, code, name, data) ==
    LET with == AddPrefix(codecs, code, name, data)
        what == RemovePrefix(codecs \o later, with.data)
    IN with.supported =>
           /\ what.supported /\ what.code = with.code /\ what.data = data
           /\ name = NoName => what.code = code
           /\ \/ what.name = with.name
              \/ \E c \in Range(codecs \o later) : c.code = with.code /\ c.name # with.name

\* Safety: the chunks of a generated stream are as long as was asked for
\* (stream.ts 176-222).
ChunksAddUp(streamLength, chunkLength) ==
    /\ Sum(Chunks(streamLength, chunkLength)) = streamLength
    /\ \A i \in DOMAIN Chunks(streamLength, chunkLength) :
           Chunks(streamLength, chunkLength)[i] \in 0..chunkLength

\* Safety: the four together.
FormatsHold(sample) ==
    CASE sample[1] = "value"  -> ConvertsBack(sample[2])
      [] sample[1] = "hex"    -> HexComesBack(sample[2])
      [] sample[1] = "codec"  -> LET c == sample[2] IN PrefixTells(c[1], c[2], c[3], c[4], c[5])
      [] sample[1] = "chunks" -> ChunksAddUp(sample[2][1], sample[2][2])

FormatSamples ==
    {<<"value", v>> : v \in Values} \cup {<<"hex", d>> : d \in HexSamples}
        \cup {<<"codec", c>> : c \in CodecSamples} \cup {<<"chunks", c>> : c \in (0..7) \X (1..4)}
=============================================================================
