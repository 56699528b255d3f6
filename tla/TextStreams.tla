----------------------------- MODULE TextStreams -----------------------------
(***************************************************************************)
(* The texts and bytes that records, objects of the stores and JWTs are    *)
(* read from (convert.ts, stream.ts, stream-node.ts).  One TextDecoder     *)
(* serves the whole process.  A read that streams feeds it chunk by chunk, *)
(* with an await before each, and between two chunks the decoder may hold  *)
(* the first half of a character.                                          *)
(*                                                                         *)
(* A character of the model has one byte or two, <<"lead", c>> and         *)
(* <<"trail", c>>; longer ones differ in nothing but where they can break. *)
(* A text is what each of its bytes, and its end, have given: a tuple of   *)
(* characters for each of them.                                            *)
(***************************************************************************)
EXTENDS Integers, Sequences

CONSTANTS
    Reader,    \* one read each
    Source     \* what there is to read: sequences of bytes

VARIABLES
    half,      \* textDecoder: the lead byte it holds, or NoHalf
    holder,    \* history: whose byte that is
    read,      \* what every read is doing; taken: how many bytes have come
    mixed      \* history: reads that met, or left, half a character of another

vars == <<half, holder, read, mixed>>

\* consumeToText and consumeToJson, of bytes or of a stream of strings;
\* consumeToBytes, consumeToBlob and consumeToArrayBuffer; toString() and
\* toObject() of bytes that are there.
Op == {"text", "strings", "bytes", "whole"}

NoHalf == "none"
Bad == <<"bad">>           \* U+FFFD
Character(a, b) == <<a, b>>
Byte == {"one", "lead", "trail"} \X (STRING \ {NoHalf})

\* TextDecoder: what it holds after a byte, whatever came before, and what a
\* byte gives.  A lead byte and a trail byte make a character, whichever they
\* are; what does not fit is replaced.
HalfAfter(byte) == IF byte[1] = "lead" THEN byte[2] ELSE NoHalf
Broken(from) == IF from = NoHalf THEN <<>> ELSE <<Bad>>
DecodeByte(from, byte) ==
    CASE byte[1] = "one"   -> Broken(from) \o <<Character(byte[2], byte[2])>>
      [] byte[1] = "lead"  -> Broken(from)
      [] byte[1] = "trail" -> IF from = NoHalf THEN <<Bad>> ELSE <<Character(from, byte[2])>>

\* decode(chunk, {stream: true}), from what an earlier call has left, and what
\* it leaves.
Decode(from, chunk) ==
    [i \in 1..Len(chunk) |-> DecodeByte(IF i = 1 THEN from ELSE HalfAfter(chunk[i - 1]), chunk[i])]
Kept(from, chunk) == IF chunk = <<>> THEN from ELSE HalfAfter(chunk[Len(chunk)])

\* decode(): the last call, after which the decoder is empty.
Flush(from) == IF from = NoHalf THEN <<>> ELSE <<Broken(from)>>
DecodeLast(from, chunk) == Decode(from, chunk) \o Flush(Kept(from, chunk))

Init ==
    /\ half = NoHalf /\ holder = {}
    /\ read \in [Reader -> [at : {"new"}, op : Op, bytes : Source, taken : {0}, got : {<<>>}]]
    /\ mixed = {}

---------------------------------------------------------------------------

\* r finds in the decoder what another read has left there.
Meets(r) == mixed' = IF holder \subseteq {r} THEN mixed ELSE mixed \cup holder \cup {r}

Leaves(r, byte) ==
    /\ half' = byte
    /\ holder' = IF byte = NoHalf THEN {} ELSE {r}

\* for await (...): a chunk has come, the bytes up to the n-th.  Text is decoded
\* with what the decoder holds, bytes and strings are kept as they are.
Chunk(r, n) ==
    /\ read[r].at = "new" /\ read[r].op # "whole"
    /\ LET chunk == SubSeq(read[r].bytes, read[r].taken + 1, n)
           text  == read[r].op = "text"
       IN /\ read' = [read EXCEPT ![r].taken = n,
                                  ![r].got = @ \o (IF text THEN Decode(half, chunk) ELSE chunk)]
          /\ IF text THEN Leaves(r, Kept(half, chunk)) /\ Meets(r)
             ELSE UNCHANGED <<half, holder, mixed>>

\* The stream has ended: the last call of the decoder flushes it, whatever the
\* chunks were.
End(r) ==
    /\ read[r].at = "new" /\ read[r].op # "whole" /\ read[r].taken = Len(read[r].bytes)
    /\ IF read[r].op # "bytes"
       THEN /\ read' = [read EXCEPT ![r].at = "done", ![r].got = @ \o DecodeLast(half, <<>>)]
            /\ Leaves(r, NoHalf) /\ Meets(r)
       ELSE /\ read' = [read EXCEPT ![r].at = "done"]
            /\ UNCHANGED <<half, holder, mixed>>

\* toString() or toObject(): decode() at once, which does not reset a decoder
\* that has streamed.
Whole(r) ==
    /\ read[r].at = "new" /\ read[r].op = "whole"
    /\ read' = [read EXCEPT ![r].at = "done", ![r].got = DecodeLast(half, read[r].bytes)]
    /\ Leaves(r, NoHalf) /\ Meets(r)

\* The stream fails: the loop throws, and the decoder keeps what it holds.
Breaks(r) ==
    /\ read[r].at = "new" /\ read[r].op # "whole"
    /\ read' = [read EXCEPT ![r].at = "failed"]
    /\ UNCHANGED <<half, holder, mixed>>

Next ==
    \E r \in Reader :
        \/ \E n \in read[r].taken + 1..Len(read[r].bytes) : Chunk(r, n)
        \/ End(r) \/ Whole(r) \/ Breaks(r)

Spec == Init /\ [][Next]_vars

---------------------------------------------------------------------------
(* Properties *)

TypeOK ==
    /\ mixed \subseteq Reader /\ holder \subseteq Reader
    /\ (half = NoHalf) = (holder = {})
    /\ \A r \in Reader : read[r].at \in {"new", "done", "failed"}

\* What the bytes say: what a decoder of its own would make of all of them.
Right(r) ==
    read[r].got = IF read[r].op \in {"bytes", "strings"} THEN read[r].bytes
                  ELSE DecodeLast(NoHalf, read[r].bytes)

\* Safety: bytes come as they were sent, and a text is what its bytes say,
\* wherever the chunks break a character (convert.ts 337-366); except for reads
\* that met in the decoder half a character another had left.
TextsRight ==
    /\ TypeOK
    /\ \A r \in Reader : read[r].at = "done" => r \in mixed \/ Right(r)
    /\ \A r \in mixed : read[r].op # "bytes"

\* Safety: "the decoder handle[s] multi-byte characters spanning multiple
\* chunks" (convert.ts 349-351): every text that was read is right.
TextsWhole == \A r \in Reader : read[r].at = "done" => Right(r)
=============================================================================
