------------------------------- MODULE Delim -------------------------------
(***************************************************************************)
(* A stream of size-delimited messages (encoding/protodelim) between a     *)
(* writer that may fail at any byte and a reader that sees the bytes as    *)
(* they arrive, with the varints of encoding/protowire.                    *)
(*                                                                         *)
(* A byte is less than 2 * Cont and carries a group, a number less than    *)
(* Cont, and the continuation bit Cont; a varint has at most MaxVarintLen  *)
(* bytes, the last of which carries one bit.  The code's values are 128    *)
(* and 10.  The contents of a message are size equal bytes, so that        *)
(* contents that are taken for a size go unnoticed.                        *)
(***************************************************************************)
EXTENDS Integers, Sequences

CONSTANTS
    Cont, MaxVarintLen,
    Sizes,         \* sizes of the messages that are written
    Fills,         \* the bytes that their contents consist of
    BadFill,       \* contents that proto.Unmarshal refuses
    Limit,         \* UnmarshalOptions.MaxSize, not 0
    BufferSize,    \* buffer size of the bufio.Reader
    Readers,       \* kinds of Reader: "bufio", "plain"
    MaxMessages    \* bound on the messages written

Byte == 0 .. 2 * Cont - 1

(* What a one in the group with i groups below it stands for. *)
Place[i \in 0 .. MaxVarintLen] == IF i = 0 THEN 1 ELSE Cont * Place[i - 1]

ASSUME DelimAssumption ==
    /\ Cont \in Nat \ {0, 1} /\ MaxVarintLen \in Nat \ {0, 1}
    /\ Fills \subseteq Byte /\ BadFill \in Byte
    /\ \A n \in Sizes : n \in 0 .. 2 * Place[MaxVarintLen - 1] - 1
    /\ Limit \in Nat \cup {-1} /\ Limit # 0

VARIABLES
    reader,     \* the kind of Reader
    sent,       \* the messages whose writing began
    out,        \* bytes of the last one still to be written
    begun,      \* whether some byte of the last one was written
    closed,     \* "no", "closed" after a message, "failed" anywhere
    wire,       \* bytes written and not yet consumed by the reader
    pc,         \* the reader: "idle", "size", "body", "full", "unmarshal"
    sizeBuf, size, body, peeked,
    delivered,  \* the contents handed to proto.Unmarshal, and whether it refused them
    outcome     \* "none", or the error that ended the reading

writer == <<sent, out, begun, closed>>
locals == <<sizeBuf, size, body, peeked>>
vars == <<reader, writer, wire, pc, locals, delivered, outcome>>

Message == [size : Sizes, fill : Fills]

-----------------------------------------------------------------------------
(* Varints. *)

(* Mutant: a value that fills its groups exactly gets one byte too few. *)
VarintLenShort(v) ==
    CHOOSE k \in 1..MaxVarintLen :
        /\ k < MaxVarintLen => v <= Place[k]
        /\ \A j \in 1..k - 1 : v > Place[j]

(* The number of bytes that the cases of AppendVarint choose. *)
VarintLen(v) ==
    CHOOSE k \in 1..MaxVarintLen :
        /\ k < MaxVarintLen => v < Place[k]
        /\ \A j \in 1..k - 1 : v >= Place[j]

(* The groups of v, lowest first, in k bytes. *)
Groups(v, k) == [i \in 1..k |-> ((v \div Place[i - 1]) % Cont) + (IF i < k THEN Cont ELSE 0)]
AppendVarint(v) == Groups(v, VarintLen(v))

(* What the first i groups of buf add up to, for every i. *)
Value(buf) ==
    LET v[i \in 0 .. Len(buf)] == IF i = 0 THEN 0 ELSE v[i - 1] + (buf[i] % Cont) * Place[i - 1]
    IN  v

(* ConsumeVarint: the value, or why there is none. *)
ConsumeVarint(buf) ==
    LET ends == {i \in DOMAIN buf : i <= MaxVarintLen /\ buf[i] < Cont}
        k == CHOOSE i \in ends : \A j \in ends : i <= j
    IN  IF Len(buf) >= MaxVarintLen /\ (ends = {} \/ (k = MaxVarintLen /\ buf[k] >= 2))
        THEN [err |-> "overflow", v |-> 0]
        ELSE IF ends = {} THEN [err |-> "truncated", v |-> 0]
        ELSE [err |-> "none", v |-> Value(buf)[k]]

-----------------------------------------------------------------------------
Init ==
    /\ reader \in Readers
    /\ sent = <<>> /\ out = <<>> /\ begun = FALSE /\ closed = "no"
    /\ wire = <<>> /\ pc = "idle"
    /\ sizeBuf = <<>> /\ size = 0 /\ body = <<>> /\ peeked = FALSE
    /\ delivered = <<>> /\ outcome = "none"

Contents(m) == [i \in 1..m.size |-> m.fill]

(* The size of a message: as MarshalTo writes it, or padded with empty      *)
(* groups as other writers may.                                             *)
SizeBytes(m, k) == IF k = VarintLen(m.size) THEN AppendVarint(m.size) ELSE Groups(m.size, k)

(* MarshalTo. *)
MarshalTo(m, k) ==
    /\ closed = "no" /\ out = <<>> /\ Len(sent) < MaxMessages
    /\ sent' = Append(sent, m)
    /\ out' = SizeBytes(m, k) \o Contents(m) /\ begun' = FALSE
    /\ UNCHANGED <<reader, closed, wire, pc, locals, delivered, outcome>>

(* Write: the bytes reach the reader one after the other. *)
Write ==
    /\ closed = "no" /\ out # <<>>
    /\ wire' = Append(wire, Head(out)) /\ out' = Tail(out) /\ begun' = TRUE
    /\ UNCHANGED <<reader, sent, closed, pc, locals, delivered, outcome>>

(* The stream ends between messages, or Write fails inside one. *)
Close ==
    /\ closed = "no"
    /\ closed' = IF out = <<>> THEN "closed" ELSE "failed"
    /\ UNCHANGED <<reader, sent, out, begun, wire, pc, locals, delivered, outcome>>

-----------------------------------------------------------------------------
(* UnmarshalFrom. The application calls it again after a parse error and    *)
(* stops after any other.                                                   *)

Reading(l) == pc = l /\ UNCHANGED <<reader, writer>>
Fail(err) == outcome' = err /\ pc' = "idle" /\ UNCHANGED <<wire, locals, delivered>>

UnmarshalFrom ==
    /\ Reading("idle") /\ outcome = "none"
    /\ pc' = "size" /\ sizeBuf' = <<>>
    /\ UNCHANGED <<wire, size, body, peeked, delivered, outcome>>

(* The loop that reads the size. *)
ReadByte ==
    /\ Reading("size") /\ wire # <<>>
    /\ sizeBuf' = Append(sizeBuf, Head(wire)) /\ wire' = Tail(wire)
    /\ pc' = IF Head(wire) < Cont \/ Len(sizeBuf') = MaxVarintLen THEN "body" ELSE "size"
    /\ UNCHANGED <<size, body, peeked, delivered, outcome>>

(* Mutant: the end of the stream inside the size is io.EOF as well. *)
ReadByteEOFAlways ==
    /\ Reading("size") /\ wire = <<>> /\ closed # "no"
    /\ Fail("EOF")

(* Mutant: inside the size, the loop reads on at the end of the stream. *)
ReadByteEOFFirst ==
    /\ Reading("size") /\ wire = <<>> /\ closed # "no" /\ sizeBuf = <<>>
    /\ Fail("EOF")

(* io.EOF is returned only if nothing was read; a size that is cut off is   *)
(* left to ConsumeVarint.                                                   *)
ReadByteEOF ==
    /\ Reading("size") /\ wire = <<>> /\ closed # "no"
    /\ \/ sizeBuf = <<>> /\ Fail("EOF")
       \/ /\ sizeBuf # <<>> /\ pc' = "body"
          /\ UNCHANGED <<wire, locals, delivered, outcome>>

n == ConsumeVarint(sizeBuf)
TooLarge == Limit # -1 /\ n.v > Limit

(* The size is decoded and compared with MaxSize. *)
BadSize ==
    /\ Reading("body")
    /\ \/ n.err # "none" /\ Fail(IF n.err = "truncated" THEN "ErrUnexpectedEOF" ELSE n.err)
       \/ n.err = "none" /\ TooLarge /\ Fail("SizeTooLarge")

GoodSize == Reading("body") /\ n.err = "none" /\ ~TooLarge /\ size' = n.v

(* bufio: Peek waits for the contents, and gives them without consuming     *)
(* them if they fit the buffer and the stream is long enough.               *)
Peek ==
    /\ GoodSize /\ reader = "bufio"
    /\ size' <= BufferSize /\ Len(wire) >= size'
    /\ body' = SubSeq(wire, 1, size') /\ peeked' = TRUE
    /\ pc' = "unmarshal"
    /\ UNCHANGED <<wire, sizeBuf, delivered, outcome>>

(* Peek fails when the buffer is full or the stream has ended before. *)
PeekFails ==
    /\ GoodSize /\ reader = "bufio"
    /\ \/ size' > BufferSize /\ Len(wire) >= BufferSize
       \/ Len(wire) < size' /\ closed # "no"
    /\ body' = <<>> /\ peeked' = FALSE
    /\ pc' = "full"
    /\ UNCHANGED <<wire, sizeBuf, delivered, outcome>>

NoPeek ==
    /\ GoodSize /\ reader = "plain"
    /\ body' = <<>> /\ peeked' = FALSE /\ pc' = "full"
    /\ UNCHANGED <<wire, sizeBuf, delivered, outcome>>

(* io.ReadFull takes what there is until it has size bytes. *)
ReadFull ==
    /\ Reading("full")
    /\ \/ /\ Len(body) = size /\ pc' = "unmarshal"
          /\ UNCHANGED <<wire, locals, delivered, outcome>>
       \/ /\ Len(body) < size /\ wire # <<>>
          /\ body' = Append(body, Head(wire)) /\ wire' = Tail(wire)
          /\ UNCHANGED <<pc, sizeBuf, size, peeked, delivered, outcome>>
       \/ /\ Len(body) < size /\ wire = <<>> /\ closed # "no"
          /\ Fail("ErrUnexpectedEOF")

Parses(contents) == \A i \in DOMAIN contents : contents[i] # BadFill

(* Mutant: what was peeked at is discarded only if it could be parsed. *)
DiscardParsed ==
    IF peeked /\ Parses(body)
    THEN SubSeq(wire, size + 1, Len(wire)) ELSE wire

(* The deferred Discard of what was peeked at. *)
Discard == IF peeked THEN SubSeq(wire, size + 1, Len(wire)) ELSE wire

(* proto.Unmarshal takes or refuses the contents, and the call returns. *)
Unmarshal ==
    /\ Reading("unmarshal")
    /\ wire' = Discard
    /\ delivered' = Append(delivered, [contents |-> body, err |-> ~Parses(body)])
    /\ pc' = "idle" /\ sizeBuf' = <<>> /\ size' = 0 /\ body' = <<>> /\ peeked' = FALSE
    /\ UNCHANGED outcome

ReaderStep == UnmarshalFrom \/ ReadByte \/ ReadByteEOF \/ BadSize \/ Peek \/ PeekFails \/ NoPeek
              \/ ReadFull \/ Unmarshal

Next ==
    \/ \E m \in Message, k \in 1..MaxVarintLen : k >= VarintLen(m.size) /\ MarshalTo(m, k)
    \/ Write \/ Close
    \/ ReaderStep

(* The reader's loop keeps calling, and a writer that began a message goes  *)
(* on with it.                                                              *)
Spec == Init /\ [][Next]_vars /\ WF_vars(ReaderStep) /\ WF_vars(Write)

-----------------------------------------------------------------------------
(* Properties. *)

(* One type invariant: the reader never holds more than a size's bytes and  *)
(* the bytes of one message.                                                *)
TypeOK ==
    /\ sent \in Seq(Message) /\ out \in Seq(Byte) /\ begun \in BOOLEAN /\ wire \in Seq(Byte)
    /\ closed \in {"no", "closed", "failed"}
    /\ pc \in {"idle", "size", "body", "full", "unmarshal"}
    /\ sizeBuf \in Seq(Byte) /\ Len(sizeBuf) <= MaxVarintLen
    /\ size \in Nat /\ body \in Seq(Byte) /\ Len(body) <= size /\ peeked \in BOOLEAN
    /\ delivered \in Seq([contents : Seq(Byte), err : BOOLEAN])
    /\ outcome \in {"none", "EOF", "ErrUnexpectedEOF", "SizeTooLarge", "overflow"}

(* The messages delivered, parse errors included, are the first messages    *)
(* written, with their contents: whatever the reader, the arrival of the    *)
(* bytes, the encoding of the sizes and what Unmarshal made of earlier      *)
(* messages, no call starts anywhere but at the start of a message.         *)
InOrder ==
    /\ Len(delivered) <= Len(sent)
    /\ \A i \in DOMAIN delivered : delivered[i].contents = Contents(sent[i])

(* io.EOF tells that the stream ended after a whole message and that all    *)
(* were delivered; io.ErrUnexpectedEOF that the writer failed inside one.   *)
EndIsTold ==
    /\ outcome = "EOF" => Len(delivered) = Len(sent) - (IF out = <<>> THEN 0 ELSE 1)
                          /\ (out # <<>> => ~begun)
    /\ outcome = "ErrUnexpectedEOF" => closed = "failed" /\ begun
                                       /\ Len(delivered) = Len(sent) - 1

(* A message is refused for its size only if it is larger than MaxSize, and *)
(* none that is larger is delivered; a size in any encoding is understood.  *)
SizesAreJudged ==
    /\ Limit # -1 => \A i \in DOMAIN delivered : Len(delivered[i].contents) <= Limit
    /\ outcome = "SizeTooLarge" => sent[Len(delivered) + 1].size > Limit
    /\ outcome # "overflow"

(* When the writer has closed the stream or failed, wherever that is in a   *)
(* size or a message, the reader comes to an end instead of waiting for     *)
(* more (protodelim.go:96-131).                                             *)
ReaderEnds == closed # "no" ~> outcome # "none"
=============================================================================
