------------------------------ MODULE Validate ------------------------------
(***************************************************************************)
(* MessageInfo.validate: the pass over wire-format bytes that decides,     *)
(* without decoding, whether unmarshaling them will succeed and whether    *)
(* the result has its required fields.  Lazy fields and lazy extensions    *)
(* are kept undecoded on its word, and the error of the later decoding is  *)
(* dropped.  It is a loop with a stack of its own; unmarshalPointerEager,  *)
(* which it must agree with, is recursive.                                 *)
(*                                                                         *)
(* The buffer is a sequence of records, each one unit long: a tag with a   *)
(* scalar or text value, a tag whose length-delimited contents are the     *)
(* size records that follow, a start or an end group tag.  The contents    *)
(* are revealed as they are read; total is the length of the buffer.       *)
(***************************************************************************)
EXTENDS Integers, Sequences, FiniteSets

CONSTANTS
    Tokens,          \* the records that occur: [num, wtyp, size, utf8]
    Opaque,          \* those of them that make up values nobody parses
    Schema,          \* Schema[mt][num]: the field num of message type mt
    NeedsCheck,      \* the message types that needsInitCheck answers true for
    Nil,             \* no message info
    Top,             \* the message type that is validated
    Group,           \* a field number, for groupTag
    MaskBits,        \* the width of requiredMask (64)
    RecursionLimit,  \* opts.depth: how deep messages may nest
    DefaultRecursionLimit,  \* of the groups that protowire skips
    MaxTokens        \* bound on the length of the buffer

WireTypes  == {"varint", "bytes", "start", "end", "reserved"}
FieldTypes == {"other", "varint", "text", "message", "group", "map"}

Token     == [num : Nat \ {0}, wtyp : WireTypes, size : Nat, utf8 : BOOLEAN]
FieldInfo == [typ : FieldTypes, mi : DOMAIN Schema \cup {Nil}, required : BOOLEAN,
              later : BOOLEAN,     \* a member of a oneof, and not the first
              resolves : BOOLEAN]

Optional(typ, mi) ==
    [typ |-> typ, mi |-> mi, required |-> FALSE, later |-> FALSE, resolves |-> TRUE]
NoField == Optional("other", Nil)

ASSUME ValidateAssumption ==
    /\ Tokens \subseteq Token /\ Opaque \subseteq Tokens
    /\ Group \in Nat \ {0} /\ MaskBits \in Nat \ {0} /\ RecursionLimit \in Nat \ {0}
    /\ DefaultRecursionLimit \in Nat \ {0} /\ MaxTokens \in Nat
    /\ Top \in DOMAIN Schema /\ Nil \notin DOMAIN Schema

(* mt, the types of its fields, and those below them. *)
Within(mt) ==
    {n \in DOMAIN Schema : \A S \in SUBSET DOMAIN Schema :
        mt \in S /\ (\A m \in S : {Schema[m][num].mi : num \in DOMAIN Schema[m]} \ {Nil} \subseteq S)
        => n \in S}

(* The answers are given once for the life of the process: true for a type  *)
(* with required fields or extensions; false in spite of a field whose type *)
(* got true only if that type was being explored, around a cycle.           *)
ASSUME NeedsCheckAssumption ==
    /\ NeedsCheck \subseteq DOMAIN Schema
    /\ \A mt \in DOMAIN Schema \ NeedsCheck : \A num \in DOMAIN Schema[mt] :
           /\ ~Schema[mt][num].required /\ Schema[mt][num].resolves
           /\ Schema[mt][num].mi \in NeedsCheck => mt \in Within(Schema[mt][num].mi)

(* The message types: a map has message values, and only messages, groups   *)
(* and maps have a message type; a number that the resolver fails on has no *)
(* field.                                                                   *)
ASSUME SchemaAssumption ==
    \A mt \in DOMAIN Schema :
        /\ DOMAIN Schema[mt] \subseteq Nat \ {0} /\ IsFiniteSet(DOMAIN Schema[mt])
        /\ \A num \in DOMAIN Schema[mt] :
               /\ Schema[mt][num] \in FieldInfo
               /\ Schema[mt][num].typ = "map" => Schema[mt][num].mi # Nil
               /\ Schema[mt][num].mi # Nil => Schema[mt][num].typ \in {"message", "group", "map"}
               /\ Schema[mt][num].later => ~Schema[mt][num].required
               /\ ~Schema[mt][num].resolves => Schema[mt][num].typ = "other"

VARIABLES
    groupTag,     \* the argument: 0, or the group whose contents are validated
    total,        \* length of the buffer, in records
    input,        \* the records read so far
    b,            \* how many records are left in the current slice
    states,       \* the stack of validationStates
    skip,         \* groups open in ConsumeFieldValue, innermost last
    initialized,
    result,       \* "run", then the status that validate returns
    deepest,      \* history: the deepest nesting of messages met
    unreported    \* history: a value was met of which unmarshaling would not
                  \* report that required fields are missing

vars == <<groupTag, total, input, b, states, skip, initialized, result, deepest, unreported>>

-----------------------------------------------------------------------------
(* Message types. *)

FieldOf(mt, num) == IF num \in DOMAIN Schema[mt] THEN Schema[mt][num] ELSE NoField

(* The fields of a map entry: a text key and a message value. *)
EntryField(mi, num) ==
    CASE num = 1 -> Optional("text", Nil)
      [] num = 2 -> Optional("message", mi)
      [] OTHER   -> NoField

(* The wire type a field is decoded from. *)
Expects(typ) == CASE typ = "varint" -> {"varint"}
                  [] typ \in {"text", "message", "map"} -> {"bytes"}
                  [] typ = "group" -> {"start"}
                  [] OTHER -> {}

Required(mt) == {num \in DOMAIN Schema[mt] : Schema[mt][num].required}

numRequiredFields(mt) == Cardinality(Required(mt))

(* newFieldValidationInfo gives the nth required field the nth bit of the   *)
(* mask; past the mask's width the shift leaves no bit.                     *)
requiredBit(mt, num) ==
    LET n == Cardinality({m \in Required(mt) : m < num})
    IN  IF num \in Required(mt) /\ n < MaskBits THEN {n} ELSE {}

(* bits.OnesCount64(requiredMask) tells whether every required field was    *)
(* seen; a type with more required fields than bits never passes.           *)
AllSeen(mask, n) == n > 0 => Cardinality(mask) = n

(* Whether the coder of a field has an isInit: a map of messages always, a  *)
(* message or group of a MessageInfo if needsInitCheck is true for it, and  *)
(* of the members of a oneof only the first.                                *)
HasInit(f) ==
    \/ f.typ = "map"
    \/ f.typ \in {"message", "group"} /\ ~f.later /\ f.mi \in NeedsCheck \cup {Nil}

(* The types of which a value can lack required fields: those in every set  *)
(* that has the types with required fields and the types with a field of a  *)
(* type of the set.                                                         *)
CanLack ==
    {mt \in DOMAIN Schema : \A S \in SUBSET DOMAIN Schema :
        (\A m \in DOMAIN Schema :
            Required(m) # {} \/ (\E num \in DOMAIN Schema[m] : Schema[m][num].mi \in S) => m \in S)
        => mt \in S}

-----------------------------------------------------------------------------
(* The loop of validate. *)

(* slice and level are history: the records before the contents of the      *)
(* state and before the end of its slice, and how deep unmarshaling nests.  *)
State(typ, mi, endGroup, tail, slice, level) ==
    [typ |-> typ, mi |-> mi, endGroup |-> endGroup, tail |-> tail, requiredMask |-> {},
     slice |-> slice, level |-> level]

Init ==
    /\ groupTag \in {0, Group} /\ total \in 0..MaxTokens
    /\ input = <<>> /\ b = total /\ skip = <<>>
    /\ states = << State(IF groupTag = 0 THEN "message" ELSE "group", Top, groupTag, 0,
                         <<0, total>>, 1) >>
    /\ initialized = TRUE /\ result = "run" /\ deepest = 1 /\ unreported = FALSE

st == states[Len(states)]

(* The field that a tag names in a state, and in the current one. *)
FieldIn(state, num) ==
    IF state.typ = "map" THEN EntryField(state.mi, num) ELSE FieldOf(state.mi, num)

vi(num) == FieldIn(st, num)

(* Mutant: the wire type of a required field is not looked at. *)
BitOfAnyType(tok) ==
    IF st.typ = "map" THEN {0 : i \in {2} \cap {tok.num}} ELSE requiredBit(st.mi, tok.num)

(* The bits that a record adds to the mask of required fields. *)
Bit(tok) == IF tok.wtyp \notin Expects(vi(tok.num).typ) THEN {}
            ELSE IF st.typ = "map" THEN {0 : i \in {2} \cap {tok.num}}
            ELSE requiredBit(st.mi, tok.num)

Marked(tok) == [states EXCEPT ![Len(states)].requiredMask = @ \cup Bit(tok)]

(* What the contents of a value that is passed over can be. *)
Contents(size) == [1..size -> Opaque]

(* A tag is read, with the contents that are passed over unread. *)
Read(tok, contents) ==
    /\ result = "run" /\ b > Len(contents)
    /\ input' = Append(input, tok) \o contents
    /\ UNCHANGED <<groupTag, total>>

Field(tok, contents) == Read(tok, contents) /\ skip = <<>> /\ tok.wtyp # "end"

Return(status) == result' = status /\ UNCHANGED <<b, states, skip, initialized, deepest, unreported>>

(* What unmarshaling does not report of the value after tok: a map entry's  *)
(* value before this one; what a message can lack whose field has no isInit *)
(* because it is in a oneof or a cycle misled needsInitCheck.               *)
Unreported(tok) ==
    IF st.typ = "map" THEN st.requiredMask # {}
    ELSE ~HasInit(vi(tok.num)) /\ vi(tok.num).mi \in CanLack

(* The field that tok begins is validated next, in the size records that    *)
(* follow; a map entry is no message of its own.                            *)
Push(tok, endGroup, tail, size) ==
    LET level == IF vi(tok.num).typ = "map" THEN st.level ELSE st.level + 1
    IN  /\ states' = Append(Marked(tok),
                            State(vi(tok.num).typ, vi(tok.num).mi, endGroup, tail,
                                  <<Len(input) + 1, Len(input) + 1 + size>>, level))
        /\ b' = size
        /\ deepest' = IF level > deepest THEN level ELSE deepest
        /\ unreported' = (unreported \/ Unreported(tok))
        /\ UNCHANGED <<skip, initialized, result>>

(* The required fields that the top of the stack must have seen: of a map   *)
(* entry its value, if the value's type has required fields itself.         *)
NumRequired == IF st.typ # "map" THEN numRequiredFields(st.mi)
               ELSE IF numRequiredFields(st.mi) > 0 THEN 1 ELSE 0

PopState(rest) ==
    /\ states' = SubSeq(states, 1, Len(states) - 1) /\ b' = rest
    /\ initialized' = (initialized /\ AllSeen(st.requiredMask, NumRequired))
    /\ result' = IF Len(states) = 1 THEN "valid" ELSE "run"
    /\ UNCHANGED <<skip, deepest, unreported>>

(* An end group tag closes the group on top of the stack, and no other. *)
EndGroup(tok) ==
    /\ Read(tok, <<>>) /\ skip = <<>> /\ tok.wtyp = "end"
    /\ \/ st.endGroup = tok.num /\ PopState(b - 1)
       \/ st.endGroup # tok.num /\ Return("invalid")

(* Mutant: the end of the slice closes a group too. *)
EndOfSliceAnyway ==
    /\ result = "run" /\ b = 0 /\ UNCHANGED <<groupTag, total, input>>
    /\ \/ skip = <<>> /\ PopState(st.tail)
       \/ skip # <<>> /\ Return("invalid")

(* The end of the slice: the enclosing one continues after it. *)
EndOfSlice ==
    /\ result = "run" /\ b = 0 /\ UNCHANGED <<groupTag, total, input>>
    /\ \/ skip = <<>> /\ st.endGroup = 0 /\ PopState(st.tail)
       \/ (skip # <<>> \/ st.endGroup # 0) /\ Return("invalid")

(* An extension that the resolver fails on; a message whose type is not a   *)
(* MessageInfo.                                                             *)
Undecided(tok) ==
    /\ Field(tok, <<>>)
    /\ \/ ~vi(tok.num).resolves
       \/ /\ vi(tok.num).typ \in {"message", "group"} /\ vi(tok.num).mi = Nil
          /\ tok.wtyp \in Expects(vi(tok.num).typ) /\ tok.size < b
    /\ Return("unknown")

(* A length that passes the end of the slice, text that is not UTF-8, a     *)
(* wire type that does not exist.                                           *)
Malformed(tok) ==
    /\ Field(tok, <<>>) /\ vi(tok.num).resolves
    /\ \/ tok.wtyp = "bytes" /\ tok.size >= b
       \/ tok.wtyp = "bytes" /\ vi(tok.num).typ = "text" /\ ~tok.utf8
       \/ tok.wtyp = "reserved"
    /\ Return("invalid")

(* Mutant: what follows the submessage is counted from its tag. *)
EnterTag(tok) ==
    /\ Field(tok, <<>>) /\ tok.wtyp = "bytes" /\ tok.size < b
    /\ vi(tok.num).typ \in {"message", "map"} /\ vi(tok.num).mi # Nil
    /\ Push(tok, 0, b - tok.size, tok.size)

(* The contents of a submessage or of a map entry are validated next. *)
Enter(tok) ==
    /\ Field(tok, <<>>) /\ tok.wtyp = "bytes" /\ tok.size < b
    /\ vi(tok.num).typ \in {"message", "map"} /\ vi(tok.num).mi # Nil
    /\ Push(tok, 0, b - 1 - tok.size, tok.size)

(* A group's contents follow in the same slice, up to its end tag. *)
EnterGroup(tok) ==
    /\ Field(tok, <<>>) /\ tok.wtyp = "start"
    /\ vi(tok.num).typ = "group" /\ vi(tok.num).mi # Nil
    /\ Push(tok, tok.num, 0, b - 1)

(* A group that is skipped; start, the records before its contents, is      *)
(* history.                                                                 *)
Open(tok) == [num |-> tok.num, start |-> Len(input) + 1]

(* Any other value is passed over; a group of its own starts a skip. *)
PassOver(tok, contents) ==
    /\ Field(tok, contents) /\ vi(tok.num).resolves
    /\ \/ tok.wtyp = "varint"
       \/ tok.wtyp = "start" /\ vi(tok.num).typ # "group"
       \/ tok.wtyp = "bytes" /\ vi(tok.num).typ \notin {"message", "map"}
          /\ (vi(tok.num).typ = "text" => tok.utf8)
    /\ Len(contents) = (IF tok.wtyp = "bytes" THEN tok.size ELSE 0)
    /\ states' = Marked(tok) /\ b' = b - 1 - Len(contents)
    /\ skip' = IF tok.wtyp = "start" THEN << Open(tok) >> ELSE <<>>
    /\ UNCHANGED <<initialized, result, deepest, unreported>>

(* ConsumeFieldValue inside a group that is not a field of the message. *)
SkipField(tok, contents) ==
    /\ Read(tok, contents) /\ skip # <<>>
    /\ \/ /\ \/ tok.wtyp = "varint" /\ contents = <<>> /\ UNCHANGED skip
             \/ tok.wtyp = "bytes" /\ Len(contents) = tok.size /\ UNCHANGED skip
             \/ /\ tok.wtyp = "start" /\ contents = <<>> /\ Len(skip) <= DefaultRecursionLimit
                /\ skip' = Append(skip, Open(tok))
             \/ /\ tok.wtyp = "end" /\ contents = <<>> /\ tok.num = skip[Len(skip)].num
                /\ skip' = SubSeq(skip, 1, Len(skip) - 1)
          /\ b' = b - 1 - Len(contents)
          /\ UNCHANGED <<states, initialized, result, deepest, unreported>>
       \/ /\ contents = <<>>
          /\ \/ tok.wtyp = "bytes" /\ tok.size >= b
             \/ tok.wtyp = "start" /\ Len(skip) > DefaultRecursionLimit
             \/ tok.wtyp = "end" /\ tok.num # skip[Len(skip)].num
             \/ tok.wtyp = "reserved"
          /\ Return("invalid")

Next ==
    \/ EndOfSlice
    \/ \E tok \in Tokens :
         \/ EndGroup(tok) \/ Undecided(tok) \/ Malformed(tok) \/ Enter(tok) \/ EnterGroup(tok)
         \/ \E c \in Contents(tok.size) \cup {<<>>} : PassOver(tok, c) \/ SkipField(tok, c)

Spec == Init /\ [][Next]_vars

-----------------------------------------------------------------------------
(* unmarshalPointerEager on the same buffer.  A slice of the buffer is given *)
(* by the number of records before it, at, and before its end, end.  The     *)
(* results are an error, or the records before the rest of the slice and     *)
(* whether the message is reported as initialized; they are the variables of *)
(* a loop as well, whose err is "run".                                       *)

Outcome(buf) == [err : {"run", "none", "decode", "depth", "errUnknown"}, n : 0..Len(buf),
                 initialized : BOOLEAN, mask : SUBSET (0..MaskBits - 1)]

Fails(err) == [err |-> err, n |-> 0, initialized |-> FALSE, mask |-> {}]
Done(n, ok) == [err |-> "none", n |-> n, initialized |-> ok, mask |-> {}]
Begun(at, ok) == [err |-> "run", n |-> at, initialized |-> ok, mask |-> {}]

(* The variables of a loop after each of its iterations, and in the end:    *)
(* every iteration but the last consumes a record of buf.                   *)
Iterations(body, first) ==
    LET loop[i \in Nat] == IF i = 0 THEN first ELSE body[loop[i - 1]] IN loop

Loop(buf, body, first) == Iterations(body, first)[Len(buf) + 1]

(* protowire.ConsumeFieldValue: where the value after the tag tok ends, or  *)
(* -1; group tells what consuming the contents of a group gives.            *)
ConsumeFieldValue(tok, at, end, group) ==
    CASE tok.wtyp = "varint" -> at
      [] tok.wtyp = "bytes"  -> IF at + tok.size > end THEN -1 ELSE at + tok.size
      [] tok.wtyp = "start"  -> IF group[tok.num][end][at].err # "none" THEN -1
                                ELSE group[tok.num][end][at].n
      [] OTHER               -> -1

GroupBody(buf, num, end, group) ==
    [s \in Outcome(buf) |->
        LET tok == buf[s.n + 1]
            m == ConsumeFieldValue(tok, s.n + 1, end, group)
        IN  IF s.err # "run" THEN s
            ELSE IF s.n >= end THEN Fails("decode")
            ELSE IF tok.wtyp = "end"
                 THEN IF tok.num = num THEN Done(s.n + 1, TRUE) ELSE Fails("decode")
            ELSE IF m < 0 THEN Fails("decode") ELSE Begun(m, TRUE)]

(* consumeFieldValueD of a group, by how many groups may be open. *)
ConsumeGroup(buf) ==
    LET group[open \in Nat] ==
            [num \in Nat |-> [end \in 0..Len(buf) |-> [at \in 0..Len(buf) |->
                IF open = 0 THEN Fails("decode")
                ELSE Loop(buf, GroupBody(buf, num, end, group[open - 1]), Begun(at, TRUE))]]]
    IN  group

(* depth falls from DefaultRecursionLimit to 0. *)
FieldEnd(buf, tok, at, end) ==
    ConsumeFieldValue(tok, at, end, ConsumeGroup(buf)[DefaultRecursionLimit + 1])

(* The unmarshal function of a field, on the value after the tag tok: what  *)
(* unmarshaling a map entry or a message in it gives is entry[mi][end][at]  *)
(* and sub[mi][tag][end][at].                                               *)
Value(buf, f, tok, at, end, entry, sub) ==
    LET stop == at + tok.size
        whole(r) == IF r.err = "none" THEN Done(stop, r.initialized) ELSE r
    IN  IF ~f.resolves THEN Fails("decode")
        ELSE IF tok.wtyp \notin Expects(f.typ) THEN Fails("errUnknown")
        ELSE IF tok.wtyp = "bytes" /\ stop > end THEN Fails("decode")
        ELSE IF f.typ = "varint" THEN Done(at, TRUE)
        ELSE IF f.typ = "text" THEN IF tok.utf8 THEN Done(stop, TRUE) ELSE Fails("decode")
        ELSE IF f.mi = Nil THEN IF FieldEnd(buf, tok, at, end) < 0 THEN Fails("decode")
                                ELSE Done(FieldEnd(buf, tok, at, end), TRUE)
        ELSE IF f.typ = "group" THEN sub[f.mi][tok.num][end][at]
        ELSE IF f.typ = "map" THEN whole(entry[f.mi][stop][at])
        ELSE whole(sub[f.mi][0][stop][at])

(* The loop of consumeMapOfMessage: an item is considered initialized as    *)
(* soon as one of its values is.                                            *)
EntryBody(buf, mi, end, sub) ==
    [s \in Outcome(buf) |->
        LET tok == buf[s.n + 1]
            v == Value(buf, EntryField(mi, tok.num), tok, s.n + 1, end, <<>>, sub)
            m == FieldEnd(buf, tok, s.n + 1, end)
        IN  IF s.err # "run" THEN s
            ELSE IF s.n >= end THEN Done(s.n, s.initialized)
            ELSE IF v.err = "none"
                 THEN Begun(v.n, s.initialized \/ (tok.num = 2 /\ v.initialized))
            ELSE IF v.err # "errUnknown" THEN v
            ELSE IF m < 0 THEN Fails("decode") ELSE [s EXCEPT !.n = m]]

(* Mutant: an item without a value is considered initialized. *)
EntryOfDefault(buf, sub) ==
    [mi \in DOMAIN Schema |-> [end \in 0..Len(buf) |-> [at \in 0..Len(buf) |->
        Loop(buf, EntryBody(buf, mi, end, sub), Begun(at, TRUE))]]]

Entry(buf, sub) ==
    [mi \in DOMAIN Schema |-> [end \in 0..Len(buf) |-> [at \in 0..Len(buf) |->
        Loop(buf, EntryBody(buf, mi, end, sub), Begun(at, FALSE))]]]

(* The loop of unmarshalPointerEager. *)
MessageBody(buf, mt, tag, end, sub) ==
    [s \in Outcome(buf) |->
        LET tok == buf[s.n + 1]
            f == FieldOf(mt, tok.num)
            v == Value(buf, f, tok, s.n + 1, end, Entry(buf, sub), sub)
            m == FieldEnd(buf, tok, s.n + 1, end)
            ok == s.initialized /\ AllSeen(s.mask, numRequiredFields(mt))
        IN  IF s.err # "run" THEN s
            ELSE IF s.n >= end THEN IF tag = 0 THEN Done(s.n, ok) ELSE Fails("decode")
            ELSE IF tok.wtyp = "end"
                 THEN IF tok.num = tag THEN Done(s.n + 1, ok) ELSE Fails("decode")
            ELSE IF v.err = "none"
                 THEN [err |-> "run", n |-> v.n,
                       initialized |-> s.initialized /\ (v.initialized \/ ~HasInit(f)),
                       mask |-> s.mask \cup requiredBit(mt, tok.num)]
            ELSE IF v.err # "errUnknown" THEN v
            ELSE IF m < 0 THEN Fails("decode") ELSE [s EXCEPT !.n = m]]

(* unmarshalPointer, by opts.depth: the message mt in the slice from at to  *)
(* end, or the group tag whose contents begin at at.                        *)
Unmarshal(buf) ==
    LET unmarshal[depth \in Nat] ==
            [mt \in DOMAIN Schema |-> [tag \in Nat |-> [end \in 0..Len(buf) |-> [at \in 0..Len(buf) |->
                IF depth = 0 THEN Fails("depth")
                ELSE Loop(buf, MessageBody(buf, mt, tag, end, unmarshal[depth - 1]), Begun(at, TRUE))]]]]
    IN  unmarshal

-----------------------------------------------------------------------------
(* What being initialized means: every required field has a value, in the   *)
(* message and in every submessage.  Occurrences of a field that is not a   *)
(* map are merged: a message is given by all the slices it is read from.    *)

(* From a record of a well-formed slice to the next one. *)
Jump(buf, end) ==
    [at \in 0..Len(buf) |->
        LET m == ConsumeFieldValue(buf[at + 1], at + 1, end, ConsumeGroup(buf)[Len(buf) + 1])
        IN  IF at < end /\ m > at THEN m ELSE at]

(* The records of a slice, which ends with it or with its end group tag. *)
Records(buf, slice) ==
    {at \in {Iterations(Jump(buf, slice[2]), slice[1])[i] : i \in 0..Len(buf)} : at < slice[2]}

Slices(buf) == (0..Len(buf)) \X (0..Len(buf))

(* The contents of the record at the position at. *)
Inside(buf, at, end) ==
    LET stop == at + 1 + buf[at + 1].size
    IN  <<at + 1, IF buf[at + 1].wtyp = "bytes" /\ stop <= end THEN stop ELSE end>>

(* The slices of the occurrences of a field of type typ. *)
Occurrences(buf, slices, num, typ) ==
    UNION {{Inside(buf, at, slice[2]) :
                at \in {p \in Records(buf, slice) : buf[p + 1].num = num /\ buf[p + 1].wtyp \in Expects(typ)}}
           : slice \in slices}

(* To a depth of nesting; the records of a buffer nest no deeper than its   *)
(* length.                                                                  *)
InitializedTo(buf) ==
    LET init[depth \in Nat] ==
            [mt \in DOMAIN Schema |-> [slices \in SUBSET Slices(buf) |->
                depth = 0 \/ \A num \in DOMAIN Schema[mt] :
                    LET f == Schema[mt][num]
                        of == Occurrences(buf, slices, num, f.typ)
                    IN  /\ f.required => of # {}
                        /\ f.mi # Nil /\ of # {} =>
                               IF f.typ = "map"
                               THEN \A o \in of : init[depth - 1][f.mi][Occurrences(buf, {o}, 2, "message")]
                               ELSE init[depth - 1][f.mi][of]]]
    IN  init

IsInitialized(mt, buf) == InitializedTo(buf)[Len(buf) + 1][mt][{<<0, Len(buf)>>}]

-----------------------------------------------------------------------------
(* Properties. *)

validationState == [typ : {"message", "group", "map"}, mi : DOMAIN Schema, endGroup : Nat, tail : Nat,
                    requiredMask : SUBSET (0..MaskBits - 1), slice : Nat \X Nat, level : Nat \ {0}]

TypeOK ==
    /\ groupTag \in {0, Group} /\ total \in Nat /\ b \in Nat /\ input \in Seq(Token)
    /\ states \in Seq(validationState) /\ skip \in Seq([num : Nat \ {0}, start : Nat])
    /\ initialized \in BOOLEAN
    /\ result \in {"run", "valid", "invalid", "unknown"} /\ deepest \in Nat /\ unreported \in BOOLEAN

(* The records that the slices kept on the stack are to continue with. *)
Tails(stack) ==
    LET sum[i \in 0..Len(stack)] == IF i = 0 THEN 0 ELSE sum[i - 1] + stack[i].tail IN sum[Len(stack)]

(* The slices that the loop keeps on its stack are disjoint parts of the    *)
(* buffer and with what was read make up all of it, at every level of       *)
(* messages, map entries and groups (validate.go:447-455, 538-569).         *)
SlicesAddUp ==
    result \in {"run", "valid"} => Len(input) + b + Tails(states) = total

(* The whole buffer, once the records that were read have decided. *)
Buffer == input \o [i \in 1..total - Len(input) |-> [num |-> 1, wtyp |-> "varint",
                                                     size |-> 0, utf8 |-> TRUE]]
Decoded == Unmarshal(Buffer)[RecursionLimit][Top][groupTag][total][0]

(* ValidationInvalid is returned only for bytes that unmarshaling refuses,  *)
(* and ValidationValid only for bytes that it accepts, consuming as many of *)
(* them; except that validate has no limit on the nesting of messages.      *)
AgreesWithUnmarshal ==
    /\ result = "invalid" => Decoded.err # "none"
    /\ result = "valid" => IF deepest > RecursionLimit THEN Decoded.err = "depth"
                           ELSE Decoded.err = "none" /\ Decoded.n = Len(input)

(* A field is left undecoded and unchecked when validate reports it as      *)
(* initialized: no required field of it is missing then, whatever repeated, *)
(* wrongly typed or nested records the bytes hold.                          *)
InitializedIsSound == result = "valid" /\ initialized => IsInitialized(Top, Buffer)

(* The same of the flag that unmarshalPointerEager sets, by which           *)
(* proto.Unmarshal leaves out its check of required fields, with three      *)
(* exceptions: a map entry that repeats its value; and a message that can   *)
(* lack required fields, of a type that needsInitCheck answered false for   *)
(* inside a cycle or in a member of a oneof other than the first, of which  *)
(* decode.go:190 ignores what it lacks.                                     *)
UnmarshalInitializedIsSound ==
    result = "valid" /\ ~unreported /\ Decoded.initialized => IsInitialized(Top, Buffer)
=============================================================================
