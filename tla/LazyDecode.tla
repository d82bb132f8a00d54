----------------------------- MODULE LazyDecode -----------------------------
(***************************************************************************)
(* proto.Unmarshal of one opaque message that has lazy submessage fields:  *)
(* unmarshalPointerLazy, unmarshalPointerEager for NoLazyDecoding, the     *)
(* index of the retained buffer, the getter that decodes from it, and the  *)
(* check of required fields that ends proto.Unmarshal.                     *)
(*                                                                         *)
(* The input of a call is a sequence of records revealed one at a time.    *)
(* Of a record's bytes only the field number and what decoding does with   *)
(* the value are kept (cls):                                               *)
(*   "ok"        validates and decodes                                     *)
(*   "partial"   the same, but its required field is missing               *)
(*   "unsure"    validate gives ValidationUnknown; the value decodes       *)
(*   "unsurebad" validate gives ValidationUnknown; decoding it fails       *)
(*   "invalid"   validation and decoding both fail                         *)
(*   "wrongtype" the wire type is not the field's: an unknown field        *)
(* Every record takes one unit of the buffer, and at is its serial number. *)
(*                                                                         *)
(* want, wantUnknown and failed are history variables: what decoding every *)
(* record when it is met (the meaning of Unmarshal) gives on the same      *)
(* input.  So are lost, how many records of a field an eager Unmarshal     *)
(* with Merge has covered because they were undecoded, and skipped, the    *)
(* records of the wrong wire type that a postponed field swallowed.        *)
(***************************************************************************)
EXTENDS Integers, Sequences, SequencesExt

CONSTANTS
    LazyFields,   \* numbers of the lazy message fields
    PlainFields,  \* numbers of the other message fields
    Classes,      \* the record classes that occur
    Modes,        \* unmarshal options in use: "default", "discard", "nolazy"
    MaxRecords,   \* bound on the records of all calls together
    MaxCalls      \* bound on the calls of Unmarshal

Fields == LazyFields \cup PlainFields

ASSUME FieldsAssumption ==
    /\ LazyFields \subseteq Nat \ {0} /\ PlainFields \subseteq Nat \ {0}
    /\ LazyFields \cap PlainFields = {}
    /\ MaxRecords \in Nat /\ MaxCalls \in Nat

(* The options of a call, and whether it decodes a group of an enclosing    *)
(* message: the buffer then goes on after the records of this message.      *)
Options == {o \in [mode : Modes, allowPartial : BOOLEAN, group : BOOLEAN] :
                o.group => o.mode = "default"}

AllClasses == {"ok", "partial", "unsure", "unsurebad", "invalid", "wrongtype"}
ASSUME ClassesAssumption == Classes \subseteq AllClasses

Decodes    == {"ok", "partial", "unsure"}
Unsure     == {"unsure", "unsurebad"}

VARIABLES
    present,      \* the presence bitmap, as a set of field numbers
    ptr,          \* ptr[f]: the field's pointer, Nil or the records merged into it
    unknown,      \* unknown bytes, as records
    lazy,         \* XXX_lazyUnmarshalInfo: buffer, index and unmarshalFlags
    opts,         \* the options of the current call
    lazyDecode, lazyFields, lazyIndex, lastNum, outOfOrder, initialized,
                  \* the locals of unmarshalPointerLazy
    status,       \* "scan" inside a call, else the result of the last one
    records,      \* records met so far, in all calls
    calls,        \* calls made so far
    want, wantUnknown, failed, lost, skipped

message == <<present, ptr, unknown>>
locals  == <<lazyDecode, lazyFields, lazyIndex, lastNum, outOfOrder, initialized>>
history == <<want, wantUnknown, failed, lost, skipped>>
vars == <<message, lazy, opts, locals, status, records, calls, history>>

Nil    == <<>>   \* a decoded submessage had at least one record
Empty  == [f \in Fields |-> <<>>]
NoLazy == [buffer |-> <<>>, index |-> <<>>, checked |-> FALSE]

Record == [num : Fields, cls : AllClasses, at : 1..MaxRecords]
Entry  == [num : Fields, start : 0..MaxRecords, end : 0..MaxRecords, multi : BOOLEAN]

(* One type invariant: pointers, unknown bytes and the buffer hold records, *)
(* the index holds entries inside the buffer.                               *)
TypeOK ==
    /\ present \subseteq Fields /\ ptr \in [Fields -> Seq(Record)] /\ unknown \in Seq(Record)
    /\ lazy \in [buffer : Seq(Record), index : Seq(Entry), checked : BOOLEAN]
    /\ opts \in Options
    /\ lazyDecode \in BOOLEAN /\ outOfOrder \in BOOLEAN /\ initialized \in BOOLEAN
    /\ lazyFields \in [LazyFields -> {"validate", "now", "later"}]
    /\ lazyIndex \in Seq(Entry)
    /\ \A i \in DOMAIN lazyIndex : lazyIndex[i].start < lazyIndex[i].end
                                   /\ lazyIndex[i].end <= Len(lazy.buffer)
    /\ lastNum \in Fields \cup {0}
    /\ status \in {"scan", "ok", "invalid", "required"}
    /\ records \in 0..MaxRecords /\ calls \in 0..MaxCalls
    /\ want \in [Fields -> Seq(Record)] /\ wantUnknown \in Seq(Record) /\ failed \in BOOLEAN
    /\ lost \in [Fields -> Nat] /\ skipped \subseteq Record

-----------------------------------------------------------------------------
(* The index of the retained buffer. *)

(* The index extended by the record of field num at [start, end): a new    *)
(* entry, or the last entry prolonged when the previous record had the     *)
(* same number.                                                            *)
AddEntry(index, last, num, start, end) ==
    IF num # last
    THEN Append(index, [num |-> num, start |-> start, end |-> end, multi |-> FALSE])
    ELSE [index EXCEPT ![Len(index)].end = end, ![Len(index)].multi = TRUE]

Before(e, g) == e.num < g.num \/ (e.num = g.num /\ e.start < g.start)

(* The entries in order; no two of them start at the same place. *)
SortEntries(index) ==
    CHOOSE sorted \in [DOMAIN index -> Range(index)] :
        /\ Range(sorted) = Range(index)
        /\ \A i, j \in DOMAIN index : i < j => Before(sorted[i], sorted[j])

(* The entries of field num: the scan of the index stops at the first       *)
(* number that is not below num, and takes the run of equal ones.           *)
LookupField(index, num) ==
    LET i == SelectInSeq(index, LAMBDA e : e.num >= num)
        run == {j \in i .. Len(index) : \A k \in i..j : index[k].num = num}
    IN  IF i = 0 \/ run = {} THEN <<>> ELSE SubSeq(index, i, Max(run))

(* The bytes of field num that AppendField copies and lazyUnmarshal decodes. *)
RawField(index, buf, num) ==
    FlattenSeq([i \in DOMAIN LookupField(index, num) |->
                  SubSeq(buf, LookupField(index, num)[i].start + 1,
                              LookupField(index, num)[i].end)])

(* The elements of s that are in T, in order. *)
Selected(s, T) ==
    LET sel[i \in 0 .. Len(s)] ==
            IF i = 0 THEN <<>>
            ELSE IF s[i] \in T THEN Append(sel[i - 1], s[i]) ELSE sel[i - 1]
    IN  sel[Len(s)]

(* unmarshalField: records of the right number and type are decoded in     *)
(* order, the others skipped.                                              *)
UnmarshalField(buf, num) == Selected(buf, {r \in Record : r.num = num /\ r.cls # "wrongtype"})

(* What lazyUnmarshal builds for a present field whose pointer is nil. *)
LazyUnmarshal(lz, f) == UnmarshalField(RawField(lz.index, lz.buffer, f), f)

(* What a getter of field f returns. *)
Contents(f) == IF f \in present /\ ptr[f] = Nil THEN LazyUnmarshal(lazy, f) ELSE ptr[f]

-----------------------------------------------------------------------------
(* Required fields. *)

(* A submessage has its required field once some record supplied it. *)
Complete(content) == content = <<>> \/ \E i \in DOMAIN content : content[i].cls # "partial"

(* checkInitializedPointer: an undecoded lazy field is decoded and checked  *)
(* only if the message was unmarshaled with AllowPartial (~checked).        *)
CheckInitialized(pr, p, lz) ==
    \A f \in pr :
        IF f \in LazyFields /\ p[f] = Nil
        THEN lz.checked \/ Complete(LazyUnmarshal(lz, f))
        ELSE Complete(p[f])

(* The pointers after a successful check. *)
Checked(pr, p, lz) ==
    [f \in Fields |->
        IF f \in pr \cap LazyFields /\ p[f] = Nil /\ ~lz.checked
        THEN LazyUnmarshal(lz, f)
        ELSE p[f]]

-----------------------------------------------------------------------------
(* A call of Unmarshal begins. *)

Init ==
    /\ present = {} /\ ptr = [f \in Fields |-> Nil] /\ unknown = <<>> /\ lazy = NoLazy
    /\ opts \in Options
    /\ lazyDecode = FALSE /\ lazyFields = [f \in LazyFields |-> "validate"]
    /\ lazyIndex = <<>> /\ lastNum = 0 /\ outOfOrder = FALSE /\ initialized = TRUE
    /\ status = "ok" /\ records = 0 /\ calls = 0
    /\ want = Empty /\ wantUnknown = <<>> /\ failed = FALSE
    /\ lost = [f \in Fields |-> 0] /\ skipped = {}

(* Mutant: the flags are recorded only the first time. *)
BeginOldFlags(o, pr, lz) ==
    LET lazily == o.mode = "default" /\ pr = {}
    IN  /\ lazyDecode' = lazily
        /\ lazy' = IF ~lazily THEN lz
                    ELSE IF lz = NoLazy THEN [lz EXCEPT !.checked = ~o.allowPartial]
                    ELSE [lz EXCEPT !.buffer = <<>>]
        /\ lazyFields' = [f \in LazyFields |-> "validate"]
        /\ lazyIndex' = <<>> /\ lastNum' = 0 /\ outOfOrder' = FALSE /\ initialized' = TRUE
        /\ opts' = o /\ status' = "scan" /\ calls' = calls + 1 /\ failed' = FALSE
        /\ UNCHANGED records

(* The entry of unmarshalPointer: with default options an empty message is  *)
(* decoded lazily and retains the buffer and the flags of this call.        *)
Begin(o, pr, lz) ==
    LET lazily == o.mode = "default" /\ pr = {}
    IN  /\ lazyDecode' = lazily
        /\ lazy' = IF lazily
                    THEN [lz EXCEPT !.buffer = <<>>, !.checked = ~o.allowPartial] ELSE lz
        /\ lazyFields' = [f \in LazyFields |-> "validate"]
        /\ lazyIndex' = <<>> /\ lastNum' = 0 /\ outOfOrder' = FALSE /\ initialized' = TRUE
        /\ opts' = o /\ status' = "scan" /\ calls' = calls + 1 /\ failed' = FALSE
        /\ UNCHANGED records

(* Unmarshal without Merge resets the message first. *)
UnmarshalReset(o) ==
    /\ status # "scan" /\ calls < MaxCalls
    /\ present' = {} /\ ptr' = [f \in Fields |-> Nil] /\ unknown' = <<>>
    /\ want' = Empty /\ wantUnknown' = <<>> /\ lost' = [f \in Fields |-> 0] /\ skipped' = {}
    /\ Begin(o, {}, NoLazy)

(* Unmarshal with Merge, into a message whose last Unmarshal succeeded. *)
UnmarshalMerge(o) ==
    /\ status = "ok" /\ calls < MaxCalls
    /\ UNCHANGED <<message, want, wantUnknown, lost, skipped>>
    /\ Begin(o, present, lazy)

-----------------------------------------------------------------------------
(* One record. Advance is what every record that does not end the scan does. *)

(* The end of the loop body: the buffer grows by the record met, and a lazy *)
(* field's record is entered into the index.                                *)
Advance(r) ==
    LET pos == Len(lazy.buffer)
    IN  /\ lazy' = IF lazyDecode THEN [lazy EXCEPT !.buffer = Append(@, r)] ELSE lazy
        /\ lazyIndex' = IF lazyDecode /\ r.num \in LazyFields
                         THEN AddEntry(lazyIndex, lastNum, r.num, pos, pos + 1)
                         ELSE lazyIndex
        /\ outOfOrder' = (outOfOrder \/ r.num < lastNum)
        /\ lastNum' = r.num

Validating(r) == r.num \in LazyFields /\ lazyDecode /\ lazyFields[r.num] = "validate"
Deferred(r)   == r.num \in LazyFields /\ lazyDecode /\ lazyFields[r.num] = "later"

(* The reference: each record decoded when it is met. *)
Reference(r) ==
    /\ failed' = (failed \/ r.cls \in {"invalid", "unsurebad"})
    /\ want' = IF failed \/ r.cls \notin Decodes THEN want
                ELSE [want EXCEPT ![r.num] = Append(@, r)]
    /\ wantUnknown' = IF failed \/ r.cls # "wrongtype" \/ opts.mode = "discard"
                       THEN wantUnknown ELSE Append(wantUnknown, r)
    /\ lost' = IF r.cls \in Decodes /\ opts.mode = "nolazy"
                   /\ r.num \in LazyFields \cap present /\ ptr[r.num] = Nil
                THEN [lost EXCEPT ![r.num] = Len(want[r.num])] ELSE lost
    /\ skipped' = IF Deferred(r) /\ r.cls = "wrongtype" THEN skipped \cup {r} ELSE skipped

(* Mutant: validation's verdict on required fields is not looked at. *)
SkipValidTrusting(r) ==
    /\ Validating(r) /\ r.cls \in {"ok", "partial"}
    /\ present' = present \cup {r.num}
    /\ Advance(r)
    /\ UNCHANGED <<ptr, unknown, lazyFields, status, initialized>>

(* ValidationValid: the field is left for later and marked present. *)
SkipValid(r) ==
    /\ Validating(r) /\ r.cls \in {"ok", "partial"}
    /\ present' = present \cup {r.num}
    /\ initialized' = (initialized /\ r.cls = "ok")
    /\ Advance(r)
    /\ UNCHANGED <<ptr, unknown, lazyFields, status>>

(* Mutant: the presence bit is left as it is. *)
PostponePresent(r) ==
    /\ Validating(r) /\ r.cls \in Unsure /\ r.num \in present
    /\ lazyFields' = [lazyFields EXCEPT ![r.num] = "later"]
    /\ Advance(r)
    /\ UNCHANGED <<message, status, initialized>>

(* ValidationUnknown after records of the field were already skipped: the   *)
(* presence bit is cleared and the field decoded at the end.                *)
Postpone(r) ==
    /\ Validating(r) /\ r.cls \in Unsure /\ r.num \in present
    /\ present' = present \ {r.num}
    /\ lazyFields' = [lazyFields EXCEPT ![r.num] = "later"]
    /\ Advance(r)
    /\ UNCHANGED <<ptr, unknown, status, initialized>>

(* Mutant: the skipped record is kept as an unknown field too. *)
SkipDeferredKeeping(r) ==
    /\ Deferred(r)
    /\ unknown' = Append(unknown, r)
    /\ Advance(r)
    /\ UNCHANGED <<present, ptr, lazyFields, status, initialized>>

(* A further record of a field that is decoded at the end. *)
SkipDeferred(r) ==
    /\ Deferred(r)
    /\ Advance(r)
    /\ UNCHANGED <<message, lazyFields, status, initialized>>

(* Decoded at once: fields that are not lazy, calls that do not decode      *)
(* lazily, and lazy fields whose first record validation cannot judge.      *)
AtOnce(r) == IF Validating(r) THEN r.cls \in Unsure /\ r.num \notin present ELSE ~Deferred(r)

(* Mutant: a lazy field is not decoded before it is merged into. *)
ExistingPointer(f) == ptr[f]

(* What the record is merged into. unmarshalPointerLazy first decodes a     *)
(* present lazy field; unmarshalPointerEager takes the pointer as it is.    *)
Existing(f) ==
    IF /\ f \in LazyFields \cap present /\ ptr[f] = Nil
       /\ ~lazyDecode /\ opts.mode # "nolazy"
    THEN LazyUnmarshal(lazy, f) ELSE ptr[f]

DecodeNow(r) ==
    /\ AtOnce(r) /\ r.cls \in Decodes
    /\ ptr' = [ptr EXCEPT ![r.num] = Append(Existing(r.num), r)]
    /\ present' = present \cup {r.num}
    /\ initialized' = (initialized /\ r.cls # "partial")
    /\ lazyFields' = IF Validating(r) THEN [lazyFields EXCEPT ![r.num] = "now"] ELSE lazyFields
    /\ Advance(r)
    /\ UNCHANGED <<unknown, status>>

(* errUnknown: the record goes to the unknown fields, unless discarded. *)
KeepUnknown(r) ==
    /\ ~Deferred(r) /\ r.cls = "wrongtype"
    /\ ptr' = [ptr EXCEPT ![r.num] = Existing(r.num)]
    /\ unknown' = IF opts.mode = "discard" THEN unknown ELSE Append(unknown, r)
    /\ Advance(r)
    /\ UNCHANGED <<present, lazyFields, status, initialized>>

(* A parse error ends the call where it is found. *)
Reject(r) ==
    /\ \/ Validating(r) /\ r.cls = "invalid"
       \/ AtOnce(r) /\ r.cls \in {"invalid", "unsurebad"}
    /\ status' = "invalid"
    /\ UNCHANGED <<message, lazy, locals>>

Step(r) ==
    /\ status = "scan" /\ records < MaxRecords
    /\ records' = records + 1
    /\ Reference(r)
    /\ UNCHANGED <<opts, calls, lazyDecode>>
    /\ \/ SkipValid(r) \/ Postpone(r) \/ SkipDeferred(r)
       \/ DecodeNow(r) \/ KeepUnknown(r) \/ Reject(r)

-----------------------------------------------------------------------------
(* The end of the input: postponed fields are decoded from the whole        *)
(* buffer, the index is sorted and stored, required fields are checked.     *)

Later == {f \in LazyFields : lazyFields[f] = "later"}

Bad(r) == r.cls \in {"invalid", "unsurebad"}

(* Mutant: the errors of the postponed fields are dropped. *)
NeverFails(f) == FALSE

(* A postponed field is decoded from the whole retained buffer, records of  *)
(* other fields being passed over; an end group tag cannot be.              *)
DecodeFails(f) ==
    \/ opts.group
    \/ \E i \in DOMAIN lazy.buffer : lazy.buffer[i].num = f /\ Bad(lazy.buffer[i])

(* Decoding it fails right after the first n records. *)
FailsAfter(f, n) ==
    /\ \A i \in 1..n : ~(lazy.buffer[i].num = f /\ Bad(lazy.buffer[i]))
    /\ \/ n = Len(lazy.buffer) /\ opts.group
       \/ n < Len(lazy.buffer) /\ lazy.buffer[n + 1].num = f /\ Bad(lazy.buffer[n + 1])

StoredIndex == IF outOfOrder THEN SortEntries(lazyIndex) ELSE lazyIndex

(* The pointers once the postponed fields in done are decoded. *)
Decoded(done) ==
    [f \in Fields |-> IF f \in done THEN UnmarshalField(lazy.buffer, f) ELSE ptr[f]]

(* The postponed fields are decoded in no particular order, and marked      *)
(* present one by one; the error of one of them ends the call.              *)
LaterFails ==
    /\ status = "scan"
    /\ \E f \in Later, n \in 0..Len(lazy.buffer), done \in SUBSET Later :
           /\ FailsAfter(f, n) /\ \A g \in done : ~DecodeFails(g)
           /\ present' = present \cup done
           /\ ptr' = [Decoded(done) EXCEPT ![f] = UnmarshalField(SubSeq(lazy.buffer, 1, n), f)]
    /\ status' = "invalid"
    /\ UNCHANGED <<unknown, lazy, opts, locals, records, calls, history>>

EndOfInput ==
    LET pr == present \cup Later
        p  == Decoded(Later)
        lz == IF lazyDecode THEN [lazy EXCEPT !.index = StoredIndex] ELSE lazy
        sure == opts.allowPartial \/ (initialized /\ Later = {})
    IN  /\ status = "scan" /\ \A f \in Later : ~DecodeFails(f)
        /\ present' = pr
        /\ lazy' = lz
        /\ status' = IF sure \/ CheckInitialized(pr, p, lz) THEN "ok" ELSE "required"
        /\ ptr' = IF sure THEN p ELSE Checked(pr, p, lz)
        /\ UNCHANGED <<unknown, opts, locals, records, calls, history>>

-----------------------------------------------------------------------------
(* The application between calls. *)

(* A getter of an undecoded field. *)
Get(f) ==
    /\ status = "ok" /\ f \in LazyFields \cap present /\ ptr[f] = Nil
    /\ ptr' = [ptr EXCEPT ![f] = LazyUnmarshal(lazy, f)]
    /\ UNCHANGED <<present, unknown, lazy, opts, locals, status, records, calls, history>>

ClearField(f) ==
    /\ status = "ok" /\ f \in present
    /\ present' = present \ {f}
    /\ ptr' = [ptr EXCEPT ![f] = Nil]
    /\ want' = [want EXCEPT ![f] = <<>>] /\ lost' = [lost EXCEPT ![f] = 0]
    /\ UNCHANGED <<unknown, lazy, opts, locals, status, records, calls, wantUnknown, failed, skipped>>

Next ==
    \/ \E o \in Options : UnmarshalReset(o) \/ UnmarshalMerge(o)
    \/ \E f \in Fields, c \in Classes : Step([num |-> f, cls |-> c, at |-> records + 1])
    \/ LaterFails \/ EndOfInput
    \/ \E f \in Fields : Get(f) \/ ClearField(f)

Spec == Init /\ [][Next]_vars

-----------------------------------------------------------------------------
(* Properties. *)

(* After a successful Unmarshal, and any getters and clears, every field    *)
(* is present and has the contents that decoding each record when it was    *)
(* met would give: the index finds all of a field's records, in order, and  *)
(* validate-only, decode-now and decode-later agree.  Nothing is missing    *)
(* but what a field held undecoded when NoLazyDecoding merged into it.      *)
FieldsAsEager == status = "ok" =>
    \A f \in Fields : /\ (f \in present) <=> (want[f] # <<>>)
                      /\ f \in present =>
                             Contents(f) = SubSeq(want[f], lost[f] + 1, Len(want[f]))

(* Records with the wrong wire type are kept among the unknown fields, each *)
(* once and in the order they came, whatever is decoded lazily (the comment *)
(* on errUnknown); except that a postponed field swallows its own.          *)
UnknownAsEager == status = "ok" =>
    unknown = Selected(wantUnknown, Record \ skipped)

(* Unmarshal reports a parse error exactly when some record of the input    *)
(* cannot be decoded, even when the record's field is postponed to the end; *)
(* a message encoded as a group is refused as well if a field is postponed. *)
ErrorsAsEager ==
    /\ status = "invalid" => failed \/ (opts.group /\ Later # {})
    /\ status \in {"ok", "required"} => ~failed

(* A call that fails, in the middle of the input or while it decodes the    *)
(* postponed fields, leaves none of these half decoded: one that is present *)
(* has all of its records in it ("so if we stop decoding early, we don't    *)
(* leave a partially-initialized field around", lazy.go:287-289).           *)
NothingHalfDecoded == status = "invalid" =>
    \A f \in Later \cap present : ~DecodeFails(f) /\ ptr[f] = UnmarshalField(lazy.buffer, f)

(* After a lazy Unmarshal with AllowPartial, CheckInitialized finds every   *)
(* missing required field, whatever was decoded or cleared since: the       *)
(* retained flags are those of the call that retained the buffer.           *)
PartialIsRechecked == status = "ok" /\ lazyDecode /\ opts.allowPartial =>
    (CheckInitialized(present, ptr, lazy) <=> \A f \in Fields : Complete(want[f]))

(* out.initialized lets proto.Unmarshal skip the check of required fields.  *)
(* When unmarshalPointer sets it for a message that was empty, every        *)
(* submessage has its required fields, postponed and undecoded ones too.    *)
InitializedIsSound == status = "ok" /\ calls = 1 /\ initialized /\ Later = {} =>
    \A f \in Fields : Complete(want[f])

(* Unmarshal without AllowPartial returns an error when a required field is *)
(* missing (the documentation of UnmarshalOptions.AllowPartial).            *)
RequiredChecked == status = "ok" /\ calls > 0 /\ ~opts.allowPartial =>
    \A f \in Fields : Complete(want[f])
=============================================================================
