# A TLA+ verification project for protobuf-go

protobuf-go is the Go runtime of Protocol Buffers. Most of it translates data;
the part that is hard to get right, and hard to test, is the state it keeps
behind an interface that looks stateless: submessages and extensions that stay
in wire format until they are first used, a presence bitmap shared by the
fields of a message, size caches shared by concurrent marshals, and
process-wide caches and registries. A call that only reads a message may write
to it, and such calls may run in any number of goroutines at once.

This directory holds TLA+ modules of that state, TLC configurations that check
them on small instances, and proofs, checked by TLAPS, that hold for every
instance. `PROJECT.json` gives, for each definition, the lines it models, and
for each run, what it checks.

## 1. The system: components, state, operations

| Component (source) | State it keeps | Operations | Module |
|---|---|---|---|
| Lazy unmarshaling of opaque messages (`internal/impl/lazy.go`) | presence bits, nil or set pointers, the retained buffer with its index and flags, unknown bytes | `unmarshalPointerLazy`, `unmarshalField`, `lazyUnmarshal`, `skipField` | `LazyDecode` |
| Index of the retained buffer (`internal/protolazy`) | `IndexEntry` list sorted by field number | `SetIndex`, `lookupField`, `FindFieldInProto`, `SizeField`, `AppendField` (not `buildIndex`, section 5) | `LazyDecode`, sizes in `LazyMessage` |
| Eager unmarshaling and `proto.Unmarshal` (`internal/impl/decode.go`, `proto/decode.go`) | none across calls | the record loop, options, final check of required fields | `LazyDecode`, `LazyExtension` |
| Concurrent use of lazy fields (`internal/impl/lazy.go`, `encode.go`, `codec_field_opaque.go`, `message_opaque.go`, `merge.go`, `checkinit.go`, `api_export_opaque.go`) | the atomically accessed pointers, the size cache | getter, `Marshal`, deterministic `Marshal`, `Merge` (source side), `CheckInitialized` | `LazyMessage` implements `OnceCell` |
| Lazy extension fields (`internal/impl/codec_extension.go`) | buffer, value, `atomicOnce`, mutex per field | `appendLazyBytes`, `canLazy`, `lazyBuffer`, `lazyInit`, `Set`, `Value` | `LazyExtension` |
| Presence bitmap (`internal/impl/presence.go`, `api_export_opaque.go`) | words of 32 bits | `SetPresent`, `ClearPresent`, `SetPresentUnatomic`, `AnyPresent` | `Presence` |
| Required-field check (`internal/impl/checkinit.go`) | `needsInitCheckMap`, `needsInitCheckMu`, markers | `needsInitCheck`, `needsInitCheckLocked`, `checkInitializedPointer` | `NeedsInitCheck`, `LazyMessage`, `LazyDecode`; what decoding takes from it in `Validate` |
| Merge (`internal/impl/merge.go`) | none of its own | `mergePointer` | source side in `LazyMessage`, presence in `Presence` |
| Registries (`reflect/protoregistry`) | descriptors, files and types by name, path and extension number, counts, `globalMutex` | `RegisterFile`, `Register*`, `Find*`, `Range*` | `Registry`; the mutex in `TypeInit` |
| File descriptors (`internal/filedesc`, `internal/filetype`) | lazily parsed `FileL2`, `once`, `mu` | `Build`, `lazyInit`, accessors | `TypeInit`; `Build` in `Registry` |
| `ExtensionInfo`, `MessageInfo` (`internal/impl/extension.go`, `legacy_extension.go`, `message.go`) | a two-stage and a one-stage flag, each with a mutex | `TypeDescriptor`, `lazyInit`, `init` | `TypeInit` |
| Validation (`internal/impl/validate.go`) | an explicit stack of slices and masks | `validate` | `Validate`; its verdicts are the record classes of `LazyDecode` |
| Wire primitives (`encoding/protowire`) | none | varints, `ConsumeFieldValue` | `Delim`, `Validate` |
| Delimited streams (`encoding/protodelim`) | none across calls; the position in the stream | `MarshalTo`, `UnmarshalFrom` | `Delim` |

The rest is listed in `PROJECT.json` with the reason it is not modelled; see
section 6.

### How the parts interact

`proto.Unmarshal` resets the message (unless `Merge`), and hands the bytes to
`unmarshalPointer`. For an empty opaque message with lazy decoding allowed it
keeps the buffer, *validates* records of lazy fields instead of decoding them,
sets their presence bit with a nil pointer, and builds an index by field
number. Every later reader of such a field (a getter, `Marshal`, `Merge`,
`CheckInitialized`) meets "present but nil": it decodes from the buffer through
the index and publishes the result with a compare-and-swap, or uses the raw
bytes. Extensions do the same with a buffer, a mutex and an atomic flag of
their own. `Marshal` runs twice over the message, first to size it (writing a
size cache in the message), then to write it (reading the cache). Whether a
message needs a required-field check at all is a property of its type, computed
once under a process-wide lock and read without it.

Types come into being the same way. Generated `init` functions call
`filetype.Builder.Build`, which registers a file with names only, and then its
types one by one. The contents of a file descriptor, the tables of a message
type and the converter of an extension are made on first use, by whichever
goroutine comes first, and the making of one asks for others: a message type's
tables read its file's contents and run `needsInitCheck`, which reads other
files; a file's contents look up its imports in the registry. Five kinds of
lock nest in this way, one of them the registry's read-write lock.

The validator stands between lazy and eager decoding: a lazy field is left
undecoded on its word alone, and the error of the later decoding is dropped.

### What is hard here

* **Interleavings**: two readers that decode one field; a marshal whose size
  pass and write pass see different states; the unlocked look before a lock;
  setters of different fields in one word.
* **State read early and used late**: the size cache; the flags retained by an
  earlier `Unmarshal`; a marker in a cache.
* **Ordering**: `atomicOnce` against the value it guards; records of a field
  that are interrupted or out of order.
* **Changing course**: a lazy field that turns from "validate" to "decode
  later" in the middle of the input; an extension that receives records after
  it was expanded; calls with different options on one message.
* **Boundaries**: a bitmap whose last word is partly used.
* **Two implementations of one thing**: `validate` with its own stack against the
  recursive decoder; a peeked message against a copied one.
* **Stopping half way**: a `Build` that panics between two registrations; a
  stream that ends inside a size or a message; a message that does not parse.
* **Waiting**: everyone for everyone, through the locks of lazy initialization; a
  reader for bytes that a failed writer will not send; readers queueing on an
  extension's mutex, callers queueing on the global lock of `needsInitCheck`.

`PROJECT.json` lists each of these as a hazard at the line where it bites, with
the properties that would catch it. Four have no property, each with the reason: a
record of the wrong wire type that `Marshal` writes twice, merges by two goroutines
into one word of the presence bitmap, an extension registered between `Unmarshal`
and first use, and a panic in the middle of a file's or an extension's
initialization.

## 2. Modules and their correspondence to the code

Names follow the source where TLA+ allows. In every module a comment that starts
with `Mutant:` marks a plausible wrong variant of the definition after it. No
specification uses these variants; they document what each property can detect.

### `NeedsInitCheck` (`checkinit.go:124-174`)

`cache` is `needsInitCheckMap`: `"true"`, `"false"`, `"visiting"` (the
`struct{}{}` marker) or `"none"`. `Load` is the unlocked lookup, `Lock` takes
`needsInitCheckMu` and looks again. The recursion of `needsInitCheckLocked` is an
explicit `stack` of frames (a type and the position in its field loop) of the
lock's holder; `Descend`, `SkipField`, `ReturnTrue` and `ReturnFalse` are one
step of the innermost frame. The graph of message types is chosen in `Init`.
What the answer should be, `NeedsCheck`, is defined as the least fixed point
that the function's comment describes, independently of the exploration.

### `LazyMessage` and `OnceCell`

`LazyMessage` has one message all of whose lazy fields are present and undecoded
at first, and goroutines that call a getter, `Merge` from it, `CheckInitialized`,
`Marshal` and deterministic `Marshal` of its parent. Each atomic operation of the
code is one step: the nil check, the compare-and-swap `Publish`, the load, the
sizing of one field, the store in the size cache, the load of the cache for the
length prefix, the writing of one field. A submessage's identity is the goroutine
that decoded it. Sizes are kept as the contribution of each field, so that the
properties can say where a size came from; comparisons use only the totals, as
the code does. The cache holds totals up to `MaxCached` (the int32 limit); a
larger one leaves it empty and makes the prefix be computed again.

`OnceCell` is the abstract specification: a cell is filled at most once and all
readers get that value. `ImplementsOnceCell` says that `LazyMessage` implements
it, with `ptr` as the cells and the results of getters as what readers saw.

### `LazyExtension` (`codec_extension.go`)

One extension field: `kind` says whether it is absent, lazy or plain; `b`,
`lval`, `once` and `mu` are the members of `lazyExtensionValue`. Readers
(`Value`, `lazyBuffer`, `isUnexpandedLazy`) interleave at each access to shared
memory: `lazyInit` is Lock, Recheck, Decode, DropBuffer, Publish, Unlock, Read.
Operations that change a message may not run beside readers (the package's rule
for concurrent use), so they are single actions taken when no reader is active.
Buffers and values count the records in them; `received` is what they should be.

### `Presence` (`presence.go`, `api_export_opaque.go`, `merge.go:72`)

The bitmap with `Size` fields in words of `WordBits` bits. Setters and clearers
load a word and compare-and-swap it in a loop; a merge loads and stores plainly.
`Owner` assigns fields to goroutines: different goroutines may work on
*different* fields of a message. `intent` records the outcome of the last
completed operation on each field. `Spec` has all operations; in `SafeSpec` a
goroutine merges only fields whose word no other goroutine writes
(`Private`), which is what a caller has to observe for `NoLostUpdate` to hold.

### `LazyDecode` (`lazy.go`, `decode.go`, `protolazy/lazy.go`, `proto/decode.go`)

Sequences of `Unmarshal` calls on one message, single-threaded, with getters and
clears between them. Records are revealed one at a time; a record keeps its field
number and its class, that is, what validation and decoding make of it: valid,
valid but missing a required field, not decidable by validation (decodes or does
not), invalid, wrong wire type. The six disjuncts of `Step` are the branches of
the loop of `unmarshalPointerLazy` (the eager loop shares `DecodeNow`,
`KeepUnknown` and `Reject`); `EndOfInput` is the whole tail: postponed fields, the
sorted index, the required-field check of `proto.Unmarshal`. A call with
`opts.group` decodes a message that is a group of another one: the retained buffer
then goes on past the message, and a pass over it for postponed fields meets the
end-group tag. `LaterFails` is the tail cut short by the error of a postponed
field, with the others decoded or not, since a Go map is ranged over in no
particular order. `AddEntry`, `SortEntries` and `LookupField` are the index
algorithms, in units of records: `SortEntries` is the one arrangement of the
entries that the sort can produce, because no two entries start at the same place,
and `Selected` is the loop of `unmarshalField`, which passes over what it does not
look for. The history variables `want`, `wantUnknown` and `failed` follow the same
input with every record decoded when it is met; `lost` and `skipped` record the two
places where the code departs from that (section 3), so that the properties say
exactly how far.

### `Registry` (`registry.go`, `filetype/build.go`)

`descsByName`, `filesByPath`, `typesByName`, `extensionsByMessage` and the counts
are the fields of `Files` and `Types`. A name stands for its dotted path: `Above`
gives its proper prefixes. Each Register call holds `globalMutex` throughout and is
one action; `RegisterFile(f)` and the `RegisterType(f)` calls after it are
`Builder.Build`, and the builds of several files interleave. `policy` says whether
the registries are local, or global with conflicts that panic or are ignored
("warn" differs from "ignore" in what it prints). `failed` are the files whose
build panicked half way; what they registered stays. The Find methods are
operators (Range methods only read the tables and are left out). `Declared`,
nested names included, is what the properties compare with, although the code
enters top-level names only.

### `TypeInit` (`filedesc/desc.go`, `desc_lazy.go`, `message.go`, `extension.go`, `checkinit.go`)

A goroutine is the list of instructions it still has to run. An instruction is
one atomic access (test a flag, take a mutex, store a result) or a call, which is
replaced by the instructions of its body; the recursion of the code, through
files, message types and the registry, needs no bound then. `L2`, `info`, `desc`
and `conv` tell whether a thing is absent, half made or complete. The instance
gives the shape of the types: imports, defaults taken from enums of other files,
files whose dependencies are resolved by name, fields of messages, legacy
extensions with and without enough information. A default's enum is in the file
itself, whose values are read directly (`UnmarshalDefault`), or in a file among its
`Dependencies`. `globalMutex` is a
`sync.RWMutex`: a writer first claims the lock, which keeps new readers out, and
then waits for the readers inside.

### `Validate` (`validate.go`, `decode.go`, `codec_field.go`, `codec_map.go`, `wire.go`)

The buffer is a sequence of records, each one unit long, whose length-delimited
contents are records as well; they are revealed as the loop reads them. `states`
is the code's stack, `b` the length of the current slice, `skip` the groups open
inside `ConsumeFieldValue`. The actions are the branches of the loop. History:
`slice` and `level` in a state (where its contents lie, how deep the decoder
nests there), `start` in `skip`, `deepest`, and `unreported` (a value was met of
which the decoder does not report what it lacks).

The second half of the module is the recursive decoder `unmarshalPointerEager` on
the same buffer, with `consumeMessageInfo`, `consumeGroupType` and
`consumeMapOfMessage`. A slice is given by two positions in the buffer. Each Go
loop is a body, one iteration as a function of the loop's variables, and `Loop`,
its repetition; each recursion is a function of the depth that is left, as in the
code (`ConsumeGroup`, `Unmarshal`). Nesting has two limits, that of messages
(`opts.depth`) and protowire's own of groups that are skipped. Whether the decoder
looks at what a field's value lacks is `HasInit`: maps always; a message or group
if `needsInitCheck` is true of its type; of the members of a oneof only the first.
What `needsInitCheck` answers is the constant `NeedsCheck`. It is assumed to be
what `checkinit.go` can have cached, not what it should be: a type may be answered
false although a field of it has a type answered true, if that type was being
explored at the time, around a cycle. (A member of a oneof replaces the others;
here their values stand side by side, which only matters to what is initialized
when two members occur.) Independently of both programs, `IsInitialized` says
what it means that no required field is missing: a message is given by all the
slices that are merged into it, a map by one message for each entry.

### `Delim` (`protodelim.go`, `wire.go`)

A writer that writes messages byte by byte and may close or fail between any two
bytes, and a reader's `UnmarshalFrom` calls. A byte carries a number below `Cont`
and the continuation bit `Cont`, a varint has at most `MaxVarintLen` bytes with one
bit in the last (the code has 128 and 10); `Place` is what a one in each group
stands for and `Value` what the groups read so far add up to. The writer may pad
sizes, as other implementations may. The reader is a
`bufio.Reader`, whose `Peek` waits for the contents or a full buffer and whose
`Discard` is deferred, or another reader, from which the contents are copied.

## 3. Runs

| Run | Asks | Instance | Distinct states |
|---|---|---|---|
| `needsinit` | do markers stay with their exploration, is `true` always right, is `false` right without recursive types, is a verdict final, does every call end | 3 types, every choice of 5 field lists for each and of the types with required fields; 2 goroutines | 503 000 |
| `lazymessage` | does it implement `OnceCell` (readers agree, nothing is replaced), is a size mismatch explained, is deterministic output canonical, what can make it fail, is the required-field check exact | 2 fields, 2 goroutines, sizes 3/1 and 4/2, cache limit 6, one field incomplete | 200 000 |
| `lazyextension` | is no record lost, is there one object, is there no data race, does every reader return | 3 readers, 3 records | 59 000 |
| `presence` | do atomic operations and private merges lose no update, is `AnyPresent` exact for one's own fields | 5 fields in 3 words of 2 bits, 2 goroutines with fields in the same words | 98 000 |
| `lazydecode` | does lazy decoding give the fields, unknown records and errors of eager decoding; is nothing left half decoded after a failure; are flags those of the right call; is the initialized flag sound | 3 fields, all 6 classes, 3 records in up to 2 calls, with and without `Merge`, `AllowPartial`, `DiscardUnknown`, `NoLazyDecoding`, a group | 795 000 |
| `registry` | do lookups find exactly what is registered, is a file refused exactly when it clashes, do the two registries and the two tables of extensions agree, is what a name resolves to final | 7 files, 6 types, 7 names up to four levels deep, 3 policies, every order | 40 000 |
| `typeinit` | is nothing half made seen, nothing made twice, no mutex asked for by its holder, and do all calls return | 3 goroutines, 3 files, 2 message types, 3 extensions; every choice of calls that mixes uses with lookups or with registrations | 163 000 |
| `validate` | does validation agree with unmarshaling, and are the initialized flags of both sound | every buffer of up to 5 records of 4 mutually recursive types, as a message and as a group; 1 mask bit, nesting limit 4 for messages and 2 for skipped groups | 620 000 |
| `delim` | do messages arrive whole and in order, is the end told right, are sizes judged right, does the reader end | 2 messages of sizes 0 to 4, limit 3, buffer 2, sizes of 1 to 3 bytes, both readers | 183 000 |
| `needsinit_doc`, `lazydecode_required`, `typeinit_register` | statements of docs and comments that the code does not keep | as above, smaller | counterexample |

Type invariants (`TypeOK`, `ExtTypeOK`) of all modules are theorems and need no run.

### Why the bounds are enough to see the interesting cases

* `needsinit`: three types give self-reference, cycles of two and three, a cycle
  with a second way out (the case behind the finding), shared types and chains.
  Two goroutines suffice because a third could only wait as the second does.
* `lazymessage`: both fields shrink when re-encoded, and the cache limit lies
  between the possible totals (7 does not fit, 5 and 3 do), so sizes are cached,
  refused, recomputed and stale in one instance.
* `lazyextension`: a third reader lets one wait for the mutex, one hold it and
  one be between the unlocked check and the lock.
* `presence`: shared words, a word with one owner, and a partly used last word.
* `lazydecode`: "skipped, then undecidable, then any class" needs three records;
  two calls are what `Merge` into undecoded fields and stale flags need.
  Runs of a field that are contiguous, interrupted and out of order, the cases of
  `AddEntry` and of the sort, need three records as well. A failure of one postponed
  field after another one was decoded needs four records; there
  `NothingHalfDecoded` rests on its proof.
* `registry`: the files include two of one package, two with one path, a package
  that is another file's message, one nested in that, a file that declares a
  parent package's name, an enum value that is another file's message, and a path
  that `checkGenProtoConflict` knows.
* `typeinit`: one file takes a default from itself and from another, one resolves
  by name, the message types refer to each other's files, and an extension is
  ready, legacy, or legacy and incomplete; three goroutines let one hold a lock,
  one wait for it and one be between the flag and the lock.
* `validate`: five records allow a map entry with a key and a value inside a
  message, a group in a group, a length that overruns an inner but not the outer
  slice, and nesting below and above the limits; one mask bit makes the type with two
  required fields the one "with more than 64". `Ring` is a type for which
  `needsInitCheck` answers false inside a cycle, and the group of `Outer` is the
  second member of a oneof: without its exception for either,
  `UnmarshalInitializedIsSound` is violated in this instance.
* `delim`: sizes below, at and above the buffer and the limit; contents that look
  like a size, so that a reader out of step would go unnoticed by parsing; two
  messages, so that what the first leaves behind is seen by the second.

`CHECK_DEADLOCK FALSE` appears where the system really stops: in `LazyDecode`,
`Validate` and `Delim` the input is bounded, in `TypeInit` each goroutine makes one
call (that all of them return is the property `AllCallsReturn`).

### Fairness

In `NeedsInitCheck` and `LazyExtension` a goroutine inside a call keeps running
(weak fairness of its steps): the Go scheduler is preemptive. Acquiring a `sync.Mutex` is strongly fair: after a
waiter has waited one millisecond the mutex enters starvation mode and is handed
to waiters in order. No fairness is assumed of beginning a call, and none in
`Presence` (whose compare-and-swap loop is lock-free and not wait-free: a single
goroutine may lose forever in principle, so no such property is stated).
`TypeInit` assumes only that some goroutine runs as long as one can: its calls are
finite, so a call that does not return is a deadlock. `Delim` assumes that the
reader goes on when it can and that a writer which began a message writes on or
fails; nothing is assumed of closing.

### What the counterexamples show

1. `needsinit_doc`: inside a cycle of message types, `needsInitCheck` may answer
   (and cache) *false* for a type that reaches a required field; the comment says
   it returns true then. With `A{b B; c C}`, `B{a A}` and a required field in
   `C`, asking about `A` first leaves `B` at false forever.
2. `lazydecode_required`: `Unmarshal` without `AllowPartial` accepts a lazy field
   whose required field is missing: the flag that says "checked" is recorded
   before the check, and the check believes it.
3. `typeinit_register`: `FindDescriptorByName` of a nested name (and a callback of
   `RangeFiles`) initializes a file while it holds `globalMutex` for reading. The
   initialization read-locks it again. A `RegisterFile` that asks for the write lock
   in between blocks the second read lock and waits for the first: none of the
   calls returns. Registration after start-up (plugins, dynamic files in the
   global registry) is what it takes; `typeinit` shows that lookups alone, or
   registrations without lookups that initialize, always return.

Two more disagreements show in runs that pass, since the properties there state
what the code does:

4. `registry`: `RefusedIffClash` says that a file whose path is taken is refused
   unless conflicts are ignored, as `registry.go:126-134` does and
   `registry_test.go:72` expects. The documentation of `RegisterFile`
   (`registry.go:113`) says "It is permitted for multiple files to have the same
   file path."
5. `validate`: decoding ignores what a message lacks that is a member of a oneof
   other than the first, because only the first has an `isInit`
   (`codec_field.go:110`, `decode.go:190`, `lazy.go:330`). `Unmarshal` without
   `AllowPartial` then leaves its check out although `decode.go:32-33` in `proto`
   promises an error: `TestOneofWithRequired` (`test.proto:260`) with an empty
   `oneof_required` is accepted. `UnmarshalInitializedIsSound` excepts exactly
   these members.

Each is entered under "findings" with the line that says otherwise.

### Departures that the passing properties delimit

Some properties name an exception, because the code has it:

* `DeterministicFailsByForeignSize`: a deterministic `Marshal` can fail with a size
  mismatch while another goroutine marshals the same, unmodified message; the
  property shows that this needs a size cached by an ordinary `Marshal` for a
  field it found undecoded (`encode.go:37` in `proto` promises the same bytes).
* `NoLostUpdate` under `SafeSpec`: `mergePointer` sets presence bits with
  `SetPresentUnatomic` (`merge.go:72`), so merges by two goroutines into fields
  of one word may lose a bit, under `Spec`; `presence.go:46-47` reserves that
  function for unmarshaling, and `merge_test.go:796` calls concurrent merges of
  different fields safe.
* `FieldsAsEager` up to `lost`: with `NoLazyDecoding` and `Merge`, a record is
  decoded into the nil pointer of an undecoded field, and what the field held
  before is gone (`decode.go:184`; compare `lazy.go:318`).
* `UnknownAsEager` up to `skipped`: once a field is postponed to the end, a later
  record of it with the wrong wire type is kept nowhere. (A wrong-typed record
  *before* that is kept among the unknown fields and also lies in the raw bytes of
  the field, `lazy.go:373`, so that `Marshal` of the undecoded field writes it
  twice.)
* `ErrorsAsEager`: a message in a group is refused if a field of it is postponed,
  because the pass over the retained buffer cannot step over the end-group tag.
* `AgreesWithUnmarshal`: `validate` has no limit on nesting. Bytes nested beyond
  the limit are `ValidationValid` and fail when they are decoded, where lazy
  decoding drops the error (`validate.go:38` says unmarshaling will succeed).
* `UnmarshalInitializedIsSound` up to `unreported`, which stands for three cases.
  `validate` is not affected by any of them: it looks into every field.
  * A map entry may hold its value more than once, and the values are merged.
    `consumeMapOfMessage` reports the item as initialized as soon as one of them is
    (`codec_map.go:212-216`), so a later value with an incomplete submessage goes
    unnoticed: with a map from strings to `A`, `A{a A; w W}` and a required field
    in `W`, the values `{}` and `{w: {}}` in one entry are accepted by `Unmarshal`
    without `AllowPartial`, which leaves its check out although `decode.go:32-33` in
    `proto` promises an error.
  * A message or group of a type that can lack a required field but for which
    `needsInitCheck` answered false inside a cycle (1 above): its field has no
    `isInit` (`codec_field.go:129`), and `decode.go:190` asks no further.
  * A message or group in a member of a oneof other than the first (5 above).
* `TypesMatchFiles`, `NumbersMatchNames`, `TypesAreFinal`: not when conflicts are
  ignored. The file registry then keeps the first declaration of a name, the type
  registry the last, and `num` counts what was replaced as well.

## 4. Proofs

The eight modules `*_proofs` hold theorems for **every** value of the constants:
any number of types, fields, goroutines and records. They rest on the named
assumptions in the modules (a null value is not a thread, a field order lists
exactly the fields, sizes are natural numbers, a word has at least one bit, ...),
which TLC evaluates in every run, and on nothing else.

* **`NeedsInitCheck_proofs`**: type correctness, `MarkersAreFrames`,
  `TrueIsSound`, `FalseIsSoundWhenAcyclic`, `VerdictIsFinal`. The invariant `IInv`
  adds to them: the lock's holder is the one that runs; each frame was entered
  through the field at which its caller's loop stands; the fields a loop has
  passed are cached false; hence, without recursive types, the set of types
  cached false is closed under use and its complement is one of the sets over
  which `NeedsCheck` quantifies. The key lemma, `NoMarkerWhenAcyclic`, turns a
  marker met by the exploration into a cycle made of the frames above it. The
  passing of fields fails on cyclic graphs, which is where the counterexample is.
* **`LazyMessage_proofs`**: type correctness, `ReadersAgree`, `NeverReplaced`,
  `MismatchNeedsReencoding`, `DeterministicIsCanonical`,
  `DeterministicFailsByForeignSize`, `CheckIsExact` and the refinement
  `Spec => ImplementsOnceCell`. The invariant says of each goroutine what the
  part of the message it has gone through looks like, in terms that other
  goroutines' decoding cannot disturb (pointers only ever change from nil): a
  recorded size is the raw size, or the canonical one of a *decoded* field
  (`Accounted`). A mismatch then needs a field whose two sizes differ, and in a
  deterministic marshal, which has decoded everything, a raw size in the prefix.
  `CheckInv` says that a check which has not failed has passed complete fields
  only, decoded or not.
* **`RegistryExtension_proofs`**, on `LazyExtension`: type correctness,
  `NoRecordLost`, `OneObject`, `NoDataRace`. The invariant ties the mutex to its holder's location and says,
  for each location, which representation holds all records received: the
  buffer up to "drop", the decoded value from "drop" on, with `once` set only
  when the value is complete and the buffer gone.
* **`Presence_proofs`**: `NoLostUpdate` and `AnyIsExact` of `SafeSpec`, for any word
  length and any distribution of fields. The invariant adds that a merge which is
  about to store over a word has loaded what is still there (`Fresh`), which the
  privacy of the word guarantees. `SeparateMergesSafe` says the same of `Spec` if
  no word has fields of two goroutines.
* **`RegistryExtension_proofs`**, on `Registry`: type correctness, `FindIsExact`, `DescriptorsAreFinal`,
  `RefusedIffClash`, `NumbersMatchNames`, `TypesMatchFiles`, `TypesAreFinal`, for any
  names, files, types and order of registration. `FileInv` says what each entry of
  `descsByName` stands for (`Entries`: a file exactly for the top-level names of
  registered files, "package" exactly for their packages and parents), that the two
  file tables agree (`PathsAgree`) and that a registered file's build has begun
  (`Started`). From it follows that the nearest entry above a name decides: if a
  registered file declares the name, however deeply nested, its top-level parent is
  that entry, because an entry in between would be a package whose registration
  the conflict check refuses. This is why checking top-level names is enough
  (`RefusedIffClash`). `TypeInv` adds that registered types belong to registered
  files. The assumption about names is that the prefixes of a name form a chain.

* **`LazyDecode_proofs`**: type correctness, `FieldsAsEager`, `UnknownAsEager`,
  `ErrorsAsEager`, `NothingHalfDecoded`, `PartialIsRechecked` and `InitializedIsSound`:
  lazy decoding agrees with decoding each record when it is met, for every input
  and every sequence of calls. The first half is about data. `Selected` and
  `FlattenSeq` do what their recursions say (`SelectedDef`,
  `FlattenDef`); entries that are stretches of one field each and
  cover its records, joined in the order of the buffer, are the records of the
  field (`Joined`); a sorted arrangement of an index exists (`SortExists`, by
  insertion), so that the `CHOOSE` of `SortEntries` means something; and the lookup
  returns the right run of a sorted index or of one built from records already in
  order (`SortedFinds`, `InOrderFinds`), so that the index stored finds all of a
  field's records. The invariant says what the index under construction covers
  (`IndexSoFar`), what each field has in the middle of a lazy call, by its state
  "validate", "now" or "later" (`Underway`), and what it has otherwise (`Held`: its
  pointer, or what the stored index finds, is what the reference has due). A record
  that cannot be decoded is in the buffer only if its field is postponed
  (`Errors`), which is why no error is lost although those fields are only
  validated. A field is absent from the moment it is postponed until it is decoded
  whole (`LaterAbsent`), whichever of the others fails first.
* **`TypeInit_proofs`**: type correctness, `NothingHalfMade`, `NoReentry` and
  `MadeOnce`, for any files, types, goroutines and calls. The invariant is about
  the instructions a goroutine still has to run: which may stand before which
  (`Before`: in front of the instructions that end the initialization of a file
  there is only work on files it depends on), which must still follow one
  (`Pending`), what has been made or is about to be made by the time one is reached
  (`Prepared`), and that a mutex belongs to the goroutine whose list has its
  unlocking but no longer its locking (`Locks`). A step replaces the first
  instruction by the list of its body; that lists so expanded keep these relations
  is proved once (`Inherits`, `Completes`) and the rest is one lemma per
  instruction. `NoReentry` rests on `ImportsAcyclic`: `protoc`, `protodesc` and
  the Go compiler refuse import cycles.
* **`Delim_proofs`**: type correctness, `InOrder`, `EndIsTold`, `SizesAreJudged`,
  for any continuation bit, varint length, sizes that fit, limit, buffer and
  reader; and `VarintRoundTrip`, that `ConsumeVarint` undoes `AppendVarint` for the
  shortest encoding and every padded one. The invariant says that what the reader
  holds, what is on the wire and what is still to be written are together the
  encoding of what was sent after what was delivered (`Stream`, `Flow`). That
  encoding and the lengths of the sizes in it are quantified in the invariant,
  since neither side keeps them.
* **`Validate_proofs`**: type correctness, `SlicesAddUp`, `AgreesWithUnmarshal`,
  `InitializedIsSound` and `UnmarshalInitializedIsSound`, for any schema, bytes and
  limits. `Layout` says how the slices of the stack lie
  in one another and that the tails are the rests of the enclosing ones. For the
  agreement the invariant (`AgreesInv`) speaks of *every* buffer that begins with
  what was read: on it, the decoder's loop for each state of the stack has come to
  the position where the stack is (`Decoding`), the group consumption for each
  element of `skip` likewise (`Skipping`), and when validate has returned, the
  whole decoding has the result that `AgreesWithUnmarshal` asks for. Each step of
  validate is one of ten kinds (`Kinds`), and each kind is an iteration of the
  innermost loop, the beginning of a nested one, or its end together with an
  iteration of the enclosing one. A refusal deep in the stack has to travel
  through all enclosing loops and reach the top as an error; past the recursion
  limit that error is "depth" whatever follows. That loops do not go on after
  their end, that they consume a record in each iteration and that `Loop`
  therefore runs them to the end is proved once for all four bodies.

  What is initialized is defined without either program: by the records of a slice
  (`Records`, the positions that `Jump` visits) and, for a message that is read from
  several slices, by all of them together. The invariant (`ProgressInv`) adds to
  `AgreesInv`, again for every buffer that begins with what was read, that the
  position of each state of the stack is one that `Jump` visits (`Track`), that the
  bits of its mask stand for required fields with a record of the right wire type
  in its slice (`MaskOK`), that the contents of the fields passed are initialized as
  long as `initialized` has not been cleared (`SoundTo`), and that the decoder's
  loop, where it stands in the same slice, has its flag set only if they are
  (`Reported`). A full mask then means that every required field has a record,
  because the bits are a one-to-one image of the fields (`MaskFull`, by
  cardinality), and a type with more required fields than bits never fills it. Two
  facts carry the rest: a message merged from several slices is initialized if each
  of them is on its own (`GoodUnion`), although the converse fails, and a value of a
  type outside `CanLack` always is (`GoodNoCheck`), so that ignoring it does no
  harm. What the decoder ignores besides is where `unreported` is needed: a value
  that can lack a required field and whose field has no `isInit`, and in map entries,
  where validate wants the value seen and the decoder one initialized value, which is
  the same only if the entry has one (`NoValue`, `Told`, `UnderAt`). The theorem
  holds for whatever `needsInitCheck` answers: the proof does not use
  `NeedsCheckAssumption`, which only says which answers can occur.

### Induction over data

The library's induction theorems take an operator and cannot be used here. Four
modules therefore start from `WFMin`, which speaks of sets: every nonempty set of
naturals has a smallest element (`SmallestOf`), hence a set with 0 and with the
successor of each of its members has all naturals (`InductiveSet`), hence a
function defined by recursion up to N exists (`Recursion`). Recursive functions in
the models have a natural number as their argument for this reason, also where a
fold would be shorter.

### Only model-checked

* Liveness (`EveryCallReturns` in two modules, `AllCallsReturn`, `ReaderEnds`):
  fairness and ENABLED are out of the prover's reach.

## 5. What is left out of the modelled parts

* Contents of submessages. Re-encoding is a change of size, a record's value is
  its class. Nested laziness repeats the same structure one level down.
* Repeated lazy fields and maps in `LazyMessage`: they are published in the same
  way, through a pointer to a slice.
* Extension records inside `LazyDecode`; `LazyExtension` has them on their own.
* A failed `Unmarshal` leaves the contents of a message unspecified; the model
  only lets the application reset it, and `NothingHalfDecoded` speaks of the state
  left behind. A getter called on such a message finds a buffer without an index and
  calls `buildIndex`, which may return an error, upon which `FindFieldInProto`
  panics. A call that succeeds has stored an index (`lazy.go:423`), so `buildIndex`
  is not reached then and is not modelled.
* Panics during initialization, of a file or an extension: they mean malformed
  descriptors, which generated code does not contain.
* Message sets in `Validate`, and the caches of derived legacy descriptors.
* What descriptor bytes parse to: `TypeInit` has when a file's contents are made
  and what that asks for, not the contents.
* Read errors other than the end of the stream in `Delim`; they are returned
  unchanged at each place.
* The race detector's shadow bitmap (`bitmap_race.go`).
* Go's memory model is used in the form "atomics and mutexes are sequentially
  consistent, and unsynchronized accesses must not conflict"; the latter is a
  property (`NoDataRace`), not an assumption. In `LazyMessage` all shared
  accesses are atomic. In `Presence` merges are plain load and store, whose
  outcomes on the supported platforms are those of the interleavings.

## 6. Not modelled

More than four fifths of the repository's Go lines are generated: `.pb.go` files
(`types/descriptorpb`, `types/known`, and above all `internal/testprotos`) and the
per-kind functions of `codec_gen.go` and `merge_gen.go`. Generated messages hold
struct definitions, accessors that call the runtime, and descriptor bytes; there is
nothing in them that a model could get wrong separately from the runtime calls
modelled here. Scalar codecs are stateless conversions. A map of the
implementation's lines is therefore small in relation to the repository, whatever
is modelled.

Of the hand-written code these parts are left out, with the reason in
`PROJECT.json`: the text and JSON formats (character-level parsing and formatting),
`protodesc` (single-threaded translation of descriptors), `protoreflect` and
`dynamicpb` (interfaces, and maps without laziness or concurrency), comparison and
cloning (structural recursion over reflection; their concurrency is that of the
lazy fields they read), message sets (off unless built with `protolegacy`), the
code generator and the testing packages.

### Plan

Done: `NeedsInitCheck`, `OnceCell`/`LazyMessage`, `LazyExtension`, `Presence`,
`LazyDecode`, `Registry`, `TypeInit`, `Validate`, `Delim`, with the proofs above. Next:

1. The caches of the legacy wrappers (`LoadOrStore`, `aberrantMessageDescLock`).
2. A composition of `Presence` and `LazyMessage` (a getter's presence test and the
   pointer it then reads), and of `Registry` and `LazyDecode` (an extension
   registered after validation).

## 7. Running

In this directory:

    tlc -config MCLazyMessage.cfg MCLazyMessage
    tlapm LazyMessage_proofs.tla

The configurations and modules of each run are listed in `PROJECT.json`. The
longest runs, `lazydecode`, `validate` and `needsinit`, take a few minutes each.
