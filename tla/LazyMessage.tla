---------------------------- MODULE LazyMessage ----------------------------
(***************************************************************************)
(* Concurrent use of a message whose submessage fields are lazily decoded. *)
(*                                                                         *)
(* An opaque message that was decoded lazily keeps its wire bytes; a lazy  *)
(* field has its presence bit set and a nil pointer until it is first      *)
(* used.  Reading the message (a getter, Marshal, CheckInitialized, Merge  *)
(* from it) may decode a field and so write to it; these operations may    *)
(* still be called by any number of goroutines at once.                    *)
(*                                                                         *)
(* The message modelled is itself a submessage: marshaling its parent      *)
(* first sizes it, caching the size, then writes the cached size as a      *)
(* length prefix, the content, and compares the two (appendOpaqueMessage). *)
(* Every lazy field considered is present; what a decoded field contains   *)
(* is left out, its identity is the goroutine that decoded it.             *)
(***************************************************************************)
EXTENDS Integers, Sequences, Functions

CONSTANTS Fields,      \* the lazy fields that are present
          FieldOrder,  \* orderedCoderFields
          Threads,     \* goroutines
          Nil,         \* nil pointer
          RawSize,     \* [Fields -> Nat]: bytes of a field in the kept buffer
          CanonSize,   \* [Fields -> Nat]: bytes of its encoding once decoded
          MaxCached,   \* largest size the int32 size cache can hold
          NoSize,      \* the size cache is empty (0; sizes are stored plus 1)
          Incomplete,  \* fields whose submessage misses a required field
          AllowedPartial  \* Unmarshal was called with AllowPartial

ASSUME OrderAssumption ==
  FieldOrder \in Seq(Fields) /\ Len(FieldOrder) > 0 /\ \A f \in Fields : \E i \in DOMAIN FieldOrder : FieldOrder[i] = f
ASSUME SizeAssumption ==
  RawSize \in [Fields -> Nat] /\ CanonSize \in [Fields -> Nat] /\ MaxCached \in Nat
ASSUME NilAssumption == Nil \notin Threads
ASSUME NoSizeAssumption == NoSize \notin [Fields -> Nat]
ASSUME PartialAssumption == AllowedPartial \in BOOLEAN /\ Incomplete \subseteq Fields

VARIABLES
  ptr,       \* [f |-> the published submessage or Nil], accessed atomically
  sizecache, \* what sizePointerSlow last cached: the contribution of each field
  pc, op,    \* per goroutine: where it is, the operation it runs
  ret,       \* per goroutine: where it goes on once it has decoded a field
  fld,       \* per goroutine: the field it reads or decodes
  pos,       \* per goroutine: position in FieldOrder
  sized,     \* per goroutine: contributions summed up so far by sizePointerSlow
  prefix,    \* per goroutine: the contributions behind the length prefix written
  form,      \* per goroutine: how each field was written, "none", "raw" or "canon"
  got,       \* per goroutine: the pointer the getter returned
  result     \* per goroutine: outcome of its last call

shared == <<ptr, sizecache>>
locals == <<op, ret, fld, pos, sized, prefix, form, got, result>>
vars == <<ptr, sizecache, pc, op, ret, fld, pos, sized, prefix, form, got, result>>

Ops == {"get", "merge", "check", "marshal", "deterministic"}
Last == Len(FieldOrder)
Zero == [f \in Fields |-> 0]
Unwritten == [f \in Fields |-> "none"]
Total(contributions) == FoldFunction(LAMBDA x, y : x + y, 0, contributions)

Init ==
  /\ ptr = [f \in Fields |-> Nil]
  /\ sizecache = NoSize
  /\ pc = [t \in Threads |-> "idle"]
  /\ op = [t \in Threads |-> "get"]
  /\ ret = [t \in Threads |-> "load"]
  /\ fld = [t \in Threads |-> FieldOrder[1]]
  /\ pos = [t \in Threads |-> 1]
  /\ sized = [t \in Threads |-> Zero]
  /\ prefix = [t \in Threads |-> Zero]
  /\ form = [t \in Threads |-> Unwritten]
  /\ got = [t \in Threads |-> Nil]
  /\ result = [t \in Threads |-> "none"]

Goto(t, l) == pc' = [pc EXCEPT ![t] = l]
NextField(t) == pos' = [pos EXCEPT ![t] = @ + 1]
Field(t) == FieldOrder[pos[t]]
AtField(t, l) == pc[t] = l /\ pos[t] <= Last
AtEnd(t, l) == pc[t] = l /\ pos[t] > Last

(* A call to a getter, Merge (the message is the source), CheckInitialized, *)
(* Marshal or MarshalOptions{Deterministic: true}.Marshal of the parent;    *)
(* results of the goroutine's previous call are dropped.                    *)
Call(t, o, f) ==
  /\ pc[t] = "idle"
  /\ op' = [op EXCEPT ![t] = o]
  /\ fld' = [fld EXCEPT ![t] = f]
  /\ pos' = [pos EXCEPT ![t] = 1]
  /\ sized' = [sized EXCEPT ![t] = Zero]
  /\ prefix' = [prefix EXCEPT ![t] = Zero]
  /\ form' = [form EXCEPT ![t] = Unwritten]
  /\ got' = [got EXCEPT ![t] = Nil]
  /\ result' = [result EXCEPT ![t] = "none"]
  /\ Goto(t, CASE o = "get" -> "nilcheck"
               [] o \in {"merge", "check"} -> "visit"
               [] OTHER -> "size")
  /\ UNCHANGED <<shared, ret>>

-----------------------------------------------------------------------------
(* lazyUnmarshal decodes a field into a private object and publishes it if  *)
(* the field is still nil.  Its callers branch to it here, remembering      *)
(* where to go on.                                                          *)
Decode(t, f, l) ==
  /\ fld' = [fld EXCEPT ![t] = f]
  /\ ret' = [ret EXCEPT ![t] = l]
  /\ Goto(t, "publish")
  /\ UNCHANGED <<shared, op, pos, sized, prefix, form, got, result>>

(* Mutant: the object is stored whether or not the field is still nil.      *)
PublishAlways(t) ==
  /\ pc[t] = "publish"
  /\ ptr' = [ptr EXCEPT ![fld[t]] = t]
  /\ Goto(t, ret[t])
  /\ UNCHANGED <<sizecache, locals>>

(* AtomicSetPointerIfNil: a compare-and-swap; the loser's object is dropped. *)
Publish(t) ==
  /\ pc[t] = "publish"
  /\ ptr' = [ptr EXCEPT ![fld[t]] = IF ptr[fld[t]] = Nil THEN t ELSE ptr[fld[t]]]
  /\ Goto(t, ret[t])
  /\ UNCHANGED <<sizecache, locals>>

-----------------------------------------------------------------------------
(* The getter: AtomicCheckPointerIsNil, UnmarshalField if so, and           *)
(* AtomicLoadPointer for the result.                                        *)
NilCheck(t) ==
  /\ pc[t] = "nilcheck"
  /\ \/ /\ ptr[fld[t]] = Nil
        /\ Decode(t, fld[t], "load")
     \/ /\ ptr[fld[t]] # Nil
        /\ Goto(t, "load")
        /\ UNCHANGED <<shared, locals>>

LoadPointer(t) ==
  /\ pc[t] = "load"
  /\ got' = [got EXCEPT ![t] = ptr[fld[t]]]
  /\ result' = [result EXCEPT ![t] = "ok"]
  /\ Goto(t, "idle")
  /\ UNCHANGED <<shared, op, ret, fld, pos, sized, prefix, form>>

-----------------------------------------------------------------------------
(* Marshal sizes the message first (sizePointerSlow, "size"), and again     *)
(* ("resize") when the size it wrote to the cache did not fit.              *)

(* Mutant: fields stay lazy in every mode.                                  *)
LazyAlways(t) == TRUE

(* An undecoded field is sized and written from its bytes, unless the       *)
(* marshal is deterministic and has to decode it.                           *)
lazyFields(t) == op[t] # "deterministic"

AddSize(t, n) ==
  /\ sized' = [sized EXCEPT ![t] = [sized[t] EXCEPT ![Field(t)] = n]]
  /\ NextField(t)
  /\ UNCHANGED <<shared, pc, op, ret, fld, prefix, form, got, result>>

SizeField(t) ==
  \E l \in {"size", "resize"} :
    /\ AtField(t, l)
    /\ \/ ptr[Field(t)] = Nil /\ lazyFields(t) /\ AddSize(t, RawSize[Field(t)])
       \/ ptr[Field(t)] = Nil /\ ~lazyFields(t) /\ Decode(t, Field(t), l)
       \/ ptr[Field(t)] # Nil /\ AddSize(t, CanonSize[Field(t)])

Cached(contributions) == IF Total(contributions) > MaxCached THEN NoSize ELSE contributions

SizeDone(t) ==
  /\ AtEnd(t, "size")
  /\ sizecache' = Cached(sized[t])
  /\ Goto(t, "prefix")
  /\ UNCHANGED <<ptr, locals>>

WritePrefix(t, contributions) ==
  /\ prefix' = [prefix EXCEPT ![t] = contributions]
  /\ pos' = [pos EXCEPT ![t] = 1]
  /\ Goto(t, "append")
  /\ UNCHANGED <<ptr, op, ret, fld, sized, form, got, result>>

(* Mutant: an empty cache counts as a computed size of 0.                   *)
PrefixNoResize(t) ==
  /\ pc[t] = "prefix"
  /\ WritePrefix(t, IF sizecache = NoSize THEN Zero ELSE sizecache)
  /\ UNCHANGED sizecache

(* appendOpaqueMessage asks sizePointer for the size, with UseCachedSize    *)
(* set: the cache as it is now, whoever wrote it, or a second computation.  *)
Prefix(t) ==
  /\ pc[t] = "prefix"
  /\ \/ sizecache # NoSize /\ WritePrefix(t, sizecache) /\ UNCHANGED sizecache
     \/ /\ sizecache = NoSize
        /\ pos' = [pos EXCEPT ![t] = 1]
        /\ sized' = [sized EXCEPT ![t] = Zero]
        /\ Goto(t, "resize")
        /\ UNCHANGED <<shared, op, ret, fld, prefix, form, got, result>>

ResizeDone(t) ==
  /\ AtEnd(t, "resize")
  /\ sizecache' = Cached(sized[t])
  /\ WritePrefix(t, sized[t])

WriteField(t, how) ==
  /\ form' = [form EXCEPT ![t] = [form[t] EXCEPT ![Field(t)] = how]]
  /\ NextField(t)
  /\ UNCHANGED <<shared, pc, op, ret, fld, sized, prefix, got, result>>

(* marshalAppendPointer, one field.  A deterministic marshal finds no nil   *)
(* pointer here as long as it sized the message itself.                     *)
AppendField(t) ==
  /\ AtField(t, "append")
  /\ \/ ptr[Field(t)] = Nil /\ lazyFields(t) /\ WriteField(t, "raw")
     \/ ptr[Field(t)] = Nil /\ ~lazyFields(t) /\ Decode(t, Field(t), "append")
     \/ ptr[Field(t)] # Nil /\ WriteField(t, "canon")

Written(t) ==
  [f \in Fields |-> CASE form[t][f] = "raw" -> RawSize[f]
                      [] form[t][f] = "canon" -> CanonSize[f]
                      [] OTHER -> 0]

(* The comparison of the prefix with the bytes written, and what marshal    *)
(* does after it: CheckInitialized, unless the caller set AllowPartial.     *)
AppendDone(t) ==
  /\ AtEnd(t, "append")
  /\ \/ /\ Total(prefix[t]) # Total(Written(t))
        /\ result' = [result EXCEPT ![t] = "mismatch"]
        /\ Goto(t, "idle")
        /\ UNCHANGED pos
     \/ /\ Total(prefix[t]) = Total(Written(t))
        /\ result' = [result EXCEPT ![t] = "ok"]
        /\ Goto(t, "idle")
        /\ UNCHANGED pos
     \/ /\ Total(prefix[t]) = Total(Written(t))
        /\ pos' = [pos EXCEPT ![t] = 1]
        /\ Goto(t, "visit")
        /\ UNCHANGED result
  /\ UNCHANGED <<shared, op, ret, fld, sized, prefix, form, got>>

-----------------------------------------------------------------------------
(* mergePointer and checkInitializedPointer visit every field.  Merge       *)
(* decodes it; CheckInitialized decodes it only if Unmarshal was allowed to *)
(* leave it partial, and otherwise passes over an undecoded field.          *)
MustDecode(t) == op[t] = "merge" \/ AllowedPartial

Pass(t) ==
  /\ NextField(t)
  /\ UNCHANGED <<shared, pc, op, ret, fld, sized, prefix, form, got, result>>

(* Mutant: CheckInitialized passes over every undecoded field.              *)
VisitDecoded(t) ==
  /\ AtField(t, "visit")
  /\ \/ ptr[Field(t)] = Nil /\ op[t] = "merge" /\ Decode(t, Field(t), "visit")
     \/ ptr[Field(t)] = Nil /\ op[t] # "merge" /\ Pass(t)
     \/ ptr[Field(t)] # Nil /\ (op[t] = "merge" \/ Field(t) \notin Incomplete) /\ Pass(t)
     \/ /\ ptr[Field(t)] # Nil /\ op[t] # "merge" /\ Field(t) \in Incomplete
        /\ result' = [result EXCEPT ![t] = "missing"]
        /\ Goto(t, "idle")
        /\ UNCHANGED <<shared, op, ret, fld, pos, sized, prefix, form, got>>

VisitField(t) ==
  /\ AtField(t, "visit")
  /\ \/ ptr[Field(t)] = Nil /\ MustDecode(t) /\ Decode(t, Field(t), "visit")
     \/ ptr[Field(t)] = Nil /\ ~MustDecode(t) /\ Pass(t)
     \/ ptr[Field(t)] # Nil /\ (op[t] = "merge" \/ Field(t) \notin Incomplete) /\ Pass(t)
     \/ /\ ptr[Field(t)] # Nil /\ op[t] # "merge" /\ Field(t) \in Incomplete
        /\ result' = [result EXCEPT ![t] = "missing"]
        /\ Goto(t, "idle")
        /\ UNCHANGED <<shared, op, ret, fld, pos, sized, prefix, form, got>>

VisitDone(t) ==
  /\ AtEnd(t, "visit")
  /\ result' = [result EXCEPT ![t] = "ok"]
  /\ Goto(t, "idle")
  /\ UNCHANGED <<shared, op, ret, fld, pos, sized, prefix, form, got>>

-----------------------------------------------------------------------------
Step(t) ==
  \/ Publish(t) \/ NilCheck(t) \/ LoadPointer(t)
  \/ SizeField(t) \/ SizeDone(t) \/ Prefix(t) \/ ResizeDone(t)
  \/ AppendField(t) \/ AppendDone(t)
  \/ VisitField(t) \/ VisitDone(t)

Next == \E t \in Threads :
          Step(t) \/ \E o \in Ops, f \in Fields : (o = "get" \/ f = FieldOrder[1]) /\ Call(t, o, f)

Spec == Init /\ [][Next]_vars

-----------------------------------------------------------------------------
Locations == {"idle", "nilcheck", "load", "publish", "size", "prefix", "resize", "append", "visit"}
Contributions == [Fields -> Nat]
Forms == [Fields -> {"none", "raw", "canon"}]
Results == {"none", "ok", "mismatch", "missing"}

(* Every variable holds a value of its kind: the cache holds a size or is   *)
(* empty, and no loop runs past the end of orderedCoderFields.              *)
TypeOK ==
  /\ ptr \in [Fields -> Threads \cup {Nil}]
  /\ sizecache \in Contributions \cup {NoSize}
  /\ pc \in [Threads -> Locations]
  /\ op \in [Threads -> Ops]
  /\ ret \in [Threads -> {"load", "size", "resize", "append", "visit"}]
  /\ fld \in [Threads -> Fields]
  /\ pos \in [Threads -> 1 .. Last + 1]
  /\ sized \in [Threads -> Contributions]
  /\ prefix \in [Threads -> Contributions]
  /\ form \in [Threads -> Forms]
  /\ got \in [Threads -> Threads \cup {Nil}]
  /\ result \in [Threads -> Results]

(* A getter of a present lazy field never returns nil, and what it returned *)
(* is what every other getter of the field returns, before and after: the   *)
(* goroutine that lost the race to publish does not hand out its own copy.  *)
ReadersAgree ==
  \A t \in Threads : op[t] = "get" /\ result[t] = "ok" => got[t] # Nil /\ got[t] = ptr[fld[t]]

(* A published submessage is never replaced, so that writes made through    *)
(* one getter's result are never lost (lazyUnmarshal).                      *)
NeverReplaced == [][\A f \in Fields : ptr[f] # Nil => ptr'[f] = ptr[f]]_vars

(* Marshal fails with a size mismatch only if some goroutine has decoded a  *)
(* field whose wire encoding was not the one this runtime writes: not by    *)
(* itself, and not because of an overflowing or overwritten size cache.     *)
MismatchNeedsReencoding ==
  \A t \in Threads : result[t] = "mismatch" =>
    \E f \in Fields : ptr[f] # Nil /\ RawSize[f] # CanonSize[f]

(* Deterministic marshals that succeed write the same bytes, whatever other *)
(* goroutines do: every field was decoded and is written canonically.       *)
DeterministicIsCanonical ==
  \A t \in Threads : op[t] = "deterministic" /\ result[t] \in {"ok", "missing"} =>
    form[t] = [f \in Fields |-> "canon"]

(* A deterministic marshal fails only on a length prefix it did not compute *)
(* itself: a size that an ordinary Marshal cached for a field it had found  *)
(* undecoded, and that decoding has changed since.  Deterministic marshals, *)
(* getters, merges and checks never make it fail.                           *)
DeterministicFailsByForeignSize ==
  \A t \in Threads : op[t] = "deterministic" /\ result[t] = "mismatch" =>
    \E f \in Fields : prefix[t][f] = RawSize[f] /\ RawSize[f] # CanonSize[f]

(* After an Unmarshal with AllowPartial, CheckInitialized accepts exactly   *)
(* the messages with nothing missing, decoded or not, however its visits    *)
(* interleave with other goroutines' decoding.                              *)
CheckIsExact ==
  \A t \in Threads : AllowedPartial /\ op[t] = "check" /\ result[t] # "none" =>
    (result[t] = "ok") <=> (Incomplete = {})

(* Lazily decoded fields are what OnceCell promises.                        *)
Once == INSTANCE OnceCell WITH Cells <- Fields, Readers <- Threads, Values <- Threads,
          cell <- ptr, seen <- [t \in Threads |-> IF got[t] = Nil THEN Nil ELSE <<fld[t], got[t]>>]
ImplementsOnceCell == Once!Spec
=============================================================================
