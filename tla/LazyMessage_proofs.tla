------------------------ MODULE LazyMessage_proofs ------------------------
(***************************************************************************)
(* Proofs about LazyMessage for any fields, sizes and goroutines.  Inv is  *)
(* the inductive invariant: besides the types it says, for each goroutine, *)
(* what the part of the message it has gone through so far looks like, in  *)
(* terms that the decoding done by other goroutines cannot disturb.        *)
(***************************************************************************)
EXTENDS LazyMessage, TLAPS

(* Where the goroutine is, or will be when it has published a field.       *)
Loc(t) == IF pc[t] = "publish" THEN ret[t] ELSE pc[t]

Passed(t) == {FieldOrder[i] : i \in {j \in 1 .. Last : j < pos[t]}}

(* A recorded size is that of the field's bytes, or, once the field is     *)
(* decoded, that of its encoding.                                          *)
Accounted(c, f) == c[f] = RawSize[f] \/ (ptr[f] # Nil /\ c[f] = CanonSize[f])

(* A getter is about to load only when the field is decoded; what it got   *)
(* is what is published.                                                   *)
GetInv(t) ==
  /\ op[t] = "get" => pc[t] \in {"idle", "nilcheck", "publish", "load"} /\ (pc[t] = "publish" => ret[t] = "load")
  /\ op[t] # "get" => Loc(t) \notin {"nilcheck", "load"} /\ got[t] = Nil
  /\ pc[t] = "load" => ptr[fld[t]] # Nil
  /\ got[t] # Nil => pc[t] = "idle" /\ result[t] = "ok" /\ got[t] = ptr[fld[t]]
  /\ op[t] = "get" /\ result[t] = "ok" => got[t] # Nil
  /\ pc[t] # "idle" => result[t] = "none"

SizeInv(t) ==
  Loc(t) \in {"size", "resize"} => \A f \in Passed(t) : Accounted(sized[t], f)

AppendInv(t) ==
  Loc(t) = "append" =>
    /\ \A f \in Fields : Accounted(prefix[t], f)
    /\ \A f \in Passed(t) : form[t][f] = "raw" \/ (form[t][f] = "canon" /\ ptr[f] # Nil)

(* A deterministic marshal leaves every field it has sized decoded.        *)
DetInv(t) ==
  op[t] = "deterministic" =>
    /\ Loc(t) = "size" => \A f \in Passed(t) : ptr[f] # Nil
    /\ Loc(t) \in {"prefix", "resize", "append"} => \A f \in Fields : ptr[f] # Nil
    /\ Loc(t) = "append" => \A f \in Passed(t) : form[t][f] = "canon"
    /\ Loc(t) = "visit" \/ result[t] \in {"ok", "missing"} => form[t] = [f \in Fields |-> "canon"]

(* A mismatch is explained by a field that was re-encoded and, in a        *)
(* deterministic marshal, by a raw size in the prefix.                     *)
MismatchInv(t) ==
  result[t] = "mismatch" =>
    /\ \E f \in Fields : ptr[f] # Nil /\ RawSize[f] # CanonSize[f]
    /\ op[t] = "deterministic" => \E f \in Fields : prefix[t][f] = RawSize[f] /\ RawSize[f] # CanonSize[f]

(* A check of a partial message has passed over complete fields only.      *)
CheckInv(t) ==
  AllowedPartial /\ op[t] = "check" =>
    /\ Loc(t) \in {"idle", "visit"}
    /\ Loc(t) = "visit" => \A f \in Passed(t) : f \notin Incomplete
    /\ result[t] # "none" => ((result[t] = "ok") <=> (Incomplete = {}))

CacheInv == sizecache # NoSize => \A f \in Fields : Accounted(sizecache, f)

ThreadInv(t) == GetInv(t) /\ SizeInv(t) /\ AppendInv(t) /\ DetInv(t) /\ MismatchInv(t)

Inv == TypeOK /\ CacheInv /\ \A t \in Threads : ThreadInv(t)

(* What a step leaves alone.                                               *)
Monotone == \A f \in Fields : ptr[f] # Nil => ptr'[f] = ptr[f]
SameLocals(u) ==
  /\ pc'[u] = pc[u] /\ op'[u] = op[u] /\ ret'[u] = ret[u] /\ fld'[u] = fld[u] /\ pos'[u] = pos[u]
  /\ sized'[u] = sized[u] /\ prefix'[u] = prefix[u] /\ form'[u] = form[u]
  /\ got'[u] = got[u] /\ result'[u] = result[u]
CallOp(t) == \E o \in Ops, f \in Fields : Call(t, o, f)

-----------------------------------------------------------------------------
(* The position of a goroutine inside a loop names a field.                *)
LEMMA FieldType ==
  ASSUME TypeOK, NEW t \in Threads, pos[t] <= Last
  PROVE  Field(t) \in Fields /\ pos[t] \in 1 .. Last
BY OrderAssumption DEF TypeOK, Field, Last

(* Every field has been passed at the end of a loop.                       *)
LEMMA PassedAll ==
  ASSUME TypeOK, NEW t \in Threads, pos[t] > Last, NEW f \in Fields
  PROVE  f \in Passed(t)
<1>1. PICK i \in DOMAIN FieldOrder : FieldOrder[i] = f
  BY OrderAssumption
<1>2. i \in 1 .. Last /\ i < pos[t]
  BY OrderAssumption DEF TypeOK, Last
<1> QED BY <1>1, <1>2 DEF Passed

LEMMA PassedAreFields ==
  ASSUME TypeOK, NEW t \in Threads PROVE Passed(t) \subseteq Fields
BY OrderAssumption DEF Passed, Last

(* Advancing passes exactly the current field; starting over passes none.  *)
LEMMA PassedNext ==
  ASSUME TypeOK, NEW t \in Threads, pos[t] <= Last, pos'[t] = pos[t] + 1, NEW f \in Passed(t)'
  PROVE  f \in Passed(t) \/ f = Field(t)
BY DEF Passed, Field, TypeOK, Last

LEMMA PassedNone ==
  ASSUME NEW t \in Threads, pos'[t] = 1 PROVE Passed(t)' = {}
BY DEF Passed

LEMMA PassedSame ==
  ASSUME NEW t \in Threads, pos'[t] = pos[t] PROVE Passed(t)' = Passed(t)
BY DEF Passed

-----------------------------------------------------------------------------
(* The types.                                                              *)
LEMMA InitType == Init => TypeOK
BY OrderAssumption, NilAssumption DEF Init, TypeOK, Ops, Locations, Zero, Unwritten, Contributions, Forms, Results, Last

LEMMA TypeStep == TypeOK /\ [Next]_vars => TypeOK'
<1> SUFFICES ASSUME TypeOK, [Next]_vars PROVE TypeOK'
  OBVIOUS
<1> USE SizeAssumption, NilAssumption, OrderAssumption
<1>s. CASE UNCHANGED vars
  BY <1>s DEF vars, TypeOK
<1>c. ASSUME NEW t \in Threads, CallOp(t) PROVE TypeOK'
  <2>1. PICK o \in Ops, f \in Fields : Call(t, o, f)
    BY <1>c DEF CallOp
  <2>2. Zero \in Contributions /\ Unwritten \in Forms /\ 1 \in 1 .. Last + 1
    BY DEF Zero, Unwritten, Contributions, Forms, Last
  <2>3. pc' \in [Threads -> Locations]
    BY <2>1 DEF Call, Goto, TypeOK, Locations, Ops
  <2>4. UNCHANGED <<ptr, sizecache, ret>>
    BY <2>1 DEF Call, shared
  <2> QED BY <2>1, <2>2, <2>3, <2>4 DEF Call, TypeOK, Results
<1>d. ASSUME NEW t \in Threads, NEW f \in Fields, NEW l \in {"load", "size", "resize", "append", "visit"},
             Decode(t, f, l)
      PROVE  TypeOK'
  BY <1>d DEF Decode, Goto, TypeOK, Locations, shared
<1>n. ASSUME NEW t \in Threads, pos[t] <= Last PROVE pos[t] + 1 \in 1 .. Last + 1
  BY <1>n DEF TypeOK, Last
<1>1. ASSUME NEW t \in Threads, Publish(t) PROVE TypeOK'
  BY <1>1 DEF Publish, Goto, TypeOK, Locations, locals
<1>2. ASSUME NEW t \in Threads, NilCheck(t) PROVE TypeOK'
  <2>1. fld[t] \in Fields BY DEF TypeOK
  <2>2. CASE Decode(t, fld[t], "load") BY <2>1, <2>2, <1>d
  <2>3. CASE Goto(t, "load") /\ UNCHANGED <<shared, locals>>
    BY <2>3 DEF Goto, TypeOK, Locations, shared, locals
  <2> QED BY <1>2, <2>2, <2>3 DEF NilCheck
<1>3. ASSUME NEW t \in Threads, LoadPointer(t) PROVE TypeOK'
  BY <1>3 DEF LoadPointer, Goto, TypeOK, Locations, Results, shared
<1>4. ASSUME NEW t \in Threads, SizeField(t) PROVE TypeOK'
  <2>1. PICK l \in {"size", "resize"} : SizeField(t)!(l)
    BY <1>4 DEF SizeField
  <2>2. Field(t) \in Fields /\ pos[t] + 1 \in 1 .. Last + 1
    BY <2>1, FieldType, <1>n DEF AtField
  <2>3. ASSUME NEW n \in Nat, AddSize(t, n) PROVE TypeOK'
    <3>1. [sized[t] EXCEPT ![Field(t)] = n] \in Contributions
      BY <2>2 DEF TypeOK, Contributions
    <3> QED BY <2>2, <2>3, <3>1 DEF AddSize, NextField, TypeOK, shared
  <2>4. RawSize[Field(t)] \in Nat /\ CanonSize[Field(t)] \in Nat
    BY <2>2
  <2> QED BY <2>1, <2>2, <2>3, <2>4, <1>d
<1>5. ASSUME NEW t \in Threads, SizeDone(t) PROVE TypeOK'
  <2>1. Cached(sized[t]) \in Contributions \cup {NoSize} BY DEF Cached, TypeOK
  <2> QED BY <1>5, <2>1 DEF SizeDone, Goto, TypeOK, Locations, locals
<1>w. ASSUME NEW t \in Threads, NEW c \in Contributions, WritePrefix(t, c), sizecache' \in Contributions \cup {NoSize}
      PROVE TypeOK'
  BY <1>w DEF WritePrefix, Goto, TypeOK, Locations, Last
<1>6. ASSUME NEW t \in Threads, Prefix(t) PROVE TypeOK'
  <2>1. CASE sizecache # NoSize /\ WritePrefix(t, sizecache) /\ UNCHANGED sizecache
    BY <2>1, <1>w DEF TypeOK
  <2>2. CASE /\ pos' = [pos EXCEPT ![t] = 1]
             /\ sized' = [sized EXCEPT ![t] = Zero]
             /\ Goto(t, "resize")
             /\ UNCHANGED <<shared, op, ret, fld, prefix, form, got, result>>
    <3>1. Zero \in Contributions /\ 1 \in 1 .. Last + 1 BY DEF Zero, Contributions, Last
    <3> QED BY <2>2, <3>1 DEF Goto, TypeOK, Locations, shared
  <2> QED BY <1>6, <2>1, <2>2 DEF Prefix
<1>7. ASSUME NEW t \in Threads, ResizeDone(t) PROVE TypeOK'
  <2>1. Cached(sized[t]) \in Contributions \cup {NoSize} /\ sized[t] \in Contributions BY DEF Cached, TypeOK
  <2> QED BY <1>7, <2>1, <1>w DEF ResizeDone
<1>8. ASSUME NEW t \in Threads, AppendField(t) PROVE TypeOK'
  <2>2. Field(t) \in Fields /\ pos[t] + 1 \in 1 .. Last + 1
    BY <1>8, FieldType, <1>n DEF AppendField, AtField
  <2>3. ASSUME NEW how \in {"raw", "canon"}, WriteField(t, how) PROVE TypeOK'
    <3>1. [form[t] EXCEPT ![Field(t)] = how] \in Forms
      BY <2>2 DEF TypeOK, Forms
    <3> QED BY <2>2, <2>3, <3>1 DEF WriteField, NextField, TypeOK, shared
  <2> QED BY <1>8, <2>2, <2>3, <1>d DEF AppendField
<1>9. ASSUME NEW t \in Threads, AppendDone(t) PROVE TypeOK'
  <2>1. /\ pc' \in [Threads -> Locations] /\ result' \in [Threads -> Results] /\ pos' \in [Threads -> 1 .. Last + 1]
        /\ UNCHANGED <<shared, op, ret, fld, sized, prefix, form, got>>
    <3>1. 1 \in 1 .. Last + 1 BY DEF Last
    <3> QED BY <1>9, <3>1 DEF AppendDone, Goto, TypeOK, Locations, Results
  <2> QED BY <2>1 DEF TypeOK, shared
<1>10. ASSUME NEW t \in Threads, VisitField(t) PROVE TypeOK'
  <2>2. Field(t) \in Fields /\ pos[t] + 1 \in 1 .. Last + 1
    BY <1>10, FieldType, <1>n DEF VisitField, AtField
  <2>3. CASE Pass(t)
    BY <2>2, <2>3 DEF Pass, NextField, TypeOK, shared
  <2>4. CASE result' = [result EXCEPT ![t] = "missing"] /\ Goto(t, "idle")
             /\ UNCHANGED <<shared, op, ret, fld, pos, sized, prefix, form, got>>
    BY <2>4 DEF Goto, TypeOK, Locations, Results, shared
  <2> QED BY <1>10, <2>2, <2>3, <2>4, <1>d DEF VisitField
<1>11. ASSUME NEW t \in Threads, VisitDone(t) PROVE TypeOK'
  BY <1>11 DEF VisitDone, Goto, TypeOK, Locations, Results, shared
<1> QED
  BY <1>s, <1>c, <1>1, <1>2, <1>3, <1>4, <1>5, <1>6, <1>7, <1>8, <1>9, <1>10, <1>11 DEF Next, Step, CallOp

(* Types are respected by every step of the calls modelled.                *)
THEOREM TypeCorrect == Spec => []TypeOK
BY InitType, TypeStep, PTL DEF Spec

-----------------------------------------------------------------------------
(* A step changes the locals of one goroutine and replaces no pointer.     *)
LEMMA StepShape ==
  ASSUME TypeOK, NEW t \in Threads, CallOp(t) \/ Step(t)
  PROVE  Monotone /\ \A u \in Threads \ {t} : SameLocals(u)
<1>d. ASSUME NEW f, NEW l, Decode(t, f, l) PROVE Monotone /\ \A u \in Threads \ {t} : SameLocals(u)
  BY <1>d DEF Decode, Goto, TypeOK, shared, Monotone, SameLocals
<1>c. CASE CallOp(t)
  BY <1>c DEF CallOp, Call, Goto, TypeOK, shared, Monotone, SameLocals
<1>1. CASE Publish(t)
  <2>1. Monotone BY <1>1 DEF Publish, TypeOK, Monotone
  <2> QED BY <1>1, <2>1 DEF Publish, Goto, TypeOK, locals, SameLocals
<1>2. CASE NilCheck(t)
  BY <1>2, <1>d DEF NilCheck, Goto, TypeOK, shared, locals, Monotone, SameLocals
<1>3. CASE LoadPointer(t)
  BY <1>3 DEF LoadPointer, Goto, TypeOK, shared, Monotone, SameLocals
<1>4. CASE SizeField(t)
  BY <1>4, <1>d DEF SizeField, AddSize, NextField, TypeOK, shared, Monotone, SameLocals
<1>5. CASE SizeDone(t)
  BY <1>5 DEF SizeDone, Goto, TypeOK, locals, Monotone, SameLocals
<1>6. CASE Prefix(t)
  BY <1>6 DEF Prefix, WritePrefix, Goto, TypeOK, shared, Monotone, SameLocals
<1>7. CASE ResizeDone(t)
  BY <1>7 DEF ResizeDone, WritePrefix, Goto, TypeOK, Monotone, SameLocals
<1>8. CASE AppendField(t)
  BY <1>8, <1>d DEF AppendField, WriteField, NextField, TypeOK, shared, Monotone, SameLocals
<1>9. CASE AppendDone(t)
  BY <1>9 DEF AppendDone, Goto, TypeOK, shared, Monotone, SameLocals
<1>10. CASE VisitField(t)
  BY <1>10, <1>d DEF VisitField, Pass, NextField, Goto, TypeOK, shared, Monotone, SameLocals
<1>11. CASE VisitDone(t)
  BY <1>11 DEF VisitDone, Goto, TypeOK, shared, Monotone, SameLocals
<1> QED BY <1>c, <1>1, <1>2, <1>3, <1>4, <1>5, <1>6, <1>7, <1>8, <1>9, <1>10, <1>11 DEF Step

(* What is said of a goroutine survives the steps of the others.           *)
LEMMA OthersKeep ==
  ASSUME TypeOK, Monotone, NEW u \in Threads, SameLocals(u), ThreadInv(u)
  PROVE  ThreadInv(u)'
<1>p. Passed(u)' = Passed(u) /\ Loc(u)' = Loc(u) /\ Passed(u) \subseteq Fields
  BY PassedSame, PassedAreFields DEF SameLocals, Loc
<1>1. GetInv(u)'
  BY <1>p DEF ThreadInv, GetInv, Monotone, SameLocals, TypeOK
<1>2. SizeInv(u)'
  BY <1>p DEF ThreadInv, SizeInv, Monotone, SameLocals, Accounted
<1>3. AppendInv(u)'
  BY <1>p DEF ThreadInv, AppendInv, Monotone, SameLocals, Accounted
<1>4. DetInv(u)'
  BY <1>p DEF ThreadInv, DetInv, Monotone, SameLocals
<1>5. MismatchInv(u)'
  BY DEF ThreadInv, MismatchInv, Monotone, SameLocals
<1> QED BY <1>1, <1>2, <1>3, <1>4, <1>5 DEF ThreadInv

(* The cached size stays accounted for, whoever overwrites it.             *)
LEMMA CacheStep ==
  ASSUME Inv, NEW t \in Threads, CallOp(t) \/ Step(t), Monotone
  PROVE  CacheInv'
<1>1. CASE UNCHANGED sizecache
  BY <1>1 DEF Inv, CacheInv, Monotone, Accounted
<1>2. CASE sizecache' = Cached(sized[t]) /\ AtEnd(t, pc[t]) /\ pc[t] \in {"size", "resize"}
  <2>1. \A f \in Fields : f \in Passed(t)
    BY <1>2, PassedAll DEF Inv, AtEnd
  <2>2. \A f \in Fields : Accounted(sized[t], f)
    BY <1>2, <2>1 DEF Inv, ThreadInv, SizeInv, Loc
  <2> QED BY <1>2, <2>2 DEF Cached, CacheInv, Accounted, Monotone
<1> QED
  BY <1>1, <1>2 DEF CallOp, Step, Call, Publish, NilCheck, Decode, LoadPointer, SizeField, AddSize, SizeDone, Prefix,
     ResizeDone, AppendField, WriteField, AppendDone, VisitField, Pass, VisitDone, AtEnd, shared, locals

-----------------------------------------------------------------------------
(* The goroutine that takes the step keeps what is said of it.  A branch   *)
(* to lazyUnmarshal changes none of it.                                    *)
LEMMA DecodeKeeps ==
  ASSUME Inv, NEW t \in Threads, NEW f \in Fields, NEW l, Decode(t, f, l),
         \/ l = pc[t] /\ l \in {"size", "resize", "append", "visit"}
         \/ l = "load" /\ pc[t] = "nilcheck"
  PROVE  ThreadInv(t)'
<1>1. /\ pc'[t] = "publish" /\ ret'[t] = l /\ UNCHANGED <<ptr, sizecache, op, pos, sized, prefix, form, got, result>>
  BY DEF Decode, Goto, Inv, TypeOK, shared
<1>2. Passed(t)' = Passed(t) /\ Loc(t)' = l /\ Loc(t) = pc[t]
  BY <1>1, PassedSame DEF Loc
<1>3. GetInv(t)'
  BY <1>1, <1>2 DEF Inv, ThreadInv, GetInv
<1>4. SizeInv(t)' /\ AppendInv(t)'
  BY <1>1, <1>2 DEF Inv, ThreadInv, SizeInv, AppendInv, Accounted
<1>5. DetInv(t)' /\ MismatchInv(t)'
  BY <1>1, <1>2 DEF Inv, ThreadInv, DetInv, MismatchInv
<1> QED BY <1>3, <1>4, <1>5 DEF ThreadInv

LEMMA OwnStep ==
  ASSUME Inv, NEW t \in Threads, CallOp(t) \/ Step(t), TypeOK', Monotone, CacheInv'
  PROVE  ThreadInv(t)'
<1> USE DEF Inv
<1>c. CASE CallOp(t)
  <2>1. PICK o \in Ops, f \in Fields : Call(t, o, f)
    BY <1>c DEF CallOp
  <2>2. /\ pc'[t] = CASE o = "get" -> "nilcheck" [] o \in {"merge", "check"} -> "visit" [] OTHER -> "size"
        /\ op'[t] = o /\ pos'[t] = 1 /\ got'[t] = Nil /\ result'[t] = "none"
    BY <2>1 DEF Call, Goto, TypeOK
  <2>3. Passed(t)' = {}
    BY <2>2, PassedNone
  <2>4. pc'[t] \in {"nilcheck", "visit", "size"} /\ (pc'[t] = "nilcheck" <=> o = "get")
        /\ (pc'[t] = "visit" <=> o \in {"merge", "check"})
    BY <2>2 DEF Ops
  <2>5. GetInv(t)' BY <2>2, <2>4 DEF GetInv, Loc
  <2>6. SizeInv(t)' /\ AppendInv(t)' BY <2>3, <2>4 DEF SizeInv, AppendInv, Loc
  <2>7. DetInv(t)' /\ MismatchInv(t)' BY <2>2, <2>3, <2>4 DEF DetInv, MismatchInv, Loc
  <2> QED BY <2>5, <2>6, <2>7 DEF ThreadInv
<1>1. CASE Publish(t)
  <2>1. /\ ptr'[fld[t]] # Nil /\ pc'[t] = ret[t] /\ pc[t] = "publish"
        /\ UNCHANGED <<op, ret, fld, pos, sized, prefix, form, got, result>>
    BY <1>1, NilAssumption DEF Publish, Goto, TypeOK, locals
  <2>2. Passed(t)' = Passed(t) /\ Loc(t)' = Loc(t) /\ Passed(t) \subseteq Fields
    BY <2>1, PassedSame, PassedAreFields DEF Loc, TypeOK
  <2>3. GetInv(t)' BY <2>1, <2>2 DEF ThreadInv, GetInv, TypeOK, Monotone, Loc
  <2>4. SizeInv(t)' BY <2>1, <2>2 DEF ThreadInv, SizeInv, Accounted, Monotone
  <2>5. AppendInv(t)' BY <2>1, <2>2 DEF ThreadInv, AppendInv, Accounted, Monotone
  <2>6. DetInv(t)' /\ MismatchInv(t)' BY <2>1, <2>2 DEF ThreadInv, DetInv, MismatchInv, Monotone
  <2> QED BY <2>3, <2>4, <2>5, <2>6 DEF ThreadInv
<1>2. CASE NilCheck(t)
  <2>1. CASE Decode(t, fld[t], "load")
    BY <1>2, <2>1, DecodeKeeps DEF NilCheck, TypeOK
  <2>2. CASE ptr[fld[t]] # Nil /\ Goto(t, "load") /\ UNCHANGED <<shared, locals>>
    <3>1. pc'[t] = "load" /\ pc[t] = "nilcheck" /\ UNCHANGED <<ptr, op, ret, fld, pos, sized, prefix, form, got, result>>
      BY <1>2, <2>2 DEF NilCheck, Goto, TypeOK, shared, locals
    <3>2. GetInv(t)' BY <2>2, <3>1 DEF ThreadInv, GetInv, Loc
    <3> QED BY <3>1, <3>2 DEF ThreadInv, SizeInv, AppendInv, DetInv, MismatchInv, Loc
  <2> QED BY <1>2, <2>1, <2>2 DEF NilCheck
<1>3. CASE LoadPointer(t)
  <2>1. /\ pc'[t] = "idle" /\ pc[t] = "load" /\ got'[t] = ptr[fld[t]] /\ result'[t] = "ok" /\ op[t] = "get"
        /\ UNCHANGED <<ptr, op, ret, fld, pos, sized, prefix, form>>
    BY <1>3 DEF LoadPointer, Goto, TypeOK, shared, ThreadInv, GetInv, Loc
  <2>2. GetInv(t)' BY <2>1 DEF ThreadInv, GetInv, Loc
  <2> QED BY <2>1, <2>2 DEF ThreadInv, SizeInv, AppendInv, DetInv, MismatchInv, Loc
<1>4. CASE SizeField(t)
  <2>1. PICK l \in {"size", "resize"} : SizeField(t)!(l)
    BY <1>4 DEF SizeField
  <2>2. Field(t) \in Fields /\ pc[t] = l /\ pos[t] <= Last
    BY <2>1, FieldType DEF AtField
  <2>3. ASSUME NEW n, AddSize(t, n), n = RawSize[Field(t)] \/ (ptr[Field(t)] # Nil /\ n = CanonSize[Field(t)]),
               ptr[Field(t)] # Nil \/ op[t] # "deterministic"
        PROVE ThreadInv(t)'
    <3>1. /\ pos'[t] = pos[t] + 1 /\ sized'[t] = [sized[t] EXCEPT ![Field(t)] = n]
          /\ UNCHANGED <<ptr, pc, op, ret, fld, prefix, form, got, result>>
      BY <2>3 DEF AddSize, NextField, TypeOK, shared
    <3>2. \A f \in Passed(t)' : (f \in Passed(t) \/ f = Field(t)) /\ f \in Fields
      BY <2>2, <3>1, PassedNext, PassedAreFields
    <3>3. GetInv(t)' BY <3>1 DEF ThreadInv, GetInv, Loc
    <3>4. SizeInv(t)'
      BY <2>2, <2>3, <3>1, <3>2, ZenonT(60) DEF ThreadInv, SizeInv, Loc, Accounted, TypeOK, Contributions
    <3>5. AppendInv(t)' BY <2>2, <3>1 DEF AppendInv, Loc
    <3>6. DetInv(t)' /\ MismatchInv(t)'
      BY <2>2, <2>3, <3>1, <3>2 DEF ThreadInv, DetInv, MismatchInv, Loc
    <3> QED BY <3>3, <3>4, <3>5, <3>6 DEF ThreadInv
  <2>4. CASE Decode(t, Field(t), l)
    BY <2>2, <2>4, DecodeKeeps
  <2> QED BY <2>1, <2>3, <2>4 DEF lazyFields
<1>5. CASE SizeDone(t)
  <2>1. /\ pc'[t] = "prefix" /\ pc[t] = "size" /\ pos[t] > Last
        /\ UNCHANGED <<ptr, op, ret, fld, pos, sized, prefix, form, got, result>>
    BY <1>5 DEF SizeDone, AtEnd, Goto, TypeOK, locals
  <2>2. \A f \in Fields : f \in Passed(t)
    BY <2>1, PassedAll
  <2>3. GetInv(t)' BY <2>1 DEF ThreadInv, GetInv, Loc
  <2>4. DetInv(t)' BY <2>1, <2>2 DEF ThreadInv, GetInv, DetInv, Loc
  <2> QED BY <2>1, <2>3, <2>4 DEF ThreadInv, SizeInv, AppendInv, MismatchInv, Loc
<1>w. ASSUME NEW c, WritePrefix(t, c), \A f \in Fields : Accounted(c, f), pc[t] \in {"prefix", "resize"}
      PROVE  ThreadInv(t)'
  <2>1. /\ pc'[t] = "append" /\ prefix'[t] = c /\ pos'[t] = 1
        /\ UNCHANGED <<ptr, op, ret, fld, sized, form, got, result>>
    BY <1>w DEF WritePrefix, Goto, TypeOK
  <2>2. Passed(t)' = {}
    BY <2>1, PassedNone
  <2>3. GetInv(t)' BY <1>w, <2>1 DEF ThreadInv, GetInv, Loc
  <2>4. DetInv(t)' BY <1>w, <2>1, <2>2 DEF ThreadInv, GetInv, DetInv, Loc
  <2>5. AppendInv(t)' BY <1>w, <2>1, <2>2 DEF AppendInv, Accounted
  <2>6. MismatchInv(t)' BY <1>w, <2>1 DEF ThreadInv, GetInv, MismatchInv
  <2> QED BY <2>1, <2>3, <2>4, <2>5, <2>6 DEF ThreadInv, SizeInv, Loc
<1>6. CASE Prefix(t)
  <2>1. CASE sizecache # NoSize /\ WritePrefix(t, sizecache)
    BY <1>6, <2>1, <1>w DEF CacheInv, Prefix
  <2>2. CASE /\ pos' = [pos EXCEPT ![t] = 1]
             /\ sized' = [sized EXCEPT ![t] = Zero]
             /\ Goto(t, "resize")
             /\ UNCHANGED <<shared, op, ret, fld, prefix, form, got, result>>
    <3>1. /\ pc'[t] = "resize" /\ pc[t] = "prefix" /\ pos'[t] = 1
          /\ UNCHANGED <<ptr, op, ret, fld, prefix, form, got, result>>
      BY <1>6, <2>2 DEF Prefix, Goto, TypeOK, shared
    <3>2. Passed(t)' = {}
      BY <3>1, PassedNone
    <3>3. GetInv(t)' BY <3>1 DEF ThreadInv, GetInv, Loc
    <3>4. DetInv(t)' BY <3>1, <3>2 DEF ThreadInv, GetInv, DetInv, Loc
    <3> QED BY <3>1, <3>2, <3>3, <3>4 DEF ThreadInv, SizeInv, AppendInv, MismatchInv, Loc
  <2> QED BY <1>6, <2>1, <2>2 DEF Prefix
<1>7. CASE ResizeDone(t)
  <2>1. WritePrefix(t, sized[t]) /\ pc[t] = "resize" /\ pos[t] > Last
    BY <1>7 DEF ResizeDone, AtEnd
  <2>2. \A f \in Fields : f \in Passed(t)
    BY <2>1, PassedAll
  <2>3. \A f \in Fields : Accounted(sized[t], f)
    BY <2>1, <2>2 DEF ThreadInv, SizeInv, Loc
  <2> QED BY <2>1, <2>3, <1>w
<1>8. CASE AppendField(t)
  <2>2. Field(t) \in Fields /\ pc[t] = "append" /\ pos[t] <= Last
    BY <1>8, FieldType DEF AppendField, AtField
  <2>3. ASSUME NEW how, WriteField(t, how), how = "raw" \/ (ptr[Field(t)] # Nil /\ how = "canon"),
               how = "canon" \/ op[t] # "deterministic"
        PROVE ThreadInv(t)'
    <3>1. /\ pos'[t] = pos[t] + 1 /\ form'[t] = [form[t] EXCEPT ![Field(t)] = how]
          /\ UNCHANGED <<ptr, pc, op, ret, fld, sized, prefix, got, result>>
      BY <2>3 DEF WriteField, NextField, TypeOK, shared
    <3>2. \A f \in Passed(t)' : (f \in Passed(t) \/ f = Field(t)) /\ f \in Fields
      BY <2>2, <3>1, PassedNext, PassedAreFields
    <3>3. GetInv(t)' BY <3>1 DEF ThreadInv, GetInv, Loc
    <3>4. AppendInv(t)'
      <4>1. \A f \in Fields : Accounted(prefix[t], f)'
        BY <2>2, <3>1 DEF ThreadInv, AppendInv, Loc, Accounted
      <4>2. \A f \in Passed(t)' : form'[t][f] = "raw" \/ (form'[t][f] = "canon" /\ ptr'[f] # Nil)
        <5>1. \A f \in Passed(t) : form[t][f] = "raw" \/ (form[t][f] = "canon" /\ ptr[f] # Nil)
          BY <2>2 DEF ThreadInv, AppendInv, Loc
        <5>2. form[t] \in [Fields -> {"none", "raw", "canon"}]
          BY DEF TypeOK, Forms
        <5> QED BY <2>2, <2>3, <3>1, <3>2, <5>1, <5>2
      <4> QED BY <4>1, <4>2 DEF AppendInv
    <3>5. SizeInv(t)' BY <2>2, <3>1 DEF SizeInv, Loc
    <3>6. result[t] = "none" BY <2>2 DEF ThreadInv, GetInv
    <3>7. DetInv(t)'
      <4> SUFFICES ASSUME op[t] = "deterministic" PROVE DetInv(t)'
        BY <3>1 DEF DetInv
      <4>1. (\A f \in Fields : ptr[f] # Nil) /\ \A f \in Passed(t) : form[t][f] = "canon"
        BY <2>2 DEF ThreadInv, DetInv, Loc
      <4>2. form[t] \in [Fields -> {"none", "raw", "canon"}]
        BY DEF TypeOK, Forms
      <4>3. \A f \in Passed(t)' : form'[t][f] = "canon"
        BY <2>2, <2>3, <3>1, <3>2, <4>1, <4>2
      <4>4. Loc(t)' = "append" /\ result'[t] = "none"
        BY <2>2, <3>1, <3>6 DEF Loc
      <4> QED BY <3>1, <4>1, <4>3, <4>4 DEF DetInv
    <3>8. MismatchInv(t)' BY <3>1, <3>6 DEF MismatchInv
    <3> QED BY <3>3, <3>4, <3>5, <3>7, <3>8 DEF ThreadInv
  <2>4. CASE Decode(t, Field(t), "append")
    BY <2>2, <2>4, DecodeKeeps
  <2> QED BY <1>8, <2>3, <2>4 DEF AppendField, lazyFields
<1>9. CASE AppendDone(t)
  <2> DEFINE a == Total(prefix[t])
             b == Total(Written(t))
  <2>a. /\ pc[t] = "append" /\ pos[t] > Last
        /\ \/ a # b /\ result' = [result EXCEPT ![t] = "mismatch"] /\ pc' = [pc EXCEPT ![t] = "idle"]
           \/ result' = [result EXCEPT ![t] = "ok"] /\ pc' = [pc EXCEPT ![t] = "idle"]
           \/ result' = result /\ pc' = [pc EXCEPT ![t] = "visit"]
        /\ UNCHANGED <<ptr, op, ret, fld, sized, prefix, form, got>>
    BY <1>9, Zenon DEF AppendDone, AtEnd, Goto, shared
  <2> HIDE DEF a, b
  <2>1. /\ pc[t] = "append" /\ pos[t] > Last /\ pc'[t] \in {"idle", "visit"}
        /\ (pc'[t] = "visit" => result'[t] = result[t]) /\ (pc'[t] = "idle" => result'[t] \in {"ok", "mismatch"})
        /\ UNCHANGED <<ptr, op, ret, fld, sized, prefix, form, got>>
        /\ (result'[t] = "mismatch" => result[t] = "mismatch" \/ a # b)
    BY <2>a DEF TypeOK
  <2>2. \A f \in Fields : f \in Passed(t)
    BY <2>1, PassedAll
  <2>3. result[t] = "none" /\ op[t] # "get" BY <2>1 DEF ThreadInv, GetInv
  <2>4. GetInv(t)' BY <2>1, <2>3 DEF ThreadInv, GetInv, Loc
  <2>5. DetInv(t)'
    <3>1. op[t] = "deterministic" => form[t] = [f \in Fields |-> "canon"]
      BY <2>1, <2>2 DEF ThreadInv, DetInv, Loc, TypeOK, Forms
    <3> QED BY <2>1, <3>1 DEF DetInv, Loc
  <2>6. a # b => \E f \in Fields : ptr[f] # Nil /\ RawSize[f] # CanonSize[f]
    <3>1. SUFFICES ASSUME a # b, \A f \in Fields : ptr[f] = Nil \/ RawSize[f] = CanonSize[f]
                   PROVE  FALSE
      OBVIOUS
    <3>2. \A f \in Fields : prefix[t][f] = RawSize[f]
      BY <2>1, <3>1 DEF ThreadInv, AppendInv, Loc, Accounted
    <3>3. \A f \in Fields : Written(t)[f] = RawSize[f]
      BY <2>1, <2>2, <3>1 DEF ThreadInv, AppendInv, Loc, Written
    <3>4. prefix[t] = Written(t)
      BY <3>2, <3>3 DEF TypeOK, Contributions, Written
    <3> QED BY <3>1, <3>4 DEF a, b
  <2>7. a # b /\ op[t] = "deterministic" => \E f \in Fields : prefix[t][f] = RawSize[f] /\ RawSize[f] # CanonSize[f]
    <3>1. SUFFICES ASSUME a # b, op[t] = "deterministic",
                          \A f \in Fields : prefix[t][f] # RawSize[f] \/ RawSize[f] = CanonSize[f]
                   PROVE  FALSE
      OBVIOUS
    <3>2. \A f \in Fields : prefix[t][f] = CanonSize[f]
      BY <2>1, <3>1 DEF ThreadInv, AppendInv, Loc, Accounted
    <3>3. \A f \in Fields : Written(t)[f] = CanonSize[f]
      BY <2>1, <2>2, <3>1 DEF ThreadInv, DetInv, Loc, Written
    <3>4. prefix[t] = Written(t)
      BY <3>2, <3>3 DEF TypeOK, Contributions, Written
    <3> QED BY <3>1, <3>4 DEF a, b
  <2>8. MismatchInv(t)'
    BY <2>1, <2>3, <2>6, <2>7 DEF MismatchInv
  <2> QED BY <2>1, <2>4, <2>5, <2>8 DEF ThreadInv, SizeInv, AppendInv, Loc
<1>v. ASSUME pc[t] = "visit", pc'[t] \in {"visit", "idle"}, pc'[t] = "visit" => result'[t] = result[t],
             result'[t] \in {"ok", "missing", "none"},
             UNCHANGED <<ptr, op, ret, fld, sized, prefix, form, got>>
      PROVE  ThreadInv(t)'
  <2>1. GetInv(t)' BY <1>v DEF ThreadInv, GetInv, Loc
  <2>2. DetInv(t)' BY <1>v DEF ThreadInv, DetInv, Loc
  <2> QED BY <1>v, <2>1, <2>2 DEF ThreadInv, SizeInv, AppendInv, MismatchInv, Loc
<1>10. CASE VisitField(t)
  <2>1. Field(t) \in Fields /\ pc[t] = "visit"
    BY <1>10, FieldType DEF VisitField, AtField
  <2>2. CASE Decode(t, Field(t), "visit")
    BY <2>1, <2>2, DecodeKeeps
  <2>3. CASE Pass(t)
    <3>1. result[t] = "none" BY <2>1 DEF ThreadInv, GetInv
    <3> QED BY <2>1, <2>3, <3>1, <1>v DEF Pass, shared
  <2>4. CASE result' = [result EXCEPT ![t] = "missing"] /\ Goto(t, "idle")
             /\ UNCHANGED <<shared, op, ret, fld, pos, sized, prefix, form, got>>
    BY <2>1, <2>4, <1>v DEF Goto, TypeOK, shared
  <2> QED BY <1>10, <2>2, <2>3, <2>4 DEF VisitField
<1>11. CASE VisitDone(t)
  BY <1>11, <1>v DEF VisitDone, AtEnd, Goto, TypeOK, shared
<1> QED BY <1>c, <1>1, <1>2, <1>3, <1>4, <1>5, <1>6, <1>7, <1>8, <1>9, <1>10, <1>11 DEF Step

-----------------------------------------------------------------------------
LEMMA InitInv == Init => Inv
<1> SUFFICES ASSUME Init PROVE Inv
  OBVIOUS
<1>1. TypeOK BY InitType
<1>2. CacheInv BY DEF Init, CacheInv
<1>3. ASSUME NEW t \in Threads PROVE ThreadInv(t)
  BY DEF Init, ThreadInv, GetInv, SizeInv, AppendInv, DetInv, MismatchInv, Loc
<1> QED BY <1>1, <1>2, <1>3 DEF Inv

LEMMA InvStep == Inv /\ [Next]_vars => Inv'
<1> SUFFICES ASSUME Inv, [Next]_vars PROVE Inv'
  OBVIOUS
<1>0. TypeOK'
  BY TypeStep DEF Inv
<1>1. CASE UNCHANGED vars
  <2>1. Monotone /\ \A u \in Threads : SameLocals(u) BY <1>1 DEF vars, Monotone, SameLocals
  <2>2. CacheInv' BY <1>1 DEF vars, Inv, CacheInv, Accounted
  <2> QED BY <1>0, <2>1, <2>2, OthersKeep DEF Inv
<1>2. ASSUME NEW t \in Threads, CallOp(t) \/ Step(t) PROVE Inv'
  <2>1. Monotone /\ \A u \in Threads \ {t} : SameLocals(u)
    BY <1>2, StepShape DEF Inv
  <2>2. CacheInv' BY <1>2, <2>1, CacheStep
  <2>3. ThreadInv(t)' BY <1>0, <1>2, <2>1, <2>2, OwnStep
  <2>4. \A u \in Threads \ {t} : ThreadInv(u)' BY <2>1, OthersKeep DEF Inv
  <2> QED BY <1>0, <2>2, <2>3, <2>4 DEF Inv
<1> QED BY <1>1, <1>2 DEF Next, CallOp

THEOREM Invariance == Spec => []Inv
BY InitInv, InvStep, PTL DEF Spec

(* Getters of one field agree with each other and never return nil.        *)
THEOREM GettersAgree == Spec => []ReadersAgree
<1>1. Inv => ReadersAgree
  BY DEF Inv, ThreadInv, GetInv, ReadersAgree
<1> QED BY <1>1, Invariance, PTL

(* No published submessage is ever replaced.                               *)
THEOREM PublishedOnce == Spec => NeverReplaced
<1>1. TypeOK /\ [Next]_vars => [\A f \in Fields : ptr[f] # Nil => ptr'[f] = ptr[f]]_vars
  BY StepShape DEF Next, CallOp, Monotone
<1> QED BY <1>1, TypeCorrect, PTL DEF Spec, NeverReplaced

(* Marshal reports a mismatch only after some field was re-encoded.        *)
THEOREM MismatchExplained == Spec => []MismatchNeedsReencoding
<1>1. Inv => MismatchNeedsReencoding
  BY DEF Inv, ThreadInv, MismatchInv, MismatchNeedsReencoding
<1> QED BY <1>1, Invariance, PTL

(* Successful deterministic marshals write every field canonically.        *)
THEOREM DeterministicSame == Spec => []DeterministicIsCanonical
<1>1. Inv => DeterministicIsCanonical
  BY DEF Inv, ThreadInv, DetInv, DeterministicIsCanonical
<1> QED BY <1>1, Invariance, PTL

(* Deterministic marshals fail only by a raw size in their length prefix.  *)
THEOREM DeterministicFailureExplained == Spec => []DeterministicFailsByForeignSize
<1>1. Inv => DeterministicFailsByForeignSize
  BY DEF Inv, ThreadInv, MismatchInv, DeterministicFailsByForeignSize
<1> QED BY <1>1, Invariance, PTL

(* What is said of a check is kept by every step.                          *)
LEMMA CheckStep ==
  ASSUME Inv, NEW t \in Threads, CallOp(t) \/ Step(t), CheckInv(t)
  PROVE  CheckInv(t)'
<1> SUFFICES ASSUME AllowedPartial, op'[t] = "check" PROVE CheckInv(t)'
  BY DEF CheckInv
<1> USE DEF Inv
<1>c. CASE CallOp(t)
  <2>1. PICK o \in Ops, f \in Fields : Call(t, o, f)
    BY <1>c DEF CallOp
  <2>2. o = "check" /\ pos'[t] = 1 /\ result'[t] = "none" /\ pc'[t] = "visit"
    BY <2>1 DEF Call, Goto, TypeOK
  <2> QED BY <2>2, PassedNone DEF CheckInv, Loc
<1>s. ASSUME Step(t), op[t] = "check"
      PROVE  \/ Publish(t) /\ ret[t] = "visit" /\ pc[t] = "publish"
             \/ VisitField(t) \/ VisitDone(t)
  <2>1. (pc[t] = "publish" /\ ret[t] = "visit") \/ pc[t] \in {"idle", "visit"}
    BY <1>s DEF CheckInv, Loc, TypeOK
  <2>2. \/ Publish(t) /\ pc[t] = "publish"
        \/ VisitField(t) \/ VisitDone(t)
        \/ pc[t] \in {"nilcheck", "load", "size", "prefix", "resize", "append"}
    BY <1>s, Zenon DEF Step, Publish, NilCheck, LoadPointer, SizeField, SizeDone, Prefix, ResizeDone,
       AppendField, AppendDone, AtField, AtEnd
  <2>3. CASE VisitField(t) \/ VisitDone(t) BY <2>3
  <2>4. CASE Publish(t) /\ pc[t] = "publish" BY <2>1, <2>4
  <2>5. CASE pc[t] \in {"nilcheck", "load", "size", "prefix", "resize", "append"} BY <2>1, <2>5
  <2> QED BY <2>2, <2>3, <2>4, <2>5
<1>1. CASE Publish(t) /\ ret[t] = "visit" /\ pc[t] = "publish" /\ op[t] = "check"
  <2>1. pc'[t] = "visit" /\ UNCHANGED <<op, pos, result>>
    BY <1>1 DEF Publish, Goto, TypeOK, locals
  <2> QED BY <1>1, <2>1, PassedSame DEF CheckInv, Loc
<1>2. CASE VisitField(t) /\ op[t] = "check"
  <2>1. Field(t) \in Fields /\ pc[t] = "visit" /\ pos[t] <= Last
    BY <1>2, FieldType DEF VisitField, AtField
  <2>2. result[t] = "none"
    BY <2>1 DEF ThreadInv, GetInv
  <2>3. CASE Decode(t, Field(t), "visit")
    <3>1. pc'[t] = "publish" /\ ret'[t] = "visit" /\ UNCHANGED <<pos, result>>
      BY <2>3 DEF Decode, Goto, TypeOK
    <3> QED BY <1>2, <2>1, <3>1, PassedSame DEF CheckInv, Loc
  <2>4. CASE Pass(t) /\ Field(t) \notin Incomplete
    <3>1. pos'[t] = pos[t] + 1 /\ UNCHANGED <<pc, ret, result>>
      BY <2>4 DEF Pass, NextField, TypeOK
    <3> QED BY <1>2, <2>1, <2>2, <2>4, <3>1, PassedNext DEF CheckInv, Loc
  <2>5. CASE Field(t) \in Incomplete /\ result' = [result EXCEPT ![t] = "missing"] /\ Goto(t, "idle")
    <3>1. pc'[t] = "idle" /\ result'[t] = "missing" /\ Incomplete # {}
      BY <2>5 DEF Goto, TypeOK
    <3> QED BY <3>1 DEF CheckInv, Loc
  <2>6. MustDecode(t) /\ op[t] # "merge"
    BY <1>2 DEF MustDecode
  <2> QED BY <1>2, <2>3, <2>4, <2>5, <2>6 DEF VisitField
<1>3. CASE VisitDone(t) /\ op[t] = "check"
  <2>1. pc[t] = "visit" /\ pos[t] > Last /\ pc'[t] = "idle" /\ result'[t] = "ok"
    BY <1>3 DEF VisitDone, AtEnd, Goto, TypeOK
  <2>2. \A f \in Fields : f \notin Incomplete
    BY <1>3, <2>1, PassedAll DEF CheckInv, Loc
  <2> QED BY <2>1, <2>2, PartialAssumption DEF CheckInv, Loc
<1>o. op'[t] = op[t] \/ CallOp(t)
  BY DEF Step, Publish, NilCheck, Decode, LoadPointer, SizeField, AddSize, SizeDone, Prefix, WritePrefix, ResizeDone,
     AppendField, WriteField, AppendDone, VisitField, Pass, VisitDone, locals
<1> QED BY <1>c, <1>s, <1>1, <1>2, <1>3, <1>o

(* CheckInitialized of a partial message answers exactly.                  *)
THEOREM ChecksExact == Spec => []CheckIsExact
<1> DEFINE AllChecks == \A t \in Threads : CheckInv(t)
<1>1. Init => AllChecks
  BY DEF Init, CheckInv
<1>2. Inv /\ AllChecks /\ [Next]_vars => AllChecks'
  <2> SUFFICES ASSUME Inv, AllChecks, [Next]_vars, NEW u \in Threads PROVE CheckInv(u)'
    OBVIOUS
  <2>1. CASE SameLocals(u)
    BY <2>1, PassedSame DEF SameLocals, CheckInv, Loc
  <2>2. CASE UNCHANGED vars
    BY <2>1, <2>2 DEF vars, SameLocals
  <2>3. CASE Next
    BY <2>1, <2>3, StepShape, CheckStep DEF Next, CallOp, Inv
  <2> QED BY <2>2, <2>3
<1>3. AllChecks => CheckIsExact
  BY DEF CheckInv, CheckIsExact
<1> QED BY <1>1, <1>2, <1>3, Invariance, PTL DEF Spec

(* The lazily decoded fields implement OnceCell.                           *)
THEOREM Refinement == Spec => ImplementsOnceCell
<1>1. Init => Once!Init
  BY DEF Init, Once!Init
<1>2. Inv /\ [Next]_vars => [Once!Next]_(Once!vars)
  <2> SUFFICES ASSUME Inv, [Next]_vars PROVE [Once!Next]_(Once!vars)
    OBVIOUS
  <2> DEFINE seen == [t \in Threads |-> IF got[t] = Nil THEN Nil ELSE <<fld[t], got[t]>>]
  <2>1. CASE UNCHANGED vars
    BY <2>1 DEF vars, Once!vars
  <2>2. ASSUME NEW t \in Threads, CallOp(t) PROVE [Once!Next]_(Once!vars)
    <3>1. ptr' = ptr /\ got'[t] = Nil /\ \A u \in Threads \ {t} : SameLocals(u)
      BY <2>2, StepShape DEF Inv, CallOp, Call, shared, TypeOK
    <3>2. seen' = [seen EXCEPT ![t] = Nil]
      BY <3>1 DEF SameLocals
    <3> QED BY <3>1, <3>2 DEF Once!Next, Once!Forget, Once!vars
  <2>3. ASSUME NEW t \in Threads, Publish(t) PROVE [Once!Next]_(Once!vars)
    <3>1. seen' = seen
      BY <2>3 DEF Publish, locals
    <3>2. CASE ptr[fld[t]] = Nil
      <4>1. ptr' = [ptr EXCEPT ![fld[t]] = t] /\ fld[t] \in Fields
        BY <2>3, <3>2 DEF Publish, Inv, TypeOK
      <4> QED BY <3>1, <3>2, <4>1 DEF Once!Next, Once!Fill, Once!vars
    <3>3. CASE ptr[fld[t]] # Nil
      <4>1. ptr' = ptr
        BY <2>3, <3>3 DEF Publish, Inv, TypeOK
      <4> QED BY <3>1, <4>1 DEF Once!vars
    <3> QED BY <3>2, <3>3
  <2>4. ASSUME NEW t \in Threads, LoadPointer(t) PROVE [Once!Next]_(Once!vars)
    <3>1. ptr' = ptr /\ fld' = fld /\ got' = [got EXCEPT ![t] = ptr[fld[t]]] /\ ptr[fld[t]] # Nil /\ fld[t] \in Fields
      BY <2>4 DEF LoadPointer, shared, Inv, ThreadInv, GetInv, TypeOK
    <3>2. seen' = [seen EXCEPT ![t] = <<fld[t], ptr[fld[t]]>>]
      BY <3>1 DEF Inv, TypeOK
    <3> QED BY <3>1, <3>2 DEF Once!Next, Once!Read, Once!vars
  <2>5. ASSUME NEW t \in Threads, Step(t), ~Publish(t), ~LoadPointer(t) PROVE [Once!Next]_(Once!vars)
    <3>1. ptr' = ptr /\ got' = got /\ pc[t] # "idle"
      BY <2>5 DEF Step, NilCheck, Decode, SizeField, AddSize, SizeDone, Prefix, WritePrefix, ResizeDone, AppendField, WriteField,
         AppendDone, VisitField, Pass, VisitDone, AtField, AtEnd, shared, locals
    <3>2. got[t] = Nil /\ \A u \in Threads \ {t} : fld'[u] = fld[u]
      BY <2>5, <3>1, StepShape DEF Inv, ThreadInv, GetInv, SameLocals
    <3>3. seen' = seen
      BY <3>1, <3>2
    <3> QED BY <3>1, <3>3 DEF Once!vars
  <2> QED BY <2>1, <2>2, <2>3, <2>4, <2>5 DEF Next, CallOp
<1> QED BY <1>1, <1>2, Invariance, PTL DEF Spec, ImplementsOnceCell, Once!Spec
=============================================================================
