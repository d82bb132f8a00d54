-------------------------- MODULE Presence_proofs --------------------------
(***************************************************************************)
(* Proofs about Presence for any number of fields, word length, goroutines *)
(* and distribution of the fields among them.                              *)
(***************************************************************************)
EXTENDS Presence, TLAPS

(* No two goroutines own fields of one word.                               *)
OwnersSeparate == \A m, n \in Fields : toElem(m) = toElem(n) => Owner[m] = Owner[n]

OwnInv == \A t \in Threads : pc[t] \in {"load", "store"} => num[t] \in Mine(t)

ScanInv == \A t \in Threads :
  /\ pc[t] = "scan" => num[t] \in 0 .. WordCount /\ \A n \in Mine(t) : toElem(n) < num[t] => n \notin intent
  /\ any[t] = FALSE => pc[t] = "idle"

(* What a merge is about to store over is still what it loaded.            *)
Fresh == \A t \in Threads : pc[t] = "store" /\ op[t] = "merge" => old[t] = bitmap[toElem(num[t])]

(* The merges that run are of fields in words without other owners.        *)
MergesPrivate == \A t \in Threads : pc[t] \in {"load", "store"} /\ op[t] = "merge" => Private(num[t])

Core == TypeOK /\ OwnInv /\ NoLostUpdate /\ ScanInv /\ AnyIsExact

-----------------------------------------------------------------------------
(* A field's word exists, its bit fits the word, and the two identify it.  *)
LEMMA Position ==
  ASSUME NEW n \in Fields
  PROVE  toElem(n) \in Words /\ Bit(n) \in 0 .. WordBits - 1
BY SizeAssumption DEF Fields, toElem, Bit, Words, WordCount

LEMMA PositionUnique ==
  ASSUME NEW m \in Fields, NEW n \in Fields, toElem(m) = toElem(n), Bit(m) = Bit(n)
  PROVE  m = n
BY SizeAssumption DEF Fields, toElem, Bit

LEMMA WordCountBound == WordCount \in Nat /\ WordCount <= Size
BY SizeAssumption DEF WordCount

-----------------------------------------------------------------------------
LEMMA InitCore == Init => Core /\ Fresh
<1> SUFFICES ASSUME Init PROVE Core /\ Fresh
  OBVIOUS
<1>1. TypeOK
  BY SizeAssumption DEF Init, TypeOK, WordValues
<1>2. NoLostUpdate
  BY Position DEF Init, NoLostUpdate, Present
<1> QED BY <1>1, <1>2 DEF Core, Fresh, Init, OwnInv, ScanInv, AnyIsExact

(* The store at the end of an operation, the word being the one loaded.    *)
LEMMA StoreStep ==
  ASSUME Core, NEW t \in Threads, pc[t] = "store", Store(t), bitmap[toElem(num[t])] = old[t]
  PROVE  Core'
<1> DEFINE n == num[t]
           w == toElem(n)
<1>1. n \in Mine(t) /\ n \in Fields /\ w \in Words /\ Bit(n) \in 0 .. WordBits - 1
  BY Position DEF Core, OwnInv, Mine
<1>2. /\ bitmap' = [bitmap EXCEPT ![w] = NewWord(t)] /\ intent' = NewIntent(t)
      /\ pc' = [pc EXCEPT ![t] = "idle"] /\ UNCHANGED <<op, num, old, any>>
  BY DEF Store, Goto, locals
<1>t. TypeOK'
  <2>1. NewWord(t) \in WordValues
    BY <1>1 DEF NewWord, Core, TypeOK, WordValues
  <2>2. NewIntent(t) \in SUBSET Fields
    BY <1>1 DEF NewIntent, Core, TypeOK
  <2> QED BY <1>1, <1>2, <2>1, <2>2 DEF Core, TypeOK
<1>i. \A m \in Fields : m # n => (m \in intent' <=> m \in intent)
  BY <1>2 DEF NewIntent
<1>l. NoLostUpdate'
  <2> SUFFICES ASSUME NEW m \in Fields PROVE Bit(m) \in bitmap'[toElem(m)] <=> m \in intent'
    BY DEF NoLostUpdate, Present
  <2>0. Bit(m) \in bitmap[toElem(m)] <=> m \in intent
    BY DEF Core, NoLostUpdate, Present
  <2>1. CASE m = n
    BY <1>1, <1>2, <2>1 DEF Core, TypeOK, NewWord, NewIntent
  <2>2. CASE m # n /\ toElem(m) = w
    <3>1. Bit(m) # Bit(n) BY <1>1, <2>2, PositionUnique
    <3>2. bitmap'[w] = NewWord(t) BY <1>1, <1>2 DEF Core, TypeOK
    <3>3. Bit(m) \in NewWord(t) <=> Bit(m) \in bitmap[w] BY <3>1 DEF NewWord
    <3> QED BY <1>i, <2>0, <2>2, <3>2, <3>3
  <2>3. CASE toElem(m) # w
    <3>1. bitmap'[toElem(m)] = bitmap[toElem(m)] BY <1>2, <2>3, Position DEF Core, TypeOK
    <3> QED BY <1>i, <2>0, <2>3, <3>1
  <2> QED BY <2>1, <2>2, <2>3
<1>o. \A u \in Threads \ {t} : pc'[u] = pc[u] /\ \A m \in Mine(u) : m \in intent' <=> m \in intent
  BY <1>1, <1>2, <1>i DEF Core, TypeOK, Mine
<1>p. pc'[t] = "idle" /\ any[t] # FALSE
  BY <1>2 DEF Core, TypeOK, ScanInv
<1>w. OwnInv'
  BY <1>2, <1>o, <1>p DEF Core, OwnInv, Mine
<1>s. ScanInv'
  BY <1>2, <1>o, <1>p DEF Core, ScanInv, Mine
<1>a. AnyIsExact'
  BY <1>2, <1>o, <1>p DEF Core, AnyIsExact, Mine
<1> QED BY <1>t, <1>l, <1>w, <1>s, <1>a DEF Core

LEMMA CoreStep == Core /\ Fresh /\ [Next]_vars => Core'
<1> SUFFICES ASSUME Core, Fresh, [Next]_vars PROVE Core'
  OBVIOUS
<1>n. UNCHANGED <<bitmap, intent>> => NoLostUpdate'
  BY DEF Core, NoLostUpdate, Present
<1>s. CASE UNCHANGED vars
  BY <1>s, <1>n DEF vars, Core, TypeOK, OwnInv, ScanInv, AnyIsExact, Mine
<1>1. ASSUME NEW t \in Threads, NEW o \in {"set", "clear", "merge"}, NEW n \in Mine(t), Call(t, o, n) PROVE Core'
  <2>1. n \in 0 .. Size /\ Mine(t) \subseteq Fields BY SizeAssumption DEF Mine, Fields
  <2>2. /\ pc' = [pc EXCEPT ![t] = "load"] /\ op' = [op EXCEPT ![t] = o] /\ num' = [num EXCEPT ![t] = n]
        /\ any' = [any EXCEPT ![t] = TRUE] /\ UNCHANGED <<bitmap, old, intent>>
    BY <1>1 DEF Call, Goto
  <2>3. TypeOK' BY <2>1, <2>2 DEF Core, TypeOK
  <2>4. OwnInv' BY <2>2 DEF Core, OwnInv, TypeOK, Mine
  <2>5. ScanInv' /\ AnyIsExact' BY <2>2 DEF Core, ScanInv, AnyIsExact, TypeOK, Mine
  <2> QED BY <1>n, <2>2, <2>3, <2>4, <2>5 DEF Core
<1>2. ASSUME NEW t \in Threads, Load(t) PROVE Core'
  <2>1. num[t] \in Fields BY <1>2 DEF Load, Core, OwnInv, Mine
  <2>2. bitmap[toElem(num[t])] \in WordValues BY <2>1, Position DEF Core, TypeOK
  <2>3. /\ pc[t] = "load" /\ pc' = [pc EXCEPT ![t] = "store"] /\ old' = [old EXCEPT ![t] = bitmap[toElem(num[t])]]
        /\ UNCHANGED <<bitmap, op, num, any, intent>>
    BY <1>2 DEF Load, Goto
  <2>4. TypeOK' BY <2>2, <2>3 DEF Core, TypeOK
  <2>5. OwnInv' BY <2>3 DEF Core, OwnInv, TypeOK, Mine
  <2>6. ScanInv' /\ AnyIsExact' BY <2>3 DEF Core, ScanInv, AnyIsExact, TypeOK, Mine
  <2> QED BY <1>n, <2>3, <2>4, <2>5, <2>6 DEF Core
<1>3. ASSUME NEW t \in Threads, CompareAndSwap(t) PROVE Core'
  <2>1. CASE bitmap[toElem(num[t])] = old[t]
    BY <1>3, <2>1, StoreStep DEF CompareAndSwap
  <2>2. CASE bitmap[toElem(num[t])] # old[t]
    <3>1. pc[t] = "store" /\ pc' = [pc EXCEPT ![t] = "load"] /\ UNCHANGED <<bitmap, op, num, old, any, intent>>
      BY <1>3, <2>2 DEF CompareAndSwap, Goto, locals
    <3>2. TypeOK' BY <3>1 DEF Core, TypeOK
    <3>3. OwnInv' BY <3>1 DEF Core, OwnInv, TypeOK, Mine
    <3>4. ScanInv' /\ AnyIsExact' BY <3>1 DEF Core, ScanInv, AnyIsExact, TypeOK, Mine
    <3> QED BY <1>n, <3>1, <3>2, <3>3, <3>4 DEF Core
  <2> QED BY <2>1, <2>2
<1>4. ASSUME NEW t \in Threads, StoreNonAtomic(t) PROVE Core'
  BY <1>4, StoreStep DEF StoreNonAtomic, Fresh
<1>5. ASSUME NEW t \in Threads, CallAny(t) PROVE Core'
  <2>1. /\ pc' = [pc EXCEPT ![t] = "scan"] /\ num' = [num EXCEPT ![t] = 0]
        /\ any' = [any EXCEPT ![t] = TRUE] /\ UNCHANGED <<bitmap, op, old, intent>>
    BY <1>5 DEF CallAny, Goto
  <2>2. TypeOK' BY <2>1, SizeAssumption DEF Core, TypeOK
  <2>3. OwnInv' BY <2>1 DEF Core, OwnInv, TypeOK, Mine
  <2>4. \A n \in Fields : toElem(n) >= 0 BY Position, WordCountBound DEF Words
  <2>5. ScanInv' BY <2>1, <2>4, WordCountBound, Position DEF Core, ScanInv, TypeOK, Mine, Words
  <2>6. AnyIsExact' BY <2>1 DEF Core, AnyIsExact, TypeOK, Mine
  <2> QED BY <1>n, <2>1, <2>2, <2>3, <2>5, <2>6 DEF Core
<1>6. ASSUME NEW t \in Threads, Scan(t) PROVE Core'
  <2>0. pc[t] = "scan" /\ UNCHANGED <<bitmap, op, old, intent>> /\ num[t] \in 0 .. WordCount
    BY <1>6 DEF Scan, Core, ScanInv
  <2>m. \A n \in Mine(t) : n \in Fields /\ toElem(n) \in Words /\ (n \in intent => bitmap[toElem(n)] # {})
    BY Position DEF Mine, Core, NoLostUpdate, Present
  <2>1. CASE /\ num[t] < WordCount /\ bitmap[num[t]] = {}
             /\ num' = [num EXCEPT ![t] = num[t] + 1] /\ UNCHANGED <<pc, any>>
    <3>1. TypeOK' BY <2>0, <2>1, WordCountBound, SizeAssumption DEF Core, TypeOK
    <3>2. OwnInv' BY <2>0, <2>1 DEF Core, OwnInv, TypeOK, Mine
    <3>3. \A n \in Mine(t) : toElem(n) < num[t] + 1 => n \notin intent
      BY <2>0, <2>1, <2>m, WordCountBound DEF Core, ScanInv, Words
    <3>4. ScanInv' BY <2>0, <2>1, <3>3, WordCountBound DEF Core, ScanInv, TypeOK, Mine
    <3>5. AnyIsExact' BY <2>0, <2>1 DEF Core, AnyIsExact, Mine
    <3> QED BY <1>n, <2>0, <3>1, <3>2, <3>4, <3>5 DEF Core
  <2>2. CASE Goto(t, "idle") /\ num' = [num EXCEPT ![t] = 0] /\ UNCHANGED any
    <3>1. TypeOK' BY <2>0, <2>2, SizeAssumption DEF Core, TypeOK, Goto
    <3>2. OwnInv' BY <2>0, <2>2 DEF Core, OwnInv, TypeOK, Mine, Goto
    <3>3. ScanInv' /\ AnyIsExact' BY <2>0, <2>2 DEF Core, ScanInv, AnyIsExact, TypeOK, Mine, Goto
    <3> QED BY <1>n, <2>0, <3>1, <3>2, <3>3 DEF Core
  <2>3. CASE /\ num[t] = WordCount /\ any' = [any EXCEPT ![t] = FALSE]
             /\ num' = [num EXCEPT ![t] = 0] /\ Goto(t, "idle")
    <3>1. TypeOK' BY <2>0, <2>3, SizeAssumption DEF Core, TypeOK, Goto
    <3>2. OwnInv' BY <2>0, <2>3 DEF Core, OwnInv, TypeOK, Mine, Goto
    <3>3. \A n \in Mine(t) : n \notin intent
      BY <2>0, <2>3, <2>m, WordCountBound DEF Core, ScanInv, Words
    <3>4. ScanInv' BY <2>0, <2>3 DEF Core, ScanInv, TypeOK, Mine, Goto
    <3>5. AnyIsExact' BY <2>0, <2>3, <3>3 DEF Core, AnyIsExact, TypeOK, Mine, Goto
    <3> QED BY <1>n, <2>0, <3>1, <3>2, <3>4, <3>5 DEF Core
  <2> QED BY <1>6, <2>1, <2>2, <2>3 DEF Scan
<1> QED BY <1>s, <1>1, <1>2, <1>3, <1>4, <1>5, <1>6 DEF Next, SetterStep, MergeStep

(* A merge's word stays what it loaded if nobody else writes to it.        *)
LEMMA FreshStep == MergesPrivate /\ Core /\ Fresh /\ [Next]_vars => Fresh'
<1> SUFFICES ASSUME MergesPrivate, Core, Fresh, [Next]_vars,
                    NEW u \in Threads, pc'[u] = "store", op'[u] = "merge"
             PROVE  old'[u] = bitmap'[toElem(num'[u])]
  BY DEF Fresh
<1>s. CASE UNCHANGED vars
  BY <1>s DEF vars, Fresh
<1>1. CASE \E t \in Threads : Load(t)
  BY <1>1 DEF Load, Goto, Core, TypeOK, Fresh
<1>2. CASE \E t \in Threads : pc[t] = "store" /\ Store(t)
  <2>1. PICK t \in Threads : pc[t] = "store" /\ Store(t)
    BY <1>2
  <2>2. /\ bitmap' = [bitmap EXCEPT ![toElem(num[t])] = NewWord(t)]
        /\ pc' = [pc EXCEPT ![t] = "idle"] /\ UNCHANGED <<op, num, old>>
    BY <2>1 DEF Store, Goto, locals
  <2>3. u # t /\ pc[u] = "store"
    BY <2>2 DEF Core, TypeOK
  <2>4. num[t] \in Fields /\ Owner[num[t]] = t /\ num[u] \in Fields /\ Owner[num[u]] = u
    BY <2>1, <2>3 DEF Core, OwnInv, Mine
  <2>5. toElem(num[u]) # toElem(num[t])
    BY <2>2, <2>3, <2>4 DEF MergesPrivate, Private
  <2>6. bitmap'[toElem(num[u])] = bitmap[toElem(num[u])]
    BY <2>2, <2>4, <2>5, Position DEF Core, TypeOK
  <2> QED BY <2>2, <2>3, <2>6 DEF Fresh
<1>3. CASE \E t \in Threads : pc'[t] # "store" /\ pc' = [pc EXCEPT ![t] = pc'[t]] /\ UNCHANGED bitmap
                              /\ num' = [num EXCEPT ![t] = num'[t]] /\ op' = [op EXCEPT ![t] = op'[t]] /\ UNCHANGED old
  BY <1>3 DEF Core, TypeOK, Fresh
<1>4. ASSUME NEW t \in Threads, NEW o, NEW n, Call(t, o, n) PROVE <1>3!1
  BY <1>4 DEF Call, Goto, Core, TypeOK
<1>5. ASSUME NEW t \in Threads, CallAny(t) \/ Scan(t) PROVE <1>3!1
  BY <1>5 DEF CallAny, Scan, Goto, Core, TypeOK
<1>6. ASSUME NEW t \in Threads, CompareAndSwap(t), bitmap[toElem(num[t])] # old[t] PROVE <1>3!1
  BY <1>6 DEF CompareAndSwap, Goto, Core, TypeOK, locals
<1> QED
  BY <1>s, <1>1, <1>2, <1>3, <1>4, <1>5, <1>6 DEF Next, SetterStep, MergeStep, CompareAndSwap, StoreNonAtomic

-----------------------------------------------------------------------------
LEMMA PrivateStep == Core /\ MergesPrivate /\ [SafeNext]_vars => MergesPrivate'
<1> SUFFICES ASSUME Core, MergesPrivate, [SafeNext]_vars,
                    NEW u \in Threads, pc'[u] \in {"load", "store"}, op'[u] = "merge"
             PROVE  Private(num'[u])
  BY DEF MergesPrivate
<1>1. CASE UNCHANGED vars
  BY <1>1 DEF vars, MergesPrivate, Private
<1>2. ASSUME NEW t \in Threads, NEW o \in {"set", "clear"}, NEW n \in Mine(t), Call(t, o, n)
      PROVE  Private(num'[u])
  BY <1>2 DEF Call, Goto, Core, TypeOK, MergesPrivate, Private
<1>3. ASSUME NEW t \in Threads, NEW n \in Mine(t), Private(n), Call(t, "merge", n)
      PROVE  Private(num'[u])
  BY <1>3 DEF Call, Goto, Core, TypeOK, MergesPrivate, Private
<1>4. ASSUME NEW t \in Threads, Load(t) \/ CompareAndSwap(t) \/ StoreNonAtomic(t)
      PROVE  Private(num'[u])
  BY <1>4 DEF Load, CompareAndSwap, StoreNonAtomic, Store, locals, Goto, Core, TypeOK, MergesPrivate, Private
<1>5. ASSUME NEW t \in Threads, CallAny(t) \/ Scan(t)
      PROVE  Private(num'[u])
  BY <1>5 DEF CallAny, Scan, Goto, Core, TypeOK, MergesPrivate, Private
<1> QED BY <1>1, <1>2, <1>3, <1>4, <1>5 DEF SafeNext, SetterStep, PrivateMergeStep

-----------------------------------------------------------------------------
(* With setters and clearers of any fields, and merges of fields in words  *)
(* that have one owner, everything that is claimed of the bitmap holds.    *)
THEOREM SafeCore == SafeSpec => []Core
<1>1. Init => MergesPrivate
  BY DEF Init, MergesPrivate
<1>2. [SafeNext]_vars => [Next]_vars
  BY DEF SafeNext, Next, PrivateMergeStep, MergeStep
<1> QED BY <1>1, <1>2, InitCore, CoreStep, FreshStep, PrivateStep, PTL DEF SafeSpec

(* Types are respected by the operations on the bitmap.                    *)
THEOREM TypeCorrect == SafeSpec => []TypeOK
BY SafeCore, PTL DEF Core

(* Setters and clearers of different fields lose no update, nor do merges  *)
(* of fields in words that have one owner.                                 *)
THEOREM NoUpdateLost == SafeSpec => []NoLostUpdate
BY SafeCore, PTL DEF Core

(* AnyPresent overlooks none of the fields its caller has set.             *)
THEOREM AnyCorrect == SafeSpec => []AnyIsExact
BY SafeCore, PTL DEF Core

(* All merges are safe when no word has two owners.                        *)
THEOREM SeparateMergesSafe == OwnersSeparate /\ Spec => []NoLostUpdate
<1>1. SUFFICES ASSUME OwnersSeparate PROVE Spec => []NoLostUpdate
  OBVIOUS
<1>2. \A t \in Threads : \A n \in Mine(t) : Private(n)
  BY <1>1 DEF OwnersSeparate, Private, Mine
<1>3. [Next]_vars => [SafeNext]_vars
  BY <1>2 DEF SafeNext, Next, PrivateMergeStep, MergeStep
<1>4. Spec => SafeSpec
  BY <1>3, PTL DEF Spec, SafeSpec
<1> QED BY <1>4, NoUpdateLost
=============================================================================
