------------------------------ MODULE Presence ------------------------------
(***************************************************************************)
(* The presence bitmap of an opaque message, shared by goroutines that     *)
(* each work on fields of their own (internal/impl/presence.go and         *)
(* api_export_opaque.go).                                                  *)
(*                                                                         *)
(* Fields share words.  Generated setters and clearers load the word and   *)
(* compare-and-swap it until they succeed; mergePointer sets the bit with  *)
(* SetPresentNonAtomic, a plain load and a plain store.                    *)
(***************************************************************************)
EXTENDS Naturals, FiniteSets

CONSTANTS Size,      \* presenceSize: the number of fields with a bit
          WordBits,  \* bits in a word of the bitmap (32)
          Threads,   \* goroutines
          Owner      \* [field |-> the goroutine that sets and clears it]

Fields == 0 .. Size - 1

ASSUME SizeAssumption == Size \in Nat \ {0} /\ WordBits \in Nat \ {0}
ASSUME OwnerAssumption == Owner \in [Fields -> Threads]

(* The word and the bit of a field.                                         *)
toElem(n) == n \div WordBits
Bit(n) == n % WordBits
WordCount == (Size + WordBits - 1) \div WordBits
Words == 0 .. WordCount - 1
WordValues == SUBSET (0 .. WordBits - 1)

VARIABLES
  bitmap,  \* [word |-> the set of its bits that are 1]
  pc, op,  \* per goroutine: where it is, the operation it runs
  num,     \* per goroutine: the field it works on, or the word AnyPresent is at
  old,     \* per goroutine: the word it loaded
  any,     \* per goroutine: what AnyPresent last returned
  intent   \* ghost: the fields whose last completed operation set them

locals == <<op, num, old, any>>
vars == <<bitmap, pc, op, num, old, any, intent>>

Init ==
  /\ bitmap = [w \in Words |-> {}]
  /\ pc = [t \in Threads |-> "idle"]
  /\ op = [t \in Threads |-> "set"]
  /\ num = [t \in Threads |-> 0]
  /\ old = [t \in Threads |-> {}]
  /\ any = [t \in Threads |-> TRUE]
  /\ intent = {}

Goto(t, l) == pc' = [pc EXCEPT ![t] = l]
Present(n) == Bit(n) \in bitmap[toElem(n)]
Mine(t) == {n \in Fields : Owner[n] = t}

(* A setter, a clearer or a merge of the goroutine's own field n begins.    *)
Call(t, o, n) ==
  /\ pc[t] = "idle"
  /\ Goto(t, "load")
  /\ op' = [op EXCEPT ![t] = o]
  /\ num' = [num EXCEPT ![t] = n]
  /\ any' = [any EXCEPT ![t] = TRUE]
  /\ UNCHANGED <<bitmap, old, intent>>

Load(t) ==
  /\ pc[t] = "load"
  /\ old' = [old EXCEPT ![t] = bitmap[toElem(num[t])]]
  /\ Goto(t, "store")
  /\ UNCHANGED <<bitmap, op, num, any, intent>>

NewWord(t) ==
  IF op[t] = "clear" THEN old[t] \ {Bit(num[t])} ELSE old[t] \cup {Bit(num[t])}
NewIntent(t) ==
  IF op[t] = "clear" THEN intent \ {num[t]} ELSE intent \cup {num[t]}

Store(t) ==
  /\ bitmap' = [bitmap EXCEPT ![toElem(num[t])] = NewWord(t)]
  /\ intent' = NewIntent(t)
  /\ Goto(t, "idle")
  /\ UNCHANGED locals

(* Mutant: the word is stored without comparing it with the loaded one.     *)
StoreBlindly(t) ==
  /\ pc[t] = "store" /\ op[t] \in {"set", "clear"}
  /\ Store(t)

(* SetPresent and ClearPresent: CompareAndSwapUint32, and back to the load  *)
(* if the word has changed.                                                 *)
CompareAndSwap(t) ==
  /\ pc[t] = "store" /\ op[t] \in {"set", "clear"}
  /\ \/ bitmap[toElem(num[t])] = old[t] /\ Store(t)
     \/ /\ bitmap[toElem(num[t])] # old[t]
        /\ Goto(t, "load")
        /\ UNCHANGED <<bitmap, locals, intent>>

(* SetPresentNonAtomic, called by mergePointer.                             *)
StoreNonAtomic(t) ==
  /\ pc[t] = "store" /\ op[t] = "merge"
  /\ Store(t)

-----------------------------------------------------------------------------
(* AnyPresent loads the words one after the other.                          *)
CallAny(t) ==
  /\ pc[t] = "idle"
  /\ Goto(t, "scan")
  /\ num' = [num EXCEPT ![t] = 0]
  /\ any' = [any EXCEPT ![t] = TRUE]
  /\ UNCHANGED <<bitmap, op, old, intent>>

(* Mutant: the last, partly used word is not looked at.                     *)
ScanFullWords(t) ==
  /\ pc[t] = "scan"
  /\ \/ /\ num[t] < Size \div WordBits /\ bitmap[num[t]] = {}
        /\ num' = [num EXCEPT ![t] = num[t] + 1]
        /\ UNCHANGED <<pc, any>>
     \/ /\ num[t] < Size \div WordBits /\ bitmap[num[t]] # {}
        /\ Goto(t, "idle")
        /\ num' = [num EXCEPT ![t] = 0]
        /\ UNCHANGED any
     \/ /\ num[t] = Size \div WordBits
        /\ any' = [any EXCEPT ![t] = FALSE]
        /\ num' = [num EXCEPT ![t] = 0]
        /\ Goto(t, "idle")
  /\ UNCHANGED <<bitmap, op, old, intent>>

Scan(t) ==
  /\ pc[t] = "scan"
  /\ \/ /\ num[t] < WordCount /\ bitmap[num[t]] = {}
        /\ num' = [num EXCEPT ![t] = num[t] + 1]
        /\ UNCHANGED <<pc, any>>
     \/ /\ num[t] < WordCount /\ bitmap[num[t]] # {}
        /\ Goto(t, "idle")
        /\ num' = [num EXCEPT ![t] = 0]
        /\ UNCHANGED any
     \/ /\ num[t] = WordCount
        /\ any' = [any EXCEPT ![t] = FALSE]
        /\ num' = [num EXCEPT ![t] = 0]
        /\ Goto(t, "idle")
  /\ UNCHANGED <<bitmap, op, old, intent>>

-----------------------------------------------------------------------------
SetterStep(t) ==
  \/ \E o \in {"set", "clear"}, n \in Mine(t) : Call(t, o, n)
  \/ Load(t) \/ CompareAndSwap(t)
  \/ CallAny(t) \/ Scan(t)
(* Merges of any field of the goroutine's own, or only of fields in words   *)
(* that no other goroutine writes.                                          *)
MergeStep(t) == (\E n \in Mine(t) : Call(t, "merge", n)) \/ StoreNonAtomic(t)
Private(n) == \A m \in Fields : toElem(m) = toElem(n) => Owner[m] = Owner[n]
PrivateMergeStep(t) ==
  \/ \E n \in Mine(t) : Private(n) /\ Call(t, "merge", n)
  \/ StoreNonAtomic(t)

(* With every merge, and with those merges that share no word.              *)
Next == \E t \in Threads : SetterStep(t) \/ MergeStep(t)
SafeNext == \E t \in Threads : SetterStep(t) \/ PrivateMergeStep(t)

Spec == Init /\ [][Next]_vars
SafeSpec == Init /\ [][SafeNext]_vars

-----------------------------------------------------------------------------
(* Every variable holds a value of its kind; no bit outside a word is set.  *)
TypeOK ==
  /\ bitmap \in [Words -> WordValues]
  /\ pc \in [Threads -> {"idle", "load", "store", "scan"}]
  /\ op \in [Threads -> {"set", "clear", "merge"}]
  /\ num \in [Threads -> 0 .. Size]
  /\ old \in [Threads -> WordValues]
  /\ any \in [Threads -> BOOLEAN]
  /\ intent \in SUBSET Fields

(* The bitmap says of every field what its owner last made of it, whatever  *)
(* the owners of the other fields in the word do at the same time.          *)
NoLostUpdate == \A n \in Fields : Present(n) <=> n \in intent

(* AnyPresent denies that anything is present only to a goroutine none of   *)
(* whose own fields is set, however the words change while it looks.        *)
AnyIsExact ==
  \A t \in Threads : any[t] = FALSE /\ pc[t] = "idle" => \A n \in Mine(t) : n \notin intent
=============================================================================
