-------------------------- MODULE TypeInit_proofs --------------------------
(***************************************************************************)
(* Proofs about TypeInit, for any files, message types, extension types,   *)
(* goroutines and calls, as long as files do not import each other in a    *)
(* cycle.                                                                  *)
(*                                                                         *)
(* The invariant is about the lists of instructions.  Before says which    *)
(* instruction may stand anywhere before which: a goroutine that is        *)
(* initializing f has, in front of the instructions that end this, only    *)
(* work on files that f depends on.  Pending says which instructions a     *)
(* list must still have behind a given one, and Prepared what must be      *)
(* made, or be about to be made, when an instruction is reached.  Each     *)
(* mutex is held by the goroutine that still has its unlocking, but not    *)
(* its locking, in its list.                                               *)
(***************************************************************************)
EXTENDS TypeInit, SequenceTheorems, WellFoundedInduction, TLAPS

FileSteps == {"lazyInit", "lockFile", "rawInit", "resolved", "storeOnce"}
Reads     == {"RLock", "RUnlock"}

(* Instructions that are met at the front of a list only. *)
First == {"lockFile", "init", "lockInit", "lockNeeds", "TypeDescriptor", "lazyInitExtension",
          "lockExtension", "Locked"}

(* a may stand before b: by what b is. *)
FileBefore(a, b) ==
  /\ b.op = "rawInit" => a = I("lockFile", b.on)
  /\ b.op \in {"resolved", "storeOnce"} =>
       \/ a.op \in Reads
       \/ a.op \in FileSteps /\ a.on \in Dependencies(b.on)
       \/ b.op = "storeOnce" /\ a.op \in {"lockFile", "rawInit", "resolved"} /\ a.on = b.on

TypeBefore(a, b) ==
  /\ b.op = "unlockNeeds" =>
       a.op \in {"lockNeeds", "explore", "storeVerdict"} \cup FileSteps \cup Reads
  /\ b.op = "initOnce" => a.op = "lockInit"
  /\ b.op = "unlockInit" => a.op \notin {"init", "lockInit", "initOnce", "unlockInit"}
  /\ b.op = "lazyInitSlow" => a.op = "lockExtension"
  /\ b.op = "unlockExtension" => a.op \notin {"TypeDescriptor", "lazyInitExtension", "unlockExtension"}

GlobalBefore(a, b) ==
  /\ a.op \in {"Lock", "Locked"} => b.op = "Unlock"
  /\ a.op # "Unlock"

Before(a, b) ==
  /\ b.op \notin First
  /\ FileBefore(a, b) /\ TypeBefore(a, b) /\ GlobalBefore(a, b)

Ordered(s) == \A i, j \in 1 .. Len(s) : i < j => Before(s[i], s[j])

(* What a list still has after the instruction a. *)
After(a) ==
  CASE a.op = "lockFile" -> {I("rawInit", a.on), I("storeOnce", a.on)}
    [] a.op \in {"rawInit", "resolved"} -> {I("storeOnce", a.on)}
    [] a.op = "lockInit" -> {I("initOnce", a.on)}
    [] a.op = "lockNeeds" -> {I("unlockNeeds", a.on)}
    [] a.op = "lockExtension" -> {I("unlockExtension", a.on)}
    [] a.op \in {"Lock", "Locked"} -> {I("Unlock", None)}
    [] OTHER -> {}

Pending(s) == \A i \in 1 .. Len(s) : \A b \in After(s[i]) :
                \E j \in 1 .. Len(s) : i < j /\ s[j] = b

(* What the instruction op relies on, when that is made, and which          *)
(* instructions make it.                                                    *)
Wants(op) ==
  CASE op = "useFile" -> {"once"}
    [] op = "storeOnce" -> {"contents"}
    [] op = "useMessage" -> {"tables"}
    [] op = "useDescriptor" -> {"descriptor"}
    [] op = "useConverter" -> {"converter"}
    [] op = "storeFull" -> {"descriptor", "converter"}
    [] OTHER -> {}

Made(k, on) ==
  CASE k = "once" -> once[on]
    [] k = "contents" -> L2[on] = "full"
    [] k = "tables" -> initDone[on]
    [] k = "descriptor" -> desc[on]
    [] k = "converter" -> conv[on] \/ on \in Incomplete

Makers(k) ==
  CASE k = "once" -> {"lazyInit", "storeOnce"}
    [] k = "contents" -> {"rawInit", "resolved"}
    [] k = "tables" -> {"init", "initOnce", "storeDone"}
    [] k = "descriptor" -> {"lazyInitSlow", "setDesc"}
    [] k = "converter" -> {"lazyInitExtension", "lazyInitSlow", "setConv"}

Makes(a, k, on) == a.op \in Makers(k) /\ a.on = on

Prepared(s) == \A i \in 1 .. Len(s) : \A k \in Wants(s[i].op) :
  Made(k, s[i].on) \/ \E j \in 1 .. Len(s) : j < i /\ Makes(s[j], k, s[i].on)

AnyIn(s, U) == \E i \in 1 .. Len(s) : s[i] \in U
Later(s, U) == \E i \in 2 .. Len(s) : s[i] \in U
Has(s, x) == AnyIn(s, {x})
Starts(s, x) == s # <<>> /\ s[1] = x

(* Who holds a mutex: whoever is past the instructions that take it and      *)
(* still has one of those that give it back.                                *)
Holds(s, ends, begins) == AnyIn(s, ends) /\ ~(s # <<>> /\ s[1] \in begins)

HoldsFile(s, f) == Holds(s, {I("storeOnce", f)}, {I("lockFile", f)})
HoldsInit(s, m) == Holds(s, {I("initOnce", m), I("unlockInit", m)}, {I("lockInit", m)})
HoldsNeeds(s) == Holds(s, [op : {"unlockNeeds"}, on : Messages], [op : {"lockNeeds"}, on : Messages])
HoldsExtension(s, x) == Holds(s, {I("unlockExtension", x)}, {I("lockExtension", x)})
HoldsGlobal(s) == Has(s, I("Unlock", None)) /\ ~Has(s, I("Lock", None))

FileLocks == \A t \in Threads, f \in Files : fmu[f] = t <=> HoldsFile(todo[t], f)
InitLocks == \A t \in Threads, m \in Messages : imu[m] = t <=> HoldsInit(todo[t], m)
NeedsLock == \A t \in Threads : nmu = t <=> HoldsNeeds(todo[t])
ExtensionLocks == \A t \in Threads, x \in Extensions : xmu[x] = t <=> HoldsExtension(todo[t], x)

(* The writer has nothing to do but to get the lock and to give it back. *)
GlobalLock == \A t \in Threads :
  /\ writer = t <=> HoldsGlobal(todo[t])
  /\ HoldsGlobal(todo[t]) => Starts(todo[t], I("Locked", None)) \/ Starts(todo[t], I("Unlock", None))

Locks == FileLocks /\ InitLocks /\ NeedsLock /\ ExtensionLocks /\ GlobalLock

(* A file half made is being made, and a verdict is stored on a message     *)
(* that is marked.                                                          *)
Partials == \A f \in Files : L2[f] = "partial" => \E t \in Threads : Has(todo[t], I("resolved", f))
Marks == \A t \in Threads, m \in Messages : Has(todo[t], I("storeVerdict", m)) => m \in marked

Stages ==
  /\ \A f \in Files : once[f] => L2[f] = "full"
  /\ \A m \in Messages : initDone[m] <=> info[m] = "full"
  /\ \A x \in Extensions : /\ init[x] >= 1 => desc[x]
                           /\ init[x] = 2 => conv[x] \/ x \in Incomplete

(* How the reads of a list nest: the depth at each of its instructions. *)
Delta(a) == IF a.op = "RLock" THEN 1 ELSE IF a.op = "RUnlock" THEN -1 ELSE 0
Depths(s, from) == {d \in [1 .. Len(s) + 1 -> Nat] :
                      d[1] = from /\ \A i \in 1 .. Len(s) : d[i + 1] = d[i] + Delta(s[i])}
Reading == \A t \in Threads : Depths(todo[t], readers[t]) # {}

Lists == \A t \in Threads : Ordered(todo[t]) /\ Pending(todo[t]) /\ Prepared(todo[t])

Inv == TypeOK /\ Lists /\ Reading /\ Locks /\ Partials /\ Marks /\ Stages

-----------------------------------------------------------------------------
(* A step replaces the first instruction h by the list c.  What the rest of *)
(* the list asks of h is passed on to c.                                    *)

Inherits(h, c) == \A i \in 1 .. Len(c) : \A b \in Instruction : Before(h, b) => Before(c[i], b)

Completes(h, c) == \A i \in 1 .. Len(c) : \A b \in After(c[i]) :
                     b \in After(h) \/ \E j \in 1 .. Len(c) : i < j /\ c[j] = b

Keeps(h, c) == \A b \in Instruction : \A k \in Wants(b.op) :
                 Makes(h, k, b.on) => Made(k, b.on)' \/ \E i \in 1 .. Len(c) : Makes(c[i], k, b.on)

Ready(c) == \A i \in 1 .. Len(c) : \A k \in Wants(c[i].op) :
              Made(k, c[i].on)' \/ \E j \in 1 .. Len(c) : j < i /\ Makes(c[j], k, c[i].on)

(* Nothing that is made is unmade. *)
Monotone == \A b \in Instruction : \A k \in Wants(b.op) : Made(k, b.on) => Made(k, b.on)'

(* The elements of a list whose head is replaced. *)
LEMMA Replaced ==
  ASSUME NEW S, NEW s \in Seq(S), s # <<>>, NEW c \in Seq(S)
  PROVE  LET r == c \o Tail(s)
         IN  /\ r \in Seq(S) /\ Len(r) = Len(c) + Len(s) - 1 /\ Len(s) >= 1
             /\ \A i \in 1 .. Len(c) : r[i] = c[i]
             /\ \A i \in 2 .. Len(s) : r[Len(c) + i - 1] = s[i]
             /\ \A i \in 1 .. Len(r) : i \in 1 .. Len(c)
                                       \/ (i - Len(c) + 1 \in 2 .. Len(s) /\ r[i] = s[i - Len(c) + 1])
<1> DEFINE r == c \o Tail(s)
<1>1. Len(s) \in Nat /\ Len(s) >= 1 /\ Len(c) \in Nat
  OBVIOUS
<1>2. Tail(s) \in Seq(S) /\ Len(Tail(s)) = Len(s) - 1 /\ \A i \in 1 .. Len(s) - 1 : Tail(s)[i] = s[i + 1]
  OBVIOUS
<1>3. /\ r \in Seq(S) /\ Len(r) = Len(c) + Len(Tail(s))
      /\ \A i \in 1 .. Len(r) : r[i] = IF i <= Len(c) THEN c[i] ELSE Tail(s)[i - Len(c)]
  BY <1>2, ConcatProperties
<1>4. \A i \in 1 .. Len(c) : r[i] = c[i]
  BY <1>1, <1>2, <1>3
<1>5. ASSUME NEW i \in 2 .. Len(s) PROVE r[Len(c) + i - 1] = s[i]
  <2>1. /\ Len(c) + i - 1 \in 1 .. Len(r) /\ ~(Len(c) + i - 1 <= Len(c))
        /\ (Len(c) + i - 1) - Len(c) = i - 1 /\ i - 1 \in 1 .. Len(s) - 1 /\ (i - 1) + 1 = i
    BY <1>1, <1>2, <1>3
  <2>2. r[Len(c) + i - 1] = Tail(s)[i - 1]
    BY <2>1, <1>3
  <2> QED
    BY <2>1, <2>2, <1>2
<1>6. ASSUME NEW i \in 1 .. Len(r), i \notin 1 .. Len(c)
      PROVE  i - Len(c) + 1 \in 2 .. Len(s) /\ r[i] = s[i - Len(c) + 1]
  <2>1. i - Len(c) + 1 \in 2 .. Len(s) /\ Len(c) + (i - Len(c) + 1) - 1 = i
    BY <1>1, <1>2, <1>3, <1>6
  <2> QED
    BY <2>1, <1>5
<1> HIDE DEF r
<1>7. r = c \o Tail(s)
  BY DEF r
<1> QED
  BY <1>1, <1>2, <1>3, <1>4, <1>5, <1>6, <1>7

(* The list stays ordered when its head is replaced by an ordered list that *)
(* may stand wherever the head may.                                         *)
LEMMA OrderedStep ==
  ASSUME NEW s \in Seq(Instruction), s # <<>>, NEW c \in Seq(Instruction),
         Ordered(s), Ordered(c), Inherits(s[1], c)
  PROVE  Ordered(c \o Tail(s))
<1> DEFINE r == c \o Tail(s)
<1>1. /\ r \in Seq(Instruction) /\ Len(r) = Len(c) + Len(s) - 1 /\ Len(s) >= 1
      /\ \A i \in 1 .. Len(c) : r[i] = c[i]
      /\ \A i \in 1 .. Len(r) : i \in 1 .. Len(c)
                                \/ (i - Len(c) + 1 \in 2 .. Len(s) /\ r[i] = s[i - Len(c) + 1])
  BY Replaced
<1> HIDE DEF r
<1> SUFFICES ASSUME NEW i \in 1 .. Len(r), NEW j \in 1 .. Len(r), i < j PROVE Before(r[i], r[j])
  BY DEF Ordered, r
<1>2. Len(c) \in Nat /\ Len(s) \in Nat
  OBVIOUS
<1>3. CASE j \in 1 .. Len(c)
  BY <1>1, <1>2, <1>3 DEF Ordered
<1>4. CASE j \notin 1 .. Len(c)
  <2>1. j - Len(c) + 1 \in 2 .. Len(s) /\ r[j] = s[j - Len(c) + 1]
    BY <1>1, <1>4
  <2>2. CASE i \in 1 .. Len(c)
    <3>0. 1 \in 1 .. Len(s) /\ j - Len(c) + 1 \in 1 .. Len(s) /\ 1 < j - Len(c) + 1
      BY <2>1, <1>1, <1>2
    <3>1. Before(s[1], r[j]) /\ r[j] \in Instruction
      BY <3>0, <2>1, <1>1 DEF Ordered
    <3> QED
      BY <3>1, <2>2, <1>1 DEF Inherits
  <2>3. CASE i \notin 1 .. Len(c)
    <3>1. i - Len(c) + 1 \in 2 .. Len(s) /\ r[i] = s[i - Len(c) + 1]
      BY <1>1, <2>3
    <3>2. i - Len(c) + 1 < j - Len(c) + 1
      BY <1>2
    <3> QED
      BY <2>1, <3>1, <3>2, <1>2, SMTT(60) DEF Ordered
  <2> QED BY <2>2, <2>3
<1> QED BY <1>3, <1>4

(* Nothing that a list must still have is lost when its head is replaced by *)
(* a list that has, or passes on, what each of its instructions needs.      *)
LEMMA PendingStep ==
  ASSUME NEW s \in Seq(Instruction), s # <<>>, NEW c \in Seq(Instruction),
         Pending(s), Completes(s[1], c)
  PROVE  Pending(c \o Tail(s))
<1> DEFINE r == c \o Tail(s)
<1>1. /\ Len(r) = Len(c) + Len(s) - 1 /\ Len(s) >= 1
      /\ \A i \in 1 .. Len(c) : r[i] = c[i]
      /\ \A i \in 2 .. Len(s) : r[Len(c) + i - 1] = s[i]
      /\ \A i \in 1 .. Len(r) : i \in 1 .. Len(c)
                                \/ (i - Len(c) + 1 \in 2 .. Len(s) /\ r[i] = s[i - Len(c) + 1])
  BY Replaced
<1> HIDE DEF r
<1> SUFFICES ASSUME NEW i \in 1 .. Len(r), NEW b \in After(r[i])
             PROVE  \E j \in 1 .. Len(r) : i < j /\ r[j] = b
  BY DEF Pending, r
<1>2. Len(c) \in Nat /\ Len(s) \in Nat
  OBVIOUS
<1>3. ASSUME NEW k \in 1 .. Len(s), 1 < k PROVE Len(c) + k - 1 \in 1 .. Len(r) /\ Len(c) < Len(c) + k - 1 /\ r[Len(c) + k - 1] = s[k]
  BY <1>1, <1>2, <1>3
<1>4. CASE i \in 1 .. Len(c)
  <2>1. b \in After(s[1]) \/ \E j \in 1 .. Len(c) : i < j /\ c[j] = b
    BY <1>4, <1>1 DEF Completes
  <2>2. CASE b \in After(s[1])
    <3>0. 1 \in 1 .. Len(s)
      BY <1>1, <1>2
    <3>1. PICK k \in 1 .. Len(s) : 1 < k /\ s[k] = b
      BY <3>0, <2>2 DEF Pending
    <3>2. Len(c) + k - 1 \in 1 .. Len(r) /\ Len(c) < Len(c) + k - 1 /\ r[Len(c) + k - 1] = b
      BY <3>1, <1>3
    <3>3. i < Len(c) + k - 1
      BY <3>2, <1>4, <1>2
    <3> QED
      BY <3>2, <3>3
  <2>3. CASE \E j \in 1 .. Len(c) : i < j /\ c[j] = b
    <3>1. PICK j \in 1 .. Len(c) : i < j /\ c[j] = b
      BY <2>3
    <3>2. j \in 1 .. Len(r) /\ r[j] = b
      BY <3>1, <1>1, <1>2
    <3> QED
      BY <3>1, <3>2
  <2> QED BY <2>1, <2>2, <2>3
<1>5. CASE i \notin 1 .. Len(c)
  <2>1. i - Len(c) + 1 \in 2 .. Len(s) /\ r[i] = s[i - Len(c) + 1]
    BY <1>1, <1>5
  <2> DEFINE q == i - Len(c) + 1
  <2>2. q \in 1 .. Len(s) /\ b \in After(s[q])
    BY <2>1, <1>2
  <2>3. PICK k \in 1 .. Len(s) : q < k /\ s[k] = b
    BY <2>2 DEF Pending
  <2>4. 1 < k /\ i < Len(c) + k - 1
    BY <2>1, <2>3, <1>2
  <2>5. Len(c) + k - 1 \in 1 .. Len(r) /\ r[Len(c) + k - 1] = b
    BY <2>3, <2>4, <1>3
  <2> QED
    BY <2>4, <2>5
<1> QED BY <1>4, <1>5

(* What every instruction of the list relies on is still made, or about to  *)
(* be made, after the step.                                                 *)
LEMMA PreparedStep ==
  ASSUME NEW s \in Seq(Instruction), s # <<>>, NEW c \in Seq(Instruction),
         Prepared(s), Monotone, Keeps(s[1], c), Ready(c), NEW r, r = c \o Tail(s)
  PROVE  \A i \in 1 .. Len(r) : \A k \in Wants(r[i].op) :
           Made(k, r[i].on)' \/ \E j \in 1 .. Len(r) : j < i /\ Makes(r[j], k, r[i].on)
<1>1. /\ r \in Seq(Instruction) /\ Len(r) = Len(c) + Len(s) - 1 /\ Len(s) >= 1
      /\ \A i \in 1 .. Len(c) : r[i] = c[i]
      /\ \A i \in 2 .. Len(s) : r[Len(c) + i - 1] = s[i]
      /\ \A i \in 1 .. Len(r) : i \in 1 .. Len(c)
                                \/ (i - Len(c) + 1 \in 2 .. Len(s) /\ r[i] = s[i - Len(c) + 1])
  BY Replaced
<1>2. Len(c) \in Nat /\ Len(s) \in Nat
  OBVIOUS
<1> SUFFICES ASSUME NEW i \in 1 .. Len(r), NEW k \in Wants(r[i].op), ~Made(k, r[i].on)'
             PROVE  \E j \in 1 .. Len(r) : j < i /\ Makes(r[j], k, r[i].on)
  OBVIOUS
<1>3. CASE i \in 1 .. Len(c)
  <2>1. PICK j \in 1 .. Len(c) : j < i /\ Makes(c[j], k, c[i].on)
    BY <1>1, <1>3 DEF Ready
  <2>2. j \in 1 .. Len(r) /\ r[j] = c[j] /\ r[i] = c[i]
    BY <1>1, <1>2, <1>3
  <2> QED
    BY <2>1, <2>2
<1>4. CASE i \notin 1 .. Len(c)
  <2>1. i - Len(c) + 1 \in 2 .. Len(s) /\ r[i] = s[i - Len(c) + 1] /\ r[i] \in Instruction
    BY <1>1, <1>4
  <2>2. ~Made(k, r[i].on)
    BY <2>1 DEF Monotone
  <2> DEFINE q == i - Len(c) + 1
  <2>3. q \in 1 .. Len(s) /\ r[i] = s[q]
    BY <2>1, <1>2
  <2>4. PICK j \in 1 .. Len(s) : j < q /\ Makes(s[j], k, r[i].on)
    BY <2>2, <2>3 DEF Prepared
  <2>5. CASE j = 1
    <3>1. PICK l \in 1 .. Len(c) : Makes(c[l], k, r[i].on)
      BY <2>1, <2>4, <2>5 DEF Keeps
    <3> QED
      BY <3>1, <1>1, <1>2, <1>4
  <2>6. CASE j # 1
    <3>1. Len(c) + j - 1 \in 1 .. Len(r) /\ Len(c) + j - 1 < i /\ r[Len(c) + j - 1] = s[j]
      BY <2>6, <2>4, <1>1, <1>2
    <3> QED
      BY <3>1, <2>4
  <2> QED BY <2>5, <2>6
<1> QED BY <1>3, <1>4

-----------------------------------------------------------------------------
(* Induction over the naturals, and recursion as a consequence. *)

(* Every nonempty set of naturals has a smallest element. *)
LEMMA SmallestOf ==
  ASSUME NEW T, T \subseteq Nat, T # {}
  PROVE  \E x \in T : \A y \in T : x <= y
<1>1. PICK x \in T : \A y \in T : <<y, x>> \notin OpToRel(<, Nat)
  BY WFMin, NatLessThanWellFounded, Zenon
<1>2. \A y \in T : ~(y < x)
  BY <1>1 DEF OpToRel
<1> QED
  BY <1>2

(* Induction: a set with 0 and with the successors of its naturals has all  *)
(* of them.                                                                 *)
LEMMA InductiveSet ==
  ASSUME NEW T, 0 \in T, \A m \in Nat : m \in T => m + 1 \in T
  PROVE  Nat \subseteq T
<1>1. SUFFICES ASSUME Nat \ T # {} PROVE FALSE
  OBVIOUS
<1>2. PICK x \in Nat \ T : \A y \in Nat \ T : x <= y
  BY <1>1, SmallestOf
<1>3. x # 0 /\ x - 1 \in Nat
  BY <1>2
<1>4. x - 1 \in T
  BY <1>2, <1>3
<1> QED
  BY <1>2, <1>3, <1>4

Upto(n, S, base, step) ==
  {f \in [0 .. n -> S] : f[0] = base /\ \A i \in 1 .. n : f[i] = step[i][f[i - 1]]}

(* A function defined by recursion up to n exists.                          *)
LEMMA Recursion ==
  ASSUME NEW n \in Nat, NEW S, NEW base \in S, NEW step \in [1 .. n -> [S -> S]]
  PROVE  Upto(n, S, base, step) # {}
<1> DEFINE T == {k \in Nat : k <= n => Upto(k, S, base, step) # {}}
<1>1. 0 \in T
  <2>1. [i \in 0 .. 0 |-> base] \in Upto(0, S, base, step)
    BY DEF Upto
  <2> QED
    BY <2>1
<1>2. ASSUME NEW m \in Nat, m \in T PROVE m + 1 \in T
  <2> SUFFICES ASSUME m + 1 <= n PROVE Upto(m + 1, S, base, step) # {}
    OBVIOUS
  <2>1. PICK f : f \in Upto(m, S, base, step)
    BY <1>2
  <2> DEFINE g == [i \in 0 .. m + 1 |-> IF i <= m THEN f[i] ELSE step[i][f[m]]]
  <2>2. f[m] \in S /\ step[m + 1][f[m]] \in S
    BY <2>1 DEF Upto
  <2>3. g \in [0 .. m + 1 -> S]
    BY <2>1, <2>2 DEF Upto
  <2>4. g[0] = base
    BY <2>1 DEF Upto
  <2>5. \A i \in 1 .. m + 1 : g[i] = step[i][g[i - 1]]
    BY <2>1 DEF Upto
  <2> QED
    BY <2>3, <2>4, <2>5 DEF Upto
<1>3. n \in T
  <2> HIDE DEF T
  <2> QED BY <1>1, <1>2, InductiveSet
<1> QED
  BY <1>3

(* If lists can be joined within the set B, so can the lists of a sequence. *)
LEMMA FlattenSeqIn ==
  ASSUME NEW S, NEW B, B \subseteq Seq(S), <<>> \in B, \A x, y \in B : x \o y \in B,
         NEW ss \in Seq(B)
  PROVE  FlattenSeq(ss) \in B
<1>1. CASE Len(ss) = 0
  BY <1>1 DEF FlattenSeq
<1>2. CASE Len(ss) # 0
  <2> DEFINE n == Len(ss)
             D == 1 .. n
             E(f) == f = [i \in D |-> IF i = 1 THEN ss[i] ELSE f[i - 1] \o ss[i]]
             g == CHOOSE f : E(f)
  <2>0. n \in Nat /\ n # 0 /\ \A i \in D : ss[i] \in B
    BY <1>2
  <2>1. \E f : E(f)
    <3> DEFINE step == [i \in D |-> [x \in B |-> x \o ss[i]]]
    <3>1. step \in [D -> [B -> B]]
      BY <2>0
    <3>2. \A i \in D, x \in B : step[i][x] = x \o ss[i]
      BY <2>0
    <3>3. <<>> \in B
      OBVIOUS
    <3> HIDE DEF step
    <3>4. Upto(n, B, <<>>, step) # {}
      BY <3>1, <3>3, <2>0, Recursion
    <3>5. PICK f : f \in Upto(n, B, <<>>, step)
      BY <3>4
    <3>6. /\ f \in [0 .. n -> B] /\ f[0] = <<>>
          /\ \A i \in D : f[i] = step[i][f[i - 1]]
      BY <3>5 DEF Upto
    <3>7. ASSUME NEW i \in D PROVE f[i] = f[i - 1] \o ss[i]
      <4>1. i - 1 \in 0 .. n
        BY <2>0
      <4>2. f[i - 1] \in B
        BY <4>1, <3>6
      <4> QED
        BY <4>2, <3>2, <3>6
    <3>8. f[1] = ss[1]
      <4>1. 1 \in D /\ f[1 - 1] = <<>>
        BY <3>6, <2>0
      <4>2. f[1] = <<>> \o ss[1]
        BY <4>1, <3>7
      <4> QED
        BY <4>1, <4>2, <2>0
    <3> DEFINE h == [i \in D |-> f[i]]
    <3>9. ASSUME NEW i \in D PROVE h[i] = IF i = 1 THEN ss[i] ELSE h[i - 1] \o ss[i]
      <4>1. i # 1 => i - 1 \in D
        BY <2>0
      <4> QED
        BY <4>1, <3>7, <3>8
    <3>10. E(h)
      BY <3>9
    <3> QED BY <3>10
  <2>2. E(g)
    BY <2>1
  <2>3. \A i \in D : g[i] = IF i = 1 THEN ss[i] ELSE g[i - 1] \o ss[i]
    BY <2>2
  <2>4. FlattenSeq(ss) = g[n]
    BY <1>2 DEF FlattenSeq
  <2> HIDE DEF g
  <2> DEFINE T == {k \in Nat : k + 1 \in D => g[k + 1] \in B}
  <2>5. 0 \in T
    BY <2>0, <2>3
  <2>6. ASSUME NEW m \in Nat, m \in T PROVE m + 1 \in T
    <3>0. m + 2 \in D => m + 1 \in D /\ m + 2 # 1 /\ (m + 2) - 1 = m + 1
      BY <2>0
    <3>1. m + 2 \in D => g[m + 2] = g[m + 1] \o ss[m + 2]
      BY <3>0, <2>3
    <3>2. m + 2 \in D => g[m + 2] \in B
      BY <3>0, <3>1, <2>6, <2>0, ConcatProperties
    <3> QED
      BY <3>2
  <2>7. n - 1 \in T
    <3> HIDE DEF T
    <3>1. Nat \subseteq T
      BY <2>5, <2>6, InductiveSet
    <3> QED BY <3>1, <2>0
  <2> QED
    BY <2>7, <2>4, <2>0
<1> QED BY <1>1, <1>2

-----------------------------------------------------------------------------
(* The nesting of reads. *)

Balanced == {c \in Seq(Instruction) : \E d \in Depths(c, 0) : d[Len(c) + 1] = 0}

(* Balanced lists can be joined.                                            *)
LEMMA BalancedConcat ==
  ASSUME NEW a \in Balanced, NEW b \in Balanced
  PROVE  a \o b \in Balanced
<1> DEFINE r == a \o b
<1>1. a \in Seq(Instruction) /\ b \in Seq(Instruction) /\ Len(a) \in Nat /\ Len(b) \in Nat
  BY DEF Balanced
<1>2. PICK d \in [1 .. Len(a) + 1 -> Nat] :
        d[1] = 0 /\ d[Len(a) + 1] = 0 /\ \A i \in 1 .. Len(a) : d[i + 1] = d[i] + Delta(a[i])
  BY DEF Balanced, Depths
<1>3. PICK e \in [1 .. Len(b) + 1 -> Nat] :
        e[1] = 0 /\ e[Len(b) + 1] = 0 /\ \A i \in 1 .. Len(b) : e[i + 1] = e[i] + Delta(b[i])
  BY DEF Balanced, Depths
<1>4. /\ r \in Seq(Instruction) /\ Len(r) = Len(a) + Len(b)
      /\ \A i \in 1 .. Len(r) : r[i] = IF i <= Len(a) THEN a[i] ELSE b[i - Len(a)]
  BY <1>1, ConcatProperties
<1> HIDE DEF r
<1> DEFINE f == [i \in 1 .. Len(r) + 1 |-> IF i <= Len(a) THEN d[i] ELSE e[i - Len(a)]]
<1>5. f \in [1 .. Len(r) + 1 -> Nat]
  BY <1>1, <1>2, <1>3, <1>4
<1>6. f[1] = 0 /\ f[Len(r) + 1] = 0
  BY <1>1, <1>2, <1>3, <1>4
<1>7. ASSUME NEW i \in 1 .. Len(r) PROVE f[i + 1] = f[i] + Delta(r[i])
  <2>1. CASE i < Len(a)
    <3>1. f[i] = d[i] /\ f[i + 1] = d[i + 1] /\ r[i] = a[i] /\ i \in 1 .. Len(a)
      BY <2>1, <1>1, <1>4
    <3> QED
      BY <3>1, <1>2
  <2>2. CASE i = Len(a)
    <3>1. f[i] = d[i] /\ f[i + 1] = e[1] /\ r[i] = a[i] /\ i \in 1 .. Len(a)
      BY <2>2, <1>1, <1>4
    <3> QED
      BY <3>1, <2>2, <1>2, <1>3
  <2>3. CASE i > Len(a)
    <3> DEFINE k == i - Len(a)
    <3>1. /\ k \in 1 .. Len(b) /\ (i + 1) - Len(a) = k + 1 /\ i \in 1 .. Len(r) + 1
          /\ i + 1 \in 1 .. Len(r) + 1 /\ ~(i <= Len(a)) /\ ~(i + 1 <= Len(a))
      BY <2>3, <1>1, <1>4, SMTT(60)
    <3>2. f[i] = e[k] /\ f[i + 1] = e[k + 1] /\ r[i] = b[k]
      BY <3>1, <1>4
    <3> QED
      BY <3>1, <3>2, <1>3
  <2> QED BY <2>1, <2>2, <2>3, <1>1
<1> HIDE DEF f
<1>8. f \in Depths(r, 0)
  BY <1>5, <1>6, <1>7 DEF Depths
<1> QED
  BY <1>4, <1>6, <1>8 DEF Balanced, r

(* A list that neither takes nor gives back a read lock is balanced.        *)
LEMMA BalancedPlain ==
  ASSUME NEW c \in Seq(Instruction), \A i \in 1 .. Len(c) : c[i].op \notin Reads
  PROVE  c \in Balanced
<1> DEFINE d == [i \in 1 .. Len(c) + 1 |-> 0]
<1>1. \A i \in 1 .. Len(c) : Delta(c[i]) = 0
  BY DEF Delta, Reads
<1>2. d \in Depths(c, 0) /\ d[Len(c) + 1] = 0
  BY <1>1 DEF Depths
<1> QED
  BY <1>2 DEF Balanced

(* The read locks still nest when the head, which is not about them, is     *)
(* replaced by a balanced list.                                             *)
LEMMA DepthsStep ==
  ASSUME NEW s \in Seq(Instruction), s # <<>>, NEW c \in Balanced,
         NEW n, Depths(s, n) # {}, Delta(s[1]) = 0
  PROVE  Depths(c \o Tail(s), n) # {}
<1> DEFINE r == c \o Tail(s)
<1>1. c \in Seq(Instruction) /\ Len(c) \in Nat /\ Len(s) \in Nat
  BY DEF Balanced
<1>2. PICK d \in [1 .. Len(s) + 1 -> Nat] :
        d[1] = n /\ \A i \in 1 .. Len(s) : d[i + 1] = d[i] + Delta(s[i])
  BY DEF Depths
<1>3. PICK e \in [1 .. Len(c) + 1 -> Nat] :
        e[1] = 0 /\ e[Len(c) + 1] = 0 /\ \A i \in 1 .. Len(c) : e[i + 1] = e[i] + Delta(c[i])
  BY DEF Balanced, Depths
<1>4. /\ Len(r) = Len(c) + Len(s) - 1 /\ Len(s) >= 1
      /\ \A i \in 1 .. Len(c) : r[i] = c[i]
      /\ \A i \in 1 .. Len(r) : i \in 1 .. Len(c)
                                \/ (i - Len(c) + 1 \in 2 .. Len(s) /\ r[i] = s[i - Len(c) + 1])
  BY <1>1, Replaced
<1> HIDE DEF r
<1>5. n \in Nat /\ 1 \in 1 .. Len(s) /\ d[2] = n /\ d[1 + 1] = n
  BY <1>1, <1>2, <1>4
<1> DEFINE f == [i \in 1 .. Len(r) + 1 |-> IF i <= Len(c) THEN n + e[i] ELSE d[i - Len(c) + 1]]
<1>6. f \in [1 .. Len(r) + 1 -> Nat]
  BY <1>1, <1>2, <1>3, <1>4, <1>5, SMTT(60)
<1>7. f[1] = n
  BY <1>1, <1>2, <1>3, <1>4, <1>5
<1>8. ASSUME NEW i \in 1 .. Len(r) PROVE f[i + 1] = f[i] + Delta(r[i])
  <2>1. CASE i < Len(c)
    <3>1. i \in 1 .. Len(c) /\ f[i] = n + e[i] /\ f[i + 1] = n + e[i + 1] /\ r[i] = c[i]
      BY <2>1, <1>1, <1>4, SMTT(60)
    <3>2. e[i + 1] = e[i] + Delta(c[i]) /\ e[i] \in Nat
      BY <3>1, <1>1, <1>3, SMTT(60)
    <3>3. Delta(c[i]) \in Int
      BY DEF Delta
    <3> QED
      BY <3>1, <3>2, <3>3, <1>5
  <2>2. CASE i = Len(c)
    <3>1. f[i] = n + e[i] /\ f[i + 1] = d[2] /\ r[i] = c[i] /\ i \in 1 .. Len(c)
      BY <2>2, <1>1, <1>4
    <3>2. e[i + 1] = e[i] + Delta(c[i]) /\ e[i + 1] = 0 /\ e[i] \in Nat /\ Delta(c[i]) \in Int
      BY <3>1, <2>2, <1>1, <1>3 DEF Delta
    <3> QED
      BY <3>1, <3>2, <1>5, SMTT(60)
  <2>3. CASE i > Len(c)
    <3> DEFINE k == i - Len(c) + 1
    <3>1. /\ (i + 1) - Len(c) + 1 = k + 1 /\ i \notin 1 .. Len(c)
          /\ ~(i <= Len(c)) /\ ~(i + 1 <= Len(c)) /\ i + 1 \in 1 .. Len(r) + 1 /\ i \in 1 .. Len(r) + 1
      BY <2>3, <1>1, <1>4, SMTT(60)
    <3>0. k \in 1 .. Len(s) /\ r[i] = s[k]
      BY <3>1, <1>1, <1>4
    <3>2. f[i] = d[k] /\ f[i + 1] = d[k + 1]
      BY <3>1
    <3> QED
      BY <3>0, <3>2, <1>2
  <2> QED BY <2>1, <2>2, <2>3, <1>1
<1> HIDE DEF f
<1> QED
  BY <1>6, <1>7, <1>8 DEF Depths, r

(* The read locks of the rest of a list nest, from the depth that the head  *)
(* leaves behind.                                                           *)
LEMMA DepthsTail ==
  ASSUME NEW s \in Seq(Instruction), s # <<>>, NEW n, Depths(s, n) # {}
  PROVE  n \in Nat /\ n + Delta(s[1]) \in Nat /\ Depths(Tail(s), n + Delta(s[1])) # {}
<1>1. PICK d \in [1 .. Len(s) + 1 -> Nat] :
        d[1] = n /\ \A i \in 1 .. Len(s) : d[i + 1] = d[i] + Delta(s[i])
  BY DEF Depths
<1>2. Len(s) \in Nat /\ Len(s) >= 1 /\ 1 \in 1 .. Len(s)
  OBVIOUS
<1>3. Len(Tail(s)) = Len(s) - 1 /\ \A i \in 1 .. Len(s) - 1 : Tail(s)[i] = s[i + 1]
  OBVIOUS
<1>4. d[1] \in Nat /\ d[2] \in Nat /\ d[2] = n + Delta(s[1])
  BY <1>1, <1>2
<1> DEFINE f == [i \in 1 .. Len(s) |-> d[i + 1]]
<1>5. f \in [1 .. Len(Tail(s)) + 1 -> Nat] /\ f[1] = n + Delta(s[1])
  BY <1>1, <1>2, <1>3, <1>4
<1>6. ASSUME NEW i \in 1 .. Len(Tail(s)) PROVE f[i + 1] = f[i] + Delta(Tail(s)[i])
  <2>1. i \in 1 .. Len(s) /\ i + 1 \in 1 .. Len(s) /\ Tail(s)[i] = s[i + 1]
    BY <1>2, <1>3
  <2>2. d[(i + 1) + 1] = d[i + 1] + Delta(s[i + 1])
    BY <2>1, <1>1
  <2> QED
    BY <2>1, <2>2
<1> HIDE DEF f
<1>7. f \in Depths(Tail(s), n + Delta(s[1]))
  BY <1>5, <1>6 DEF Depths
<1> QED
  BY <1>1, <1>4, <1>7

-----------------------------------------------------------------------------
(* What the calls expand into. *)

Expands(h, c) == c \in Seq(Instruction) /\ Ordered(c) /\ Inherits(h, c) /\ Completes(h, c)

(* Instructions that may stand in any order. *)
Free == {"lazyInit", "explore", "needsInitCheck", "storeVerdict", "storeDone", "setDesc", "setConv",
         "storeFull", "useFile", "useMessage", "useDescriptor", "useConverter"} \cup Reads

(* Any instruction may be replaced by nothing, as far as the order is       *)
(* concerned.                                                               *)
LEMMA EmptyExpands ==
  ASSUME NEW h
  PROVE  Expands(h, <<>>) /\ <<>> \in Balanced
<1>1. <<>> \in Seq(Instruction) /\ Len(<<>>) = 0
  OBVIOUS
<1>2. <<>> \in Balanced
  <2> DEFINE e == <<>>
  <2>1. e \in Seq(Instruction) /\ \A i \in 1 .. Len(e) : e[i].op \notin Reads
    BY <1>1
  <2> HIDE DEF e
  <2>2. e \in Balanced
    BY <2>1, BalancedPlain
  <2> QED BY <2>2 DEF e
<1> QED
  BY <1>1, <1>2 DEF Expands, Ordered, Inherits, Completes

(* Lists of instructions that may stand in any order only have to suit what *)
(* follows.                                                                 *)
LEMMA FreeExpands ==
  ASSUME NEW h, NEW c \in Seq(Instruction),
         \A i \in 1 .. Len(c) : c[i].op \in Free, Inherits(h, c)
  PROVE  Expands(h, c)
<1>1. Ordered(c)
  BY DEF Ordered, Before, FileBefore, TypeBefore, GlobalBefore, Free, Reads, First
<1>2. \A i \in 1 .. Len(c) : After(c[i]) = {}
  BY DEF After, Free, Reads
<1> QED
  BY <1>1, <1>2 DEF Expands, Completes

(* The dependencies of a file contain its imports and the dependencies of   *)
(* each of them.                                                            *)
LEMMA DependenciesClosed ==
  ASSUME NEW f \in Files
  PROVE  /\ Dependencies(f) \subseteq Files
         /\ ToSet(Imports[f]) \subseteq Dependencies(f)
         /\ \A g \in Dependencies(f) : Dependencies(g) \subseteq Dependencies(f)
<1>1. \A g \in Files : ToSet(Imports[g]) \subseteq Files
  BY InstanceAssumption DEF ToSet
<1> QED
  BY <1>1 DEF Dependencies

(* The work that the initialization of f begins with. *)
RawSteps(f) == {RLock, RUnlock} \cup {I("lazyInit", g) : g \in Dependencies(f)}

(* lazyRawInit reads the registry and initializes dependencies of the file, *)
(* and nothing else (desc_lazy.go:19-24, desc.go:674-699).                  *)
LEMMA RawStepsAre ==
  ASSUME NEW f \in Files
  PROVE  lazyRawInit(f) \in Seq(RawSteps(f)) \cap Balanced
<1> DEFINE S == RawSteps(f)
           B == Seq(S) \cap Balanced
<1>1. S \subseteq Instruction
  BY DependenciesClosed DEF RawSteps, Instruction, RLock, RUnlock, I
<1>2. B \subseteq Seq(S) /\ <<>> \in B /\ \A x, y \in B : x \o y \in B
  <2>1. <<>> \in B
    BY EmptyExpands
  <2>2. ASSUME NEW x \in B, NEW y \in B PROVE x \o y \in B
    BY BalancedConcat
  <2> QED BY <2>1, <2>2
<1>3. <<RLock, RUnlock>> \in B
  <2> DEFINE c == <<RLock, RUnlock>>
             d == [i \in 1 .. 3 |-> IF i = 2 THEN 1 ELSE 0]
  <2>1. c \in Seq(S) /\ c \in Seq(Instruction) /\ Len(c) = 2 /\ c[1] = RLock /\ c[2] = RUnlock
    BY <1>1 DEF RawSteps
  <2>2. Delta(c[1]) = 1 /\ Delta(c[2]) = -1
    BY <2>1 DEF Delta, RLock, RUnlock, I
  <2> HIDE DEF c
  <2>3. d \in Depths(c, 0) /\ d[Len(c) + 1] = 0
    BY <2>1, <2>2 DEF Depths
  <2> QED
    BY <2>1, <2>3 DEF Balanced, c
<1>4. ASSUME NEW g \in Dependencies(f) PROVE <<RLock, I("lazyInit", g), RUnlock>> \in B
  <2> DEFINE c == <<RLock, I("lazyInit", g), RUnlock>>
             d == [i \in 1 .. 4 |-> IF i \in {2, 3} THEN 1 ELSE 0]
  <2>1. /\ c \in Seq(S) /\ c \in Seq(Instruction) /\ Len(c) = 3
        /\ c[1] = RLock /\ c[2] = I("lazyInit", g) /\ c[3] = RUnlock
    BY <1>1 DEF RawSteps
  <2>2. Delta(c[1]) = 1 /\ Delta(c[2]) = 0 /\ Delta(c[3]) = -1
    BY <2>1 DEF Delta, RLock, RUnlock, I
  <2> HIDE DEF c
  <2>3. d \in Depths(c, 0) /\ d[Len(c) + 1] = 0
    BY <2>1, <2>2 DEF Depths
  <2> QED
    BY <2>1, <2>3 DEF Balanced, c
<1>5. ASSUME NEW g \in Dependencies(f) PROVE <<I("lazyInit", g)>> \in B
  <2> DEFINE c == <<I("lazyInit", g)>>
  <2>1. c \in Seq(S) /\ c \in Seq(Instruction) /\ Len(c) = 1 /\ c[1] = I("lazyInit", g)
    BY <1>1 DEF RawSteps
  <2> HIDE DEF c
  <2>2. \A i \in 1 .. Len(c) : c[i].op \notin Reads
    BY <2>1 DEF Reads, I
  <2>3. c \in Balanced
    BY <2>1, <2>2, BalancedPlain
  <2> QED BY <2>1, <2>3 DEF c
<1> HIDE DEF B, S
<1>6. \A ss \in Seq(B) : FlattenSeq(ss) \in B
  BY <1>2, FlattenSeqIn
<1>7. Imports[f] \in Seq(Files) /\ DefaultsFrom[f] \in Seq(Files)
  BY InstanceAssumption
<1>8. \A i \in DOMAIN Imports[f] : Imports[f][i] \in Dependencies(f)
  BY DependenciesClosed DEF ToSet
<1>9. Each(Imports[f], FindFileByPath) \in B
  <2>1. \A i \in DOMAIN Imports[f] : FindFileByPath(Imports[f][i]) \in B
    BY <1>3 DEF FindFileByPath
  <2>2. [i \in DOMAIN Imports[f] |-> FindFileByPath(Imports[f][i])] \in Seq(B)
    BY <2>1, <1>7
  <2> QED
    BY <2>2, <1>6 DEF Each
<1>10. Each(Imports[f], FindNested) \in B
  <2>1. \A i \in DOMAIN Imports[f] : FindNested(Imports[f][i]) \in B
    BY <1>4, <1>8 DEF FindNested
  <2>2. [i \in DOMAIN Imports[f] |-> FindNested(Imports[f][i])] \in Seq(B)
    BY <2>1, <1>7
  <2> QED
    BY <2>2, <1>6 DEF Each
<1>11. Each(DefaultsFrom[f], LAMBDA g : UnmarshalDefault(f, g)) \in B
  <2>1. ASSUME NEW i \in DOMAIN DefaultsFrom[f] PROVE UnmarshalDefault(f, DefaultsFrom[f][i]) \in B
    <3>1. DefaultsFrom[f][i] \in Dependencies(f) \cup {f}
      BY InstanceAssumption DEF ToSet
    <3> QED
      BY <3>1, <1>2, <1>5 DEF UnmarshalDefault
  <2>2. [i \in DOMAIN DefaultsFrom[f] |-> UnmarshalDefault(f, DefaultsFrom[f][i])] \in Seq(B)
    BY <2>1, <1>7
  <2> QED
    BY <2>2, <1>6 DEF Each
<1>12. lazyRawInit(f) \in B
  BY <1>2, <1>9, <1>10, <1>11 DEF lazyRawInit
<1> QED
  BY <1>12 DEF B, S

(* The locked part of File.lazyInit (desc.go:153-167) in place of the call. *)
LEMMA LazyInitExpands ==
  ASSUME NEW f \in Files
  PROVE  LET c == <<I("lockFile", f), I("rawInit", f), I("storeOnce", f)>>
         IN  Expands(I("lazyInit", f), c) /\ c \in Balanced
<1> DEFINE c == <<I("lockFile", f), I("rawInit", f), I("storeOnce", f)>>
<1>1. /\ c \in Seq(Instruction) /\ Len(c) = 3
      /\ c[1] = I("lockFile", f) /\ c[2] = I("rawInit", f) /\ c[3] = I("storeOnce", f)
  BY DEF Instruction, I
<1> HIDE DEF c
<1>2. Ordered(c)
  BY <1>1 DEF Ordered, Before, FileBefore, TypeBefore, GlobalBefore, Reads, First, FileSteps, I
<1>3. Inherits(I("lazyInit", f), c)
  BY <1>1 DEF Inherits, Before, FileBefore, TypeBefore, GlobalBefore, Reads, First, FileSteps, I
<1>4. Completes(I("lazyInit", f), c)
  BY <1>1 DEF Completes, After, I
<1>5. c \in Balanced
  BY <1>1, BalancedPlain DEF Reads, I
<1> QED
  BY <1>1, <1>2, <1>3, <1>4, <1>5 DEF Expands, c

(* The body of lazyRawInit, up to the point where the file is resolved, in  *)
(* place of the call.                                                       *)
LEMMA RawInitExpands ==
  ASSUME NEW f \in Files
  PROVE  LET c == lazyRawInit(f) \o <<I("resolved", f)>>
         IN  /\ Expands(I("rawInit", f), c) /\ c \in Balanced
             /\ \A i \in 1 .. Len(c) : c[i] \in RawSteps(f) \cup {I("resolved", f)}
             /\ \E i \in 1 .. Len(c) : c[i] = I("resolved", f)
<1> DEFINE p == lazyRawInit(f)
           z == I("resolved", f)
           c == p \o <<z>>
           n == Len(p)
<1>1. p \in Seq(RawSteps(f)) /\ p \in Balanced
  BY RawStepsAre
<1>2. RawSteps(f) \subseteq Instruction /\ z \in Instruction
  BY DependenciesClosed DEF RawSteps, Instruction, RLock, RUnlock, I
<1>3. <<z>> \in Seq(Instruction) /\ Len(<<z>>) = 1 /\ <<z>>[1] = z /\ p \in Seq(Instruction) /\ n \in Nat
  BY <1>1, <1>2
<1> HIDE DEF p
<1>4. /\ c \in Seq(Instruction) /\ Len(c) = n + 1
      /\ \A i \in 1 .. n : c[i] = p[i] /\ c[i] \in RawSteps(f)
      /\ c[n + 1] = z
  BY <1>1, <1>3, ConcatProperties
<1>5. c \in Balanced
  <2>1. <<z>> \in Balanced
    <3> DEFINE e == <<z>>
    <3>1. e \in Seq(Instruction) /\ \A i \in 1 .. Len(e) : e[i].op \notin Reads
      BY <1>3 DEF Reads, I
    <3> HIDE DEF e
    <3>2. e \in Balanced
      BY <3>1, BalancedPlain
    <3> QED BY <3>2 DEF e
  <2> QED
    BY <2>1, <1>1, BalancedConcat
<1> HIDE DEF c, n
<1>6. \A i \in 1 .. Len(c) : (i \in 1 .. n /\ c[i] \in RawSteps(f)) \/ (i = n + 1 /\ c[i] = z)
  BY <1>3, <1>4
<1>7. Ordered(c)
  <2> SUFFICES ASSUME NEW i \in 1 .. Len(c), NEW j \in 1 .. Len(c), i < j PROVE Before(c[i], c[j])
    BY DEF Ordered
  <2>1. i \in 1 .. n /\ c[i] \in RawSteps(f)
    BY <1>3, <1>4, <1>6
  <2>2. c[j] \in RawSteps(f) \/ c[j] = z
    BY <1>6
  <2> QED
    BY <2>1, <2>2 DEF RawSteps, Before, FileBefore, TypeBefore, GlobalBefore, Reads, First, FileSteps,
                      I, RLock, RUnlock
<1>8. Inherits(I("rawInit", f), c)
  <2> SUFFICES ASSUME NEW a \in RawSteps(f) \cup {z}, NEW b \in Instruction, Before(I("rawInit", f), b)
               PROVE  Before(a, b)
    BY <1>6 DEF Inherits
  <2>1. b.op \in {"resolved", "storeOnce"} => b.on \in Files /\ f \in Dependencies(b.on) \cup {b.on}
    BY DEF Instruction, Before, FileBefore, Reads, FileSteps, I
  <2>2. b.op = "resolved" => f \in Dependencies(b.on)
    BY DEF Instruction, Before, FileBefore, Reads, FileSteps, I
  <2>3. b.op \in {"resolved", "storeOnce"} => Dependencies(f) \subseteq Dependencies(b.on)
    BY <2>1, DependenciesClosed
  <2>4. FileBefore(a, b)
    BY <2>1, <2>2, <2>3 DEF RawSteps, Before, FileBefore, Reads, FileSteps, I, RLock, RUnlock
  <2>5. TypeBefore(a, b) /\ GlobalBefore(a, b)
    BY DEF RawSteps, Before, TypeBefore, GlobalBefore, Reads, FileSteps, I, RLock, RUnlock
  <2> QED
    BY <2>4, <2>5 DEF Before
<1>9. Completes(I("rawInit", f), c)
  <2>1. \A a \in RawSteps(f) : After(a) = {}
    BY DEF RawSteps, After, I, RLock, RUnlock
  <2>2. After(z) \subseteq After(I("rawInit", f))
    BY DEF After, I
  <2> QED
    BY <1>6, <2>1, <2>2 DEF Completes
<1>10. /\ Expands(I("rawInit", f), c) /\ c \in Balanced
       /\ \A i \in 1 .. Len(c) : c[i] \in RawSteps(f) \cup {z}
       /\ \E i \in 1 .. Len(c) : c[i] = z
  BY <1>3, <1>4, <1>5, <1>6, <1>7, <1>8, <1>9 DEF Expands
<1> QED
  BY <1>10 DEF c, p

(* The locked part of needsInitCheck (checkinit.go via validate of the      *)
(* type) in place of the call.                                              *)
LEMMA NeedsInitCheckExpands ==
  ASSUME NEW m \in Messages
  PROVE  LET c == <<I("lockNeeds", m), I("explore", m), I("unlockNeeds", m)>>
         IN  Expands(I("needsInitCheck", m), c) /\ c \in Balanced
<1> DEFINE c == <<I("lockNeeds", m), I("explore", m), I("unlockNeeds", m)>>
<1>1. /\ c \in Seq(Instruction) /\ Len(c) = 3
      /\ c[1] = I("lockNeeds", m) /\ c[2] = I("explore", m) /\ c[3] = I("unlockNeeds", m)
  BY DEF Instruction, I
<1> HIDE DEF c
<1>2. Ordered(c)
  BY <1>1 DEF Ordered, Before, FileBefore, TypeBefore, GlobalBefore, Reads, First, FileSteps, I
<1>3. Inherits(I("needsInitCheck", m), c)
  BY <1>1 DEF Inherits, Before, FileBefore, TypeBefore, GlobalBefore, Reads, First, FileSteps, I
<1>4. Completes(I("needsInitCheck", m), c)
  BY <1>1 DEF Completes, After, I
<1>5. c \in Balanced
  BY <1>1, BalancedPlain DEF Reads, I
<1> QED
  BY <1>1, <1>2, <1>3, <1>4, <1>5 DEF Expands, c

(* A list for every field of a message. *)
LEMMA EachField ==
  ASSUME NEW m \in Messages, NEW op
  PROVE  FlattenSeq([i \in DOMAIN Fields[m] |-> <<I(op, Fields[m][i])>>])
           \in Seq({I(op, n) : n \in Messages})
<1> DEFINE S == {I(op, n) : n \in Messages}
           B == Seq(S)
<1> DEFINE F == Fields[m]
<1>1. F \in Seq(Messages)
  BY InstanceAssumption
<1>2. \A n \in Messages : <<I(op, n)>> \in B
  OBVIOUS
<1>3. <<>> \in B /\ \A x, y \in B : x \o y \in B
  OBVIOUS
<1> HIDE DEF S
<1>4. B \subseteq Seq(S)
  OBVIOUS
<1> HIDE DEF B, F
<1>5. [i \in DOMAIN F |-> <<I(op, F[i])>>] \in Seq(B)
  <2>1. \A i \in DOMAIN F : <<I(op, F[i])>> \in B
    BY <1>1, <1>2
  <2> QED
    BY <2>1, <1>1
<1>6. FlattenSeq([i \in DOMAIN F |-> <<I(op, F[i])>>]) \in B
  BY <1>3, <1>4, <1>5, FlattenSeqIn
<1> QED
  BY <1>6 DEF B, S, F

(* A list that has no read in it and whose instructions may follow h. *)
LEMMA PlainExpands ==
  ASSUME NEW h, NEW c \in Seq(Instruction), Inherits(h, c),
         \A i \in 1 .. Len(c) : c[i].op \in Free \ Reads
  PROVE  Expands(h, c) /\ c \in Balanced
<1>1. Expands(h, c)
  BY FreeExpands
<1>2. c \in Balanced
  BY BalancedPlain
<1> QED BY <1>1, <1>2

(* The exploration of a message type in place of the call.                  *)
LEMMA ExploreExpands ==
  ASSUME NEW m \in Messages, NEW c \in Seq(Instruction),
         \A i \in 1 .. Len(c) : c[i].op \in {"lazyInit", "explore", "storeVerdict"}
  PROVE  Expands(I("explore", m), c) /\ c \in Balanced
<1>1. Inherits(I("explore", m), c)
  BY DEF Inherits, Before, FileBefore, TypeBefore, GlobalBefore, Reads, First, FileSteps, I
<1> QED
  BY <1>1, PlainExpands DEF Free, Reads

(* The list that explores a message type: its file, its fields, its         *)
(* verdict.                                                                 *)
LEMMA ExploreWork ==
  ASSUME NEW m \in Messages, NEW each \in Seq({I("explore", n) : n \in Messages})
  PROVE  LET c == <<I("lazyInit", FileOf[m])>> \o each \o <<I("storeVerdict", m)>>
         IN  /\ c \in Seq(Instruction)
             /\ \A i \in 1 .. Len(c) : c[i].op \in {"lazyInit", "explore"} \/ c[i] = I("storeVerdict", m)
<1> DEFINE S == {I("lazyInit", FileOf[m]), I("storeVerdict", m)} \cup {I("explore", n) : n \in Messages}
           c == <<I("lazyInit", FileOf[m])>> \o each \o <<I("storeVerdict", m)>>
<1>1. c \in Seq(S)
  OBVIOUS
<1>2. S \subseteq Instruction /\ \A a \in S : a.op \in {"lazyInit", "explore"} \/ a = I("storeVerdict", m)
  BY InstanceAssumption DEF Instruction, I
<1> HIDE DEF S, c
<1>3. c \in Seq(Instruction) /\ \A i \in 1 .. Len(c) : c[i] \in S
  BY <1>1, <1>2
<1>4. /\ c \in Seq(Instruction)
      /\ \A i \in 1 .. Len(c) : c[i].op \in {"lazyInit", "explore"} \/ c[i] = I("storeVerdict", m)
  BY <1>2, <1>3
<1> QED
  BY <1>4 DEF c

(* MessageInfo.initOnce and its lock in place of MessageInfo.init.          *)
LEMMA InitExpands ==
  ASSUME NEW m \in Messages
  PROVE  LET c == <<I("lockInit", m), I("initOnce", m)>>
         IN  Expands(I("init", m), c) /\ c \in Balanced
<1> DEFINE c == <<I("lockInit", m), I("initOnce", m)>>
<1>1. c \in Seq(Instruction) /\ Len(c) = 2 /\ c[1] = I("lockInit", m) /\ c[2] = I("initOnce", m)
  BY DEF Instruction, I
<1> HIDE DEF c
<1>2. Ordered(c)
  BY <1>1 DEF Ordered, Before, FileBefore, TypeBefore, GlobalBefore, Reads, First, FileSteps, I
<1>3. Inherits(I("init", m), c)
  BY <1>1 DEF Inherits, Before, FileBefore, TypeBefore, GlobalBefore, Reads, First, FileSteps, I
<1>4. Completes(I("init", m), c)
  BY <1>1 DEF Completes, After, I
<1>5. c \in Balanced
  BY <1>1, BalancedPlain DEF Reads, I
<1> QED
  BY <1>1, <1>2, <1>3, <1>4, <1>5 DEF Expands, c

(* The rest of init under the lock: nothing but the unlocking, or the work. *)
LEMMA InitOnceExpands ==
  ASSUME NEW m \in Messages, NEW c \in Seq(Instruction),
         \A i \in 1 .. Len(c) : \/ c[i].op \in {"lazyInit", "needsInitCheck", "storeDone"}
                                \/ i = Len(c) /\ c[i] = I("unlockInit", m)
  PROVE  Expands(I("initOnce", m), c) /\ c \in Balanced
<1>1. \A i \in 1 .. Len(c) : c[i].op \in {"lazyInit", "needsInitCheck", "storeDone", "unlockInit"}
  BY DEF I
<1>2. \A i, j \in 1 .. Len(c) : i < j => c[i].op \in {"lazyInit", "needsInitCheck", "storeDone"}
  OBVIOUS
<1>3. Ordered(c)
  BY <1>1, <1>2 DEF Ordered, Before, FileBefore, TypeBefore, GlobalBefore, Reads, First, FileSteps
<1>4. Inherits(I("initOnce", m), c)
  BY <1>1 DEF Inherits, Before, FileBefore, TypeBefore, GlobalBefore, Reads, First, FileSteps, I
<1>5. Completes(I("initOnce", m), c)
  BY <1>1 DEF Completes, After
<1>6. c \in Balanced
  BY <1>1, BalancedPlain DEF Reads
<1> QED
  BY <1>3, <1>4, <1>5, <1>6 DEF Expands

(* The list that makes the tables of a message type ends with the store of  *)
(* the flag and the unlocking.                                              *)
LEMMA InitWork ==
  ASSUME NEW m \in Messages, NEW each \in Seq({I("needsInitCheck", n) : n \in Messages})
  PROVE  LET c == <<I("lazyInit", FileOf[m])>> \o each \o <<I("needsInitCheck", m)>>
                    \o <<I("storeDone", m), I("unlockInit", m)>>
         IN  /\ c \in Seq(Instruction) /\ Len(c) > 1
             /\ \A i \in 1 .. Len(c) : \/ c[i].op \in {"lazyInit", "needsInitCheck", "storeDone"}
                                       \/ i = Len(c) /\ c[i] = I("unlockInit", m)
             /\ c[Len(c)] = I("unlockInit", m) /\ c[Len(c) - 1] = I("storeDone", m)
<1> DEFINE S == {I("lazyInit", FileOf[m])} \cup {I("needsInitCheck", n) : n \in Messages}
           q == <<I("lazyInit", FileOf[m])>> \o each \o <<I("needsInitCheck", m)>>
           e == <<I("storeDone", m), I("unlockInit", m)>>
           c == q \o e
<1>1. q \in Seq(S)
  OBVIOUS
<1>2. S \subseteq Instruction /\ \A a \in S : a.op \in {"lazyInit", "needsInitCheck"}
  BY InstanceAssumption DEF Instruction, I
<1>3. e \in Seq(Instruction) /\ Len(e) = 2 /\ e[1] = I("storeDone", m) /\ e[2] = I("unlockInit", m)
  BY DEF Instruction, I
<1> HIDE DEF S, q, e
<1>4. q \in Seq(Instruction) /\ Len(q) \in Nat /\ \A i \in 1 .. Len(q) : q[i].op \in {"lazyInit", "needsInitCheck"}
  BY <1>1, <1>2
<1>5. /\ c \in Seq(Instruction) /\ Len(c) = Len(q) + 2
      /\ \A i \in 1 .. Len(c) : c[i] = IF i <= Len(q) THEN q[i] ELSE e[i - Len(q)]
  <2>1. q \in Seq(Instruction) /\ e \in Seq(Instruction)
    BY <1>3, <1>4
  <2>2. /\ c \in Seq(Instruction) /\ Len(c) = Len(q) + Len(e)
        /\ \A i \in 1 .. Len(c) : c[i] = IF i <= Len(q) THEN q[i] ELSE e[i - Len(q)]
    BY <2>1, ConcatProperties
  <2> QED
    BY <2>2, <1>3
<1> HIDE DEF c
<1>6. c[Len(c)] = I("unlockInit", m) /\ c[Len(c) - 1] = I("storeDone", m)
  <2>1. Len(c) \in 1 .. Len(c) /\ ~(Len(c) <= Len(q)) /\ Len(c) - Len(q) = 2
    BY <1>4, <1>5
  <2>2. Len(c) - 1 \in 1 .. Len(c) /\ ~(Len(c) - 1 <= Len(q)) /\ (Len(c) - 1) - Len(q) = 1
    BY <1>4, <1>5
  <2> QED
    BY <2>1, <2>2, <1>3, <1>5
<1>7. ASSUME NEW i \in 1 .. Len(c)
      PROVE  c[i].op \in {"lazyInit", "needsInitCheck", "storeDone"} \/ i = Len(c)
  <2>1. i \in 1 .. Len(q) \/ i = Len(c) - 1 \/ i = Len(c)
    BY <1>4, <1>5
  <2>2. CASE i \in 1 .. Len(q)
    <3>1. c[i] = q[i]
      BY <2>2, <1>4, <1>5
    <3> QED BY <3>1, <2>2, <1>4
  <2>3. CASE i = Len(c) - 1
    BY <2>3, <1>6 DEF I
  <2> QED BY <2>1, <2>2, <2>3
<1>8. /\ c \in Seq(Instruction) /\ Len(c) > 1
      /\ \A i \in 1 .. Len(c) : \/ c[i].op \in {"lazyInit", "needsInitCheck", "storeDone"}
                                \/ i = Len(c) /\ c[i] = I("unlockInit", m)
      /\ c[Len(c)] = I("unlockInit", m) /\ c[Len(c) - 1] = I("storeDone", m)
  BY <1>4, <1>5, <1>6, <1>7
<1> QED
  BY <1>8 DEF c, q, e

(* A list that begins with the initialization of the extension x under its  *)
(* lock, and may go on to use the descriptor.                               *)
LEMMA SlowExpands ==
  ASSUME NEW x \in Extensions, NEW op \in {"TypeDescriptor", "lazyInitExtension"},
         NEW c \in Seq(Instruction), Len(c) \in {3, 4}, c[1] = I("lockExtension", x),
         c[2] = I("lazyInitSlow", x), c[3] = I("unlockExtension", x),
         Len(c) = 4 => c[4] = I("useDescriptor", x)
  PROVE  Expands(I(op, x), c) /\ c \in Balanced
<1>1. \A i \in 1 .. Len(c) : i = 1 \/ i = 2 \/ i = 3 \/ (i = 4 /\ Len(c) = 4)
  <2> DEFINE n == Len(c)
  <2>1. n \in Nat /\ n \in {3, 4}
    OBVIOUS
  <2> HIDE DEF n
  <2>2. \A i \in 1 .. n : i = 1 \/ i = 2 \/ i = 3 \/ (i = 4 /\ n = 4)
    BY <2>1
  <2> QED BY <2>2 DEF n
<1>2. Ordered(c)
  BY <1>1 DEF Ordered, Before, FileBefore, TypeBefore, GlobalBefore, Reads, First, FileSteps, I
<1>3. Inherits(I(op, x), c)
  BY <1>1 DEF Inherits, Before, FileBefore, TypeBefore, GlobalBefore, Reads, First, FileSteps, I
<1>4. Completes(I(op, x), c)
  BY <1>1 DEF Completes, After, I
<1>5. \A i \in 1 .. Len(c) : c[i].op \notin Reads
  BY <1>1 DEF Reads, I
<1>6. c \in Balanced
  BY <1>5, BalancedPlain
<1> QED
  BY <1>2, <1>3, <1>4, <1>6 DEF Expands

(* TypeDescriptor, once the descriptor is there, only uses it.              *)
LEMMA DescriptorExpands ==
  ASSUME NEW x \in Extensions
  PROVE  LET c == <<I("useDescriptor", x)>>
         IN  Expands(I("TypeDescriptor", x), c) /\ c \in Balanced
<1> DEFINE c == <<I("useDescriptor", x)>>
<1>1. c \in Seq(Instruction) /\ Len(c) = 1 /\ c[1] = I("useDescriptor", x)
  BY DEF Instruction, I
<1> HIDE DEF c
<1>2. Inherits(I("TypeDescriptor", x), c)
  BY <1>1 DEF Inherits, Before, FileBefore, TypeBefore, GlobalBefore, Reads, First, FileSteps, I
<1>3. Expands(I("TypeDescriptor", x), c) /\ c \in Balanced
  BY <1>1, <1>2, PlainExpands DEF Free, Reads, I
<1> QED
  BY <1>3 DEF c

(* The instructions of lazyInitSlow. *)
SlowSteps == {"lazyInit", "setDesc", "setConv", "storeFull"} \cup Reads

(* The instructions of lazyInitSlow in place of the call.                   *)
LEMMA SlowStepsExpand ==
  ASSUME NEW x \in Extensions, NEW c \in Seq(Instruction), \A i \in 1 .. Len(c) : c[i].op \in SlowSteps
  PROVE  Expands(I("lazyInitSlow", x), c)
<1>1. Inherits(I("lazyInitSlow", x), c)
  BY DEF Inherits, Before, FileBefore, TypeBefore, GlobalBefore, Reads, First, FileSteps, SlowSteps, I
<1> QED
  BY <1>1, FreeExpands DEF Free, SlowSteps, Reads

(* The writer's wait for the readers in place of Lock.                      *)
LEMMA LockedExpands ==
  LET c == <<I("Locked", None)>>
  IN  Expands(I("Lock", None), c) /\ c \in Balanced
<1> DEFINE c == <<I("Locked", None)>>
<1>1. c \in Seq(Instruction) /\ Len(c) = 1 /\ c[1] = I("Locked", None)
  BY DEF Instruction, I
<1> HIDE DEF c
<1>2. Inherits(I("Lock", None), c)
  BY <1>1 DEF Inherits, Before, FileBefore, TypeBefore, GlobalBefore, Reads, First, FileSteps, I
<1>3. Completes(I("Lock", None), c)
  BY <1>1 DEF Completes, After, I
<1>4. Ordered(c)
  BY <1>1 DEF Ordered
<1>5. c \in Balanced
  BY <1>1, BalancedPlain DEF Reads, I
<1> QED
  BY <1>1, <1>2, <1>3, <1>4, <1>5 DEF Expands, c

-----------------------------------------------------------------------------
(* What a step does to the invariant. *)

(* Which instructions a list has before and after its head is replaced.     *)
LEMMA AnyStep ==
  ASSUME NEW s \in Seq(Instruction), s # <<>>, NEW c \in Seq(Instruction), NEW r, r = c \o Tail(s), NEW U
  PROVE  /\ AnyIn(s, U) <=> s[1] \in U \/ Later(s, U)
         /\ AnyIn(r, U) <=> AnyIn(c, U) \/ Later(s, U)
<1>1. /\ Len(r) = Len(c) + Len(s) - 1 /\ Len(s) >= 1
      /\ \A i \in 1 .. Len(c) : r[i] = c[i]
      /\ \A i \in 2 .. Len(s) : r[Len(c) + i - 1] = s[i]
      /\ \A i \in 1 .. Len(r) : i \in 1 .. Len(c)
                                \/ (i - Len(c) + 1 \in 2 .. Len(s) /\ r[i] = s[i - Len(c) + 1])
  BY Replaced
<1>2. Len(c) \in Nat /\ Len(s) \in Nat /\ Len(r) \in Nat
  BY <1>1
<1>3. AnyIn(s, U) <=> s[1] \in U \/ Later(s, U)
  <2>1. \A i \in 1 .. Len(s) : i = 1 \/ i \in 2 .. Len(s)
    BY <1>2
  <2>2. 1 \in 1 .. Len(s) /\ \A i \in 2 .. Len(s) : i \in 1 .. Len(s)
    BY <1>1, <1>2
  <2> QED
    BY <2>1, <2>2 DEF AnyIn, Later
<1>4. AnyIn(r, U) => AnyIn(c, U) \/ Later(s, U)
  BY <1>1 DEF AnyIn, Later
<1>5. AnyIn(c, U) => AnyIn(r, U)
  <2>1. \A i \in 1 .. Len(c) : i \in 1 .. Len(r)
    BY <1>1, <1>2
  <2> QED
    BY <2>1, <1>1 DEF AnyIn
<1>6. Later(s, U) => AnyIn(r, U)
  <2>1. \A i \in 2 .. Len(s) : Len(c) + i - 1 \in 1 .. Len(r)
    BY <1>1, <1>2
  <2> QED
    BY <2>1, <1>1 DEF AnyIn, Later
<1> QED
  BY <1>3, <1>4, <1>5, <1>6

(* The first instruction of a list whose head is replaced, and what follows *)
(* the head.                                                                *)
LEMMA FirstStep ==
  ASSUME NEW s \in Seq(Instruction), s # <<>>, Ordered(s), NEW c \in Seq(Instruction), NEW r, r = c \o Tail(s)
  PROVE  /\ c = <<>> => r = <<>> \/ (r[1] = s[2] /\ Len(s) > 1 /\ r[1].op \notin First)
         /\ c # <<>> => r # <<>> /\ r[1] = c[1]
         /\ \A i \in 2 .. Len(s) : s[i] \in Instruction /\ Before(s[1], s[i])
         /\ s[1] \in Instruction
<1>1. /\ r \in Seq(Instruction) /\ Len(r) = Len(c) + Len(s) - 1 /\ Len(s) >= 1
      /\ \A i \in 1 .. Len(c) : r[i] = c[i]
      /\ \A i \in 2 .. Len(s) : r[Len(c) + i - 1] = s[i]
  BY Replaced
<1>2. Len(c) \in Nat /\ Len(s) \in Nat
  OBVIOUS
<1>3. \A i \in 2 .. Len(s) : s[i] \in Instruction /\ Before(s[1], s[i])
  <2>1. \A i \in 2 .. Len(s) : i \in 1 .. Len(s) /\ 1 \in 1 .. Len(s) /\ 1 < i
    BY <1>1, <1>2
  <2> QED
    BY <2>1 DEF Ordered
<1>4. ASSUME c = <<>>, r # <<>> PROVE r[1] = s[2] /\ Len(s) > 1 /\ r[1].op \notin First
  <2>1. Len(c) = 0 /\ Len(r) # 0
    BY <1>1, <1>4
  <2>2. 2 \in 2 .. Len(s) /\ Len(c) + 2 - 1 = 1
    BY <2>1, <1>1, <1>2
  <2>3. r[1] = s[2]
    BY <2>2, <1>1
  <2> QED
    BY <2>2, <2>3, <1>3, <1>2 DEF Before
<1>5. ASSUME c # <<>> PROVE r # <<>> /\ r[1] = c[1]
  <2>1. Len(c) # 0
    BY <1>5
  <2>2. 1 \in 1 .. Len(c) /\ Len(r) # 0
    BY <2>1, <1>1, <1>2
  <2> QED
    BY <2>2, <1>1
<1>6. s[1] \in Instruction
  BY <1>1, <1>2
<1> QED
  BY <1>3, <1>4, <1>5, <1>6

Foremost(L) == \A a \in L : a.op \in First

(* Who holds a mutex before and after a step. *)
LEMMA HoldsStep ==
  ASSUME NEW s \in Seq(Instruction), s # <<>>, Ordered(s), NEW c \in Seq(Instruction), NEW r, r = c \o Tail(s),
         NEW U, NEW L, Foremost(L)
  PROVE  /\ Holds(s, U, L) <=> (s[1] \in U \/ Later(s, U)) /\ s[1] \notin L
         /\ Holds(r, U, L) <=> (AnyIn(c, U) \/ Later(s, U)) /\ (c = <<>> \/ c[1] \notin L)
<1>1. /\ AnyIn(s, U) <=> s[1] \in U \/ Later(s, U)
      /\ AnyIn(r, U) <=> AnyIn(c, U) \/ Later(s, U)
  BY AnyStep
<1>2. /\ c = <<>> => r = <<>> \/ r[1].op \notin First
      /\ c # <<>> => r # <<>> /\ r[1] = c[1]
  BY FirstStep, ZenonT(60)
<1> QED
  BY <1>1, <1>2 DEF Holds, Foremost

Replaces(t, c) ==
  /\ t \in Threads /\ todo[t] # <<>> /\ c \in Seq(Instruction)
  /\ todo' = [todo EXCEPT ![t] = c \o Tail(todo[t])]

Listed == todo \in [Threads -> Seq(Instruction)] /\ Lists

Avoids(t, c, ops) == todo[t][1].op \notin ops /\ \A i \in 1 .. Len(c) : c[i].op \notin ops

(* The lists of the goroutines before and after a step.                     *)
LEMMA ReplacedList ==
  ASSUME Listed, NEW t, NEW c, Replaces(t, c)
  PROVE  /\ t \in Threads /\ todo[t] \in Seq(Instruction) /\ todo[t] # <<>> /\ c \in Seq(Instruction)
         /\ Ordered(todo[t]) /\ Pending(todo[t]) /\ Prepared(todo[t])
         /\ todo' \in [Threads -> Seq(Instruction)]
         /\ todo'[t] = c \o Tail(todo[t]) /\ \A u \in Threads : u # t => todo'[u] = todo[u]
<1>1. t \in Threads /\ todo[t] \in Seq(Instruction) /\ todo[t] # <<>> /\ c \in Seq(Instruction)
  BY DEF Listed, Replaces
<1>2. c \o Tail(todo[t]) \in Seq(Instruction)
  BY <1>1, Replaced
<1> QED
  BY <1>1, <1>2 DEF Listed, Lists, Replaces

(* A step keeps all lists well formed.                                      *)
LEMMA ListsStep ==
  ASSUME Listed, NEW t, NEW c, Replaces(t, c), Expands(todo[t][1], c), Keeps(todo[t][1], c), Ready(c), Monotone
  PROVE  Listed'
<1>1. PICK s : s = todo[t]
  OBVIOUS
<1>2. PICK r : r = c \o Tail(s)
  OBVIOUS
<1>3. /\ t \in Threads /\ s \in Seq(Instruction) /\ s # <<>> /\ c \in Seq(Instruction)
      /\ Ordered(s) /\ Pending(s) /\ Prepared(s)
      /\ todo' \in [Threads -> Seq(Instruction)]
      /\ todo'[t] = r /\ \A u \in Threads : u # t => todo'[u] = todo[u]
  BY <1>1, <1>2, ReplacedList
<1>4. Ordered(c) /\ Inherits(s[1], c) /\ Completes(s[1], c) /\ Keeps(s[1], c)
  BY <1>1 DEF Expands, Keeps
<1>5. Ordered(r)
  BY <1>2, <1>3, <1>4, OrderedStep
<1>6. Pending(r)
  BY <1>2, <1>3, <1>4, PendingStep
<1>7. \A i \in 1 .. Len(r) : \A k \in Wants(r[i].op) :
           Made(k, r[i].on)' \/ \E j \in 1 .. Len(r) : j < i /\ Makes(r[j], k, r[i].on)
  BY <1>2, <1>3, <1>4, PreparedStep
<1>8. ASSUME NEW u \in Threads, NEW q, q = todo'[u] PROVE Ordered(q) /\ Pending(q) /\ Prepared(q)'
  <2>1. CASE u = t
    <3>1. q = r
      BY <2>1, <1>3, <1>8
    <3> QED
      BY <3>1, <1>5, <1>6, <1>7 DEF Prepared
  <2>2. CASE u # t
    <3>1. q = todo[u] /\ q \in Seq(Instruction)
      BY <2>2, <1>3, <1>8 DEF Listed
    <3>2. Ordered(q) /\ Pending(q) /\ Prepared(q)
      BY <3>1 DEF Listed, Lists, Prepared
    <3>3. \A i \in 1 .. Len(q) : q[i] \in Instruction
      BY <3>1
    <3>4. Prepared(q)'
      BY <3>2, <3>3 DEF Prepared, Monotone
    <3> QED
      BY <3>2, <3>4
  <2> QED BY <2>1, <2>2
<1>9. ASSUME NEW u \in Threads PROVE (Ordered(todo[u]) /\ Pending(todo[u]) /\ Prepared(todo[u]))'
  <2>1. PICK q : q = todo'[u]
    OBVIOUS
  <2>2. Ordered(q) /\ Pending(q) /\ Prepared(q)'
    BY <2>1, <1>8
  <2> QED
    BY <2>1, <2>2 DEF Ordered, Pending, Prepared
<1> QED
  BY <1>3, <1>9 DEF Listed, Lists

(* A step that is not about the read lock keeps the read locks nested.      *)
LEMMA ReadingStep ==
  ASSUME Listed, NEW t, NEW c, Replaces(t, c), Reading, c \in Balanced, Delta(todo[t][1]) = 0, readers' = readers
  PROVE  Reading'
<1>1. /\ t \in Threads /\ todo[t] \in Seq(Instruction) /\ todo[t] # <<>>
      /\ todo'[t] = c \o Tail(todo[t]) /\ \A u \in Threads : u # t => todo'[u] = todo[u]
  BY ReplacedList
<1>2. Depths(todo[t], readers[t]) # {}
  BY <1>1 DEF Reading
<1>3. Depths(c \o Tail(todo[t]), readers[t]) # {}
  BY <1>1, <1>2, DepthsStep
<1>4. ASSUME NEW u \in Threads PROVE Depths(todo[u], readers[u])' # {}
  <2>1. CASE u = t
    BY <2>1, <1>1, <1>3 DEF Depths
  <2>2. CASE u # t
    <3>1. todo'[u] = todo[u] /\ readers'[u] = readers[u] /\ Depths(todo[u], readers[u]) # {}
      BY <2>2, <1>1 DEF Reading
    <3>2. Depths(todo'[u], readers'[u]) # {}
      BY <3>1
    <3> QED
      BY <3>2 DEF Depths
  <2> QED BY <2>1, <2>2
<1> QED
  BY <1>4 DEF Reading

(* The mutexes whose instructions a step neither runs nor adds. *)
FileOps == {"lockFile", "storeOnce"}
InitOps == {"lockInit", "initOnce", "unlockInit"}
NeedsOps == {"lockNeeds", "unlockNeeds"}
ExtensionOps == {"lockExtension", "unlockExtension"}
GlobalOps == {"Lock", "Locked", "Unlock"}

(* A step that neither takes nor gives back a mutex does not change who     *)
(* holds it.                                                                *)
LEMMA HoldsSame ==
  ASSUME Listed, NEW t, NEW c, Replaces(t, c), NEW ops, Avoids(t, c, ops),
         NEW U, NEW L, \A a \in U \cup L : a.op \in ops, Foremost(L), NEW u \in Threads
  PROVE  Holds(todo'[u], U, L) <=> Holds(todo[u], U, L)
<1>1. /\ t \in Threads /\ todo[t] \in Seq(Instruction) /\ todo[t] # <<>> /\ c \in Seq(Instruction)
      /\ Ordered(todo[t])
      /\ todo'[t] = c \o Tail(todo[t]) /\ \A v \in Threads : v # t => todo'[v] = todo[v]
  BY ReplacedList
<1>2. todo[t][1] \notin U \cup L /\ ~AnyIn(c, U \cup L)
  BY DEF Avoids, AnyIn
<1>3. Holds(todo'[t], U, L) <=> Holds(todo[t], U, L)
  <2>0. PICK s \in Seq(Instruction) : s = todo[t]
    BY <1>1
  <2>1. PICK r : s = todo[t] /\ r = todo'[t]
    BY <2>0
  <2>2. s # <<>> /\ Ordered(s) /\ r = c \o Tail(s) /\ s[1] \notin U \cup L /\ c \in Seq(Instruction)
    BY <2>1, <1>1, <1>2
  <2>3. /\ Holds(s, U, L) <=> (s[1] \in U \/ Later(s, U)) /\ s[1] \notin L
        /\ Holds(r, U, L) <=> (AnyIn(c, U) \/ Later(s, U)) /\ (c = <<>> \/ c[1] \notin L)
    BY <2>2, HoldsStep, ZenonT(60)
  <2>4. c # <<>> => 1 \in 1 .. Len(c)
    BY <2>2
  <2>5. ~AnyIn(c, U) /\ (c = <<>> \/ c[1] \notin L)
    BY <2>4, <1>2 DEF AnyIn
  <2> QED
    BY <2>1, <2>2, <2>3, <2>5
<1> QED
  BY <1>1, <1>3

(* A step that neither runs nor adds an instruction does not change who has *)
(* it.                                                                      *)
LEMMA HasSame ==
  ASSUME Listed, NEW t, NEW c, Replaces(t, c), NEW x, todo[t][1] # x, ~Has(c, x), NEW u \in Threads
  PROVE  Has(todo'[u], x) <=> Has(todo[u], x)
<1>1. /\ t \in Threads /\ todo[t] \in Seq(Instruction) /\ todo[t] # <<>> /\ c \in Seq(Instruction)
      /\ todo'[t] = c \o Tail(todo[t]) /\ \A v \in Threads : v # t => todo'[v] = todo[v]
  BY ReplacedList
<1>2. /\ AnyIn(todo[t], {x}) <=> todo[t][1] \in {x} \/ Later(todo[t], {x})
      /\ AnyIn(todo'[t], {x}) <=> AnyIn(c, {x}) \/ Later(todo[t], {x})
  BY <1>1, AnyStep
<1> QED
  BY <1>1, <1>2 DEF Has

(* What a step keeps of the locks, the half-made files and the marks        *)
(* because it is not about them.                                            *)
LEMMA Untouched ==
  ASSUME Listed, NEW t, NEW c, Replaces(t, c)
  PROVE  /\ FileLocks /\ Avoids(t, c, FileOps) /\ fmu' = fmu => FileLocks'
         /\ InitLocks /\ Avoids(t, c, InitOps) /\ imu' = imu => InitLocks'
         /\ NeedsLock /\ Avoids(t, c, NeedsOps) /\ nmu' = nmu => NeedsLock'
         /\ ExtensionLocks /\ Avoids(t, c, ExtensionOps) /\ xmu' = xmu => ExtensionLocks'
         /\ GlobalLock /\ Avoids(t, c, GlobalOps) /\ writer' = writer => GlobalLock'
         /\ Partials /\ todo[t][1].op # "resolved" /\ L2' = L2 => Partials'
         /\ Marks /\ (\A i \in 1 .. Len(c) : c[i].op # "storeVerdict") /\ marked \subseteq marked' => Marks'
<1>1. ASSUME FileLocks, Avoids(t, c, FileOps), fmu' = fmu PROVE FileLocks'
  <2> SUFFICES ASSUME NEW u \in Threads, NEW f \in Files PROVE (fmu[f] = u <=> HoldsFile(todo[u], f))'
    BY DEF FileLocks
  <2>1. Holds(todo'[u], {I("storeOnce", f)}, {I("lockFile", f)}) <=> Holds(todo[u], {I("storeOnce", f)}, {I("lockFile", f)})
    BY <1>1, HoldsSame DEF FileOps, First, Foremost, I
  <2> QED
    BY <2>1, <1>1 DEF FileLocks, HoldsFile, Holds, AnyIn
<1>2. ASSUME InitLocks, Avoids(t, c, InitOps), imu' = imu PROVE InitLocks'
  <2> SUFFICES ASSUME NEW u \in Threads, NEW m \in Messages PROVE (imu[m] = u <=> HoldsInit(todo[u], m))'
    BY DEF InitLocks
  <2> DEFINE U == {I("initOnce", m), I("unlockInit", m)}
             L == {I("lockInit", m)}
  <2>1. (\A a \in U \cup L : a.op \in InitOps) /\ (Foremost(L))
    BY DEF InitOps, First, Foremost, I
  <2> HIDE DEF U, L
  <2>2. Holds(todo'[u], U, L) <=> Holds(todo[u], U, L)
    BY <2>1, <1>2, HoldsSame
  <2> QED
    BY <2>2, <1>2 DEF InitLocks, HoldsInit, Holds, AnyIn, U, L
<1>3. ASSUME NeedsLock, Avoids(t, c, NeedsOps), nmu' = nmu PROVE NeedsLock'
  <2> SUFFICES ASSUME NEW u \in Threads PROVE (nmu = u <=> HoldsNeeds(todo[u]))'
    BY DEF NeedsLock
  <2> DEFINE U == [op : {"unlockNeeds"}, on : Messages]
             L == [op : {"lockNeeds"}, on : Messages]
  <2>1. (\A a \in U \cup L : a.op \in NeedsOps) /\ (Foremost(L))
    BY DEF NeedsOps, First, Foremost
  <2> HIDE DEF U, L
  <2>2. Holds(todo'[u], U, L) <=> Holds(todo[u], U, L)
    BY <2>1, <1>3, HoldsSame
  <2> QED
    BY <2>2, <1>3 DEF NeedsLock, HoldsNeeds, Holds, AnyIn, U, L
<1>4. ASSUME ExtensionLocks, Avoids(t, c, ExtensionOps), xmu' = xmu PROVE ExtensionLocks'
  <2> SUFFICES ASSUME NEW u \in Threads, NEW x \in Extensions PROVE (xmu[x] = u <=> HoldsExtension(todo[u], x))'
    BY DEF ExtensionLocks
  <2>1. Holds(todo'[u], {I("unlockExtension", x)}, {I("lockExtension", x)})
        <=> Holds(todo[u], {I("unlockExtension", x)}, {I("lockExtension", x)})
    BY <1>4, HoldsSame DEF ExtensionOps, First, Foremost, I
  <2> QED
    BY <2>1, <1>4 DEF ExtensionLocks, HoldsExtension, Holds, AnyIn
<1>5. ASSUME GlobalLock, Avoids(t, c, GlobalOps), writer' = writer PROVE GlobalLock'
  <2>1. t \in Threads /\ \A u \in Threads : u # t => todo'[u] = todo[u]
    BY ReplacedList
  <2>2. todo[t][1].op \notin GlobalOps
    BY <1>5 DEF Avoids
  <2>3. ASSUME NEW x \in {I("Unlock", None), I("Lock", None)}, NEW u \in Threads
        PROVE  Has(todo'[u], x) <=> Has(todo[u], x)
    <3>1. todo[t][1] # x /\ ~Has(c, x)
      BY <1>5 DEF Avoids, GlobalOps, Has, AnyIn, I
    <3> QED
      BY <3>1, HasSame
  <2>4. \A u \in Threads : HoldsGlobal(todo'[u]) <=> HoldsGlobal(todo[u])
    BY <2>3 DEF HoldsGlobal
  <2>5. ~HoldsGlobal(todo[t])
    BY <2>1, <2>2, <1>5 DEF GlobalLock, Starts, GlobalOps, I
  <2>6. ASSUME NEW u \in Threads
        PROVE  /\ writer' = u <=> HoldsGlobal(todo'[u])
               /\ HoldsGlobal(todo'[u]) => Starts(todo'[u], I("Locked", None)) \/ Starts(todo'[u], I("Unlock", None))
    BY <2>1, <2>4, <2>5, <1>5 DEF GlobalLock
  <2> QED
    BY <2>6 DEF GlobalLock, HoldsGlobal, Has, AnyIn, Starts, I
<1>6. ASSUME Partials, todo[t][1].op # "resolved", L2' = L2 PROVE Partials'
  <2> SUFFICES ASSUME NEW f \in Files, L2'[f] = "partial" PROVE \E u \in Threads : Has(todo'[u], I("resolved", f))
    BY DEF Partials, Has, AnyIn, I
  <2>1. PICK u \in Threads : Has(todo[u], I("resolved", f))
    BY <1>6 DEF Partials
  <2>2. /\ t \in Threads /\ todo[t] \in Seq(Instruction) /\ todo[t] # <<>> /\ c \in Seq(Instruction)
        /\ todo'[t] = c \o Tail(todo[t]) /\ \A v \in Threads : v # t => todo'[v] = todo[v]
    BY ReplacedList
  <2> DEFINE U == {I("resolved", f)}
  <2>3. /\ AnyIn(todo[t], U) <=> todo[t][1] \in U \/ Later(todo[t], U)
        /\ AnyIn(todo'[t], U) <=> AnyIn(c, U) \/ Later(todo[t], U)
    BY <2>2, AnyStep
  <2>4. todo[t][1] \notin U
    BY <1>6 DEF I
  <2> HIDE DEF U
  <2>5. Has(todo'[u], I("resolved", f))
    BY <2>1, <2>2, <2>3, <2>4 DEF Has, U
  <2> QED
    BY <2>5
<1>7. ASSUME Marks, \A i \in 1 .. Len(c) : c[i].op # "storeVerdict", marked \subseteq marked' PROVE Marks'
  <2> SUFFICES ASSUME NEW u \in Threads, NEW m \in Messages, Has(todo'[u], I("storeVerdict", m)) PROVE m \in marked'
    BY DEF Marks, Has, AnyIn, I
  <2>2. /\ t \in Threads /\ todo[t] \in Seq(Instruction) /\ todo[t] # <<>> /\ c \in Seq(Instruction)
        /\ todo'[t] = c \o Tail(todo[t]) /\ \A v \in Threads : v # t => todo'[v] = todo[v]
    BY ReplacedList
  <2> DEFINE U == {I("storeVerdict", m)}
  <2>3. /\ AnyIn(todo[t], U) <=> todo[t][1] \in U \/ Later(todo[t], U)
        /\ AnyIn(todo'[t], U) <=> AnyIn(c, U) \/ Later(todo[t], U)
    BY <2>2, AnyStep
  <2>4. ~AnyIn(c, U)
    BY <1>7 DEF AnyIn, I
  <2> HIDE DEF U
  <2>5. Has(todo[u], I("storeVerdict", m))
    BY <2>2, <2>3, <2>4 DEF Has, U
  <2> QED
    BY <2>5, <1>7 DEF Marks
<1> QED
  BY <1>1, <1>2, <1>3, <1>4, <1>5, <1>6, <1>7

Without(c, ops) == \A i \in 1 .. Len(c) : c[i].op \notin ops

(* The instructions that make something. *)
MakerOps == {"lazyInit", "storeOnce", "rawInit", "resolved", "init", "initOnce", "storeDone", "lazyInitSlow",
             "setDesc", "lazyInitExtension", "setConv"}

(* The head of the list of a goroutine that is at an instruction.           *)
LEMMA AtStep ==
  ASSUME Inv, NEW t \in Threads, NEW op, At(t, op)
  PROVE  /\ Listed /\ todo[t] # <<>> /\ todo[t] \in Seq(Instruction)
         /\ todo[t][1] = I(op, Arg(t)) /\ todo[t][1] \in Instruction
<1>1. Listed
  BY DEF Inv, TypeOK, Listed
<1>2. todo[t] # <<>> /\ todo[t] \in Seq(Instruction)
  BY <1>1 DEF Listed, At
<1>3. Head(todo[t]) = todo[t][1] /\ todo[t][1] \in Instruction
  BY <1>2
<1>4. \A a \in Instruction : a = I(a.op, a.on)
  BY DEF Instruction, I
<1> QED
  BY <1>1, <1>2, <1>3, <1>4 DEF At, Arg

(* A step that changes no flag and no contents unmakes nothing.             *)
LEMMA NothingMade ==
  ASSUME UNCHANGED <<once, L2, initDone, desc, conv>>
  PROVE  Monotone
BY DEF Monotone, Made

(* A step that only sets flags and contents unmakes nothing.                *)
LEMMA OnlyMore ==
  ASSUME \A f \in Files : (once[f] => once'[f]) /\ (L2[f] = "full" => L2'[f] = "full"),
         \A m \in Messages : initDone[m] => initDone'[m],
         \A x \in Extensions : (desc[x] => desc'[x]) /\ (conv[x] => conv'[x])
  PROVE  Monotone
<1> SUFFICES ASSUME NEW b \in Instruction, NEW k \in Wants(b.op), Made(k, b.on) PROVE Made(k, b.on)'
  BY DEF Monotone
<1>1. \/ k \in {"once", "contents"} /\ b.on \in Files
      \/ k = "tables" /\ b.on \in Messages
      \/ k \in {"descriptor", "converter"} /\ b.on \in Extensions
  BY DEF Wants, Instruction
<1>2. CASE k \in {"once", "contents"} /\ b.on \in Files
  BY <1>2 DEF Made
<1>3. CASE k = "tables" /\ b.on \in Messages
  BY <1>3 DEF Made
<1>4. CASE k \in {"descriptor", "converter"} /\ b.on \in Extensions
  BY <1>4 DEF Made
<1> QED BY <1>1, <1>2, <1>3, <1>4

(* Replacing an instruction that makes nothing takes nothing from the rest  *)
(* of the list.                                                             *)
LEMMA NoMaker ==
  ASSUME NEW op, op \notin MakerOps, NEW on, NEW c
  PROVE  Keeps(I(op, on), c)
BY DEF Keeps, Makes, Makers, MakerOps, Wants, I

(* The empty list in place of a head: it asks for nothing.                  *)
LEMMA Nothing ==
  /\ Ready(<<>>) /\ <<>> \in Seq(Instruction) /\ <<>> \in Balanced
  /\ \A h : Expands(h, <<>>)
  /\ \A ops : Without(<<>>, ops)
<1>1. Len(<<>>) = 0 /\ <<>> \in Seq(Instruction)
  OBVIOUS
<1>2. Ready(<<>>) /\ \A ops : Without(<<>>, ops)
  BY <1>1 DEF Ready, Without
<1> QED
  BY <1>1, <1>2, EmptyExpands

(* What every step keeps, and what it keeps unless it is about a mutex. *)
LEMMA StepKeeps ==
  ASSUME Inv, NEW t \in Threads, NEW op, NEW on, At(t, op), Arg(t) = on, NEW c, Continue(t, c), Expands(I(op, on), c),
         Keeps(I(op, on), c), Ready(c), Monotone
  PROVE  /\ todo' \in [Threads -> Seq(Instruction)] /\ Lists'
         /\ Replaces(t, c) /\ c \in Seq(Instruction)
         /\ op \notin Reads /\ c \in Balanced /\ readers' = readers => Reading'
         /\ op \notin FileOps /\ Without(c, FileOps) /\ fmu' = fmu => FileLocks'
         /\ op \notin InitOps /\ Without(c, InitOps) /\ imu' = imu => InitLocks'
         /\ op \notin NeedsOps /\ Without(c, NeedsOps) /\ nmu' = nmu => NeedsLock'
         /\ op \notin ExtensionOps /\ Without(c, ExtensionOps) /\ xmu' = xmu => ExtensionLocks'
         /\ op \notin GlobalOps /\ Without(c, GlobalOps) /\ writer' = writer => GlobalLock'
         /\ op # "resolved" /\ L2' = L2 => Partials'
         /\ Without(c, {"storeVerdict"}) /\ marked \subseteq marked' => Marks'
<1>1. Listed /\ todo[t] # <<>> /\ todo[t][1] = I(op, on) /\ todo[t][1].op = op
  BY AtStep DEF I
<1>2. Replaces(t, c)
  BY <1>1 DEF Replaces, Continue, Expands
<1>3. Listed'
  BY <1>1, <1>2, ListsStep
<1>4. op \notin Reads /\ c \in Balanced /\ readers' = readers => Reading'
  <2>1. op \notin Reads => Delta(todo[t][1]) = 0
    BY <1>1 DEF Delta, Reads
  <2> QED
    BY <2>1, <1>1, <1>2, ReadingStep DEF Inv
<1>5. \A ops : op \notin ops /\ Without(c, ops) => Avoids(t, c, ops)
  BY <1>1 DEF Avoids, Without
<1>6. FileLocks /\ InitLocks /\ NeedsLock /\ ExtensionLocks /\ GlobalLock /\ Partials /\ Marks
  BY DEF Inv, Locks
<1>7. Without(c, {"storeVerdict"}) <=> \A i \in 1 .. Len(c) : c[i].op # "storeVerdict"
  BY DEF Without
<1>8. c \in Seq(Instruction)
  BY <1>2 DEF Replaces
<1>9. todo' \in [Threads -> Seq(Instruction)] /\ Lists'
  BY <1>3 DEF Listed
<1> QED
  BY <1>1, <1>2, <1>4, <1>5, <1>6, <1>7, <1>8, <1>9, Untouched

(* Reading what was asked for keeps the invariant.                          *)
LEMMA UseStep ==
  ASSUME Inv, NEW t \in Threads, Use(t)
  PROVE  Inv'
<1>1. PICK op \in Uses : At(t, op)
  BY DEF Use
<1>2. PICK on : Arg(t) = on
  OBVIOUS
<1>3. Continue(t, <<>>) /\ UNCHANGED <<fileVars, messageVars, extensionVars, needsVars, globalVars>>
  BY DEF Use
<1>4. Monotone
  BY <1>3, NothingMade DEF fileVars, messageVars, extensionVars
<1>5. op \notin MakerOps \cup Reads \cup FileOps \cup InitOps \cup NeedsOps \cup ExtensionOps \cup GlobalOps \cup {"resolved"}
  BY DEF Uses, MakerOps, Reads, FileOps, InitOps, NeedsOps, ExtensionOps, GlobalOps
<1>6. Keeps(I(op, on), <<>>)
  BY <1>5, NoMaker
<1>7. /\ todo' \in [Threads -> Seq(Instruction)] /\ Lists' /\ Reading'
      /\ FileLocks' /\ InitLocks' /\ NeedsLock' /\ ExtensionLocks' /\ GlobalLock' /\ Partials' /\ Marks'
  BY <1>1, <1>2, <1>3, <1>4, <1>5, <1>6, Nothing, StepKeeps DEF fileVars, messageVars, extensionVars, needsVars, globalVars
<1>8. TypeOK' /\ Stages'
  BY <1>3, <1>7 DEF Inv, TypeOK, Stages, fileVars, messageVars, extensionVars, needsVars, globalVars
<1> QED
  BY <1>7, <1>8 DEF Inv, Locks

-----------------------------------------------------------------------------
(* globalMutex. *)

(* The lists of the goroutine that takes the step, before and after. *)
LEMMA Change ==
  ASSUME Inv, NEW t \in Threads, NEW op, NEW on, At(t, op), Arg(t) = on, NEW c, Replaces(t, c)
  PROVE  \E s \in Seq(Instruction), r \in Seq(Instruction) :
           /\ s = todo[t] /\ r = todo'[t] /\ s # <<>> /\ r = c \o Tail(s)
           /\ Ordered(s) /\ Pending(s) /\ Prepared(s) /\ s[1] = I(op, on) /\ s[1] \in Instruction
           /\ \A u \in Threads : u # t => todo'[u] = todo[u]
<1>1. Listed /\ todo[t][1] = I(op, on) /\ todo[t][1] \in Instruction
  BY AtStep
<1>2. /\ t \in Threads /\ todo[t] \in Seq(Instruction) /\ todo[t] # <<>> /\ c \in Seq(Instruction)
      /\ Ordered(todo[t]) /\ Pending(todo[t]) /\ Prepared(todo[t])
      /\ todo' \in [Threads -> Seq(Instruction)]
      /\ todo'[t] = c \o Tail(todo[t]) /\ \A u \in Threads : u # t => todo'[u] = todo[u]
  BY <1>1, ReplacedList
<1>3. todo'[t] \in Seq(Instruction)
  BY <1>2
<1> QED
  BY <1>1, <1>2, <1>3

(* What must come after the head is in the rest of the list.                *)
LEMMA LaterPending ==
  ASSUME NEW s \in Seq(Instruction), s # <<>>, Pending(s), NEW b \in After(s[1])
  PROVE  Later(s, {b})
<1>1. 1 \in 1 .. Len(s)
  OBVIOUS
<1>2. PICK j \in 1 .. Len(s) : 1 < j /\ s[j] = b
  BY <1>1 DEF Pending
<1>3. j \in 2 .. Len(s)
  BY <1>2
<1> QED
  BY <1>2, <1>3 DEF Later

(* What is in the rest of the list may stand after the head.                *)
LEMMA LaterBefore ==
  ASSUME NEW s \in Seq(Instruction), s # <<>>, Ordered(s), NEW U, Later(s, U)
  PROVE  \E b \in U : b \in Instruction /\ Before(s[1], b)
<1>1. PICK i \in 2 .. Len(s) : s[i] \in U
  BY DEF Later
<1>2. i \in 1 .. Len(s) /\ 1 \in 1 .. Len(s) /\ 1 < i /\ s[i] \in Instruction
  OBVIOUS
<1> QED
  BY <1>1, <1>2 DEF Ordered

(* Taking or giving back the read lock keeps the read locks nested.         *)
LEMMA ReadsStep ==
  ASSUME Inv, NEW t \in Threads, Replaces(t, <<>>), readers' = [readers EXCEPT ![t] = @ + Delta(todo[t][1])]
  PROVE  Reading' /\ readers' \in [Threads -> Nat]
<1>1. Listed
  BY DEF Inv, TypeOK, Listed
<1>2. /\ todo[t] \in Seq(Instruction) /\ todo[t] # <<>>
      /\ todo'[t] = <<>> \o Tail(todo[t]) /\ \A u \in Threads : u # t => todo'[u] = todo[u]
  BY <1>1, ReplacedList
<1>3. todo'[t] = Tail(todo[t])
  BY <1>2
<1>4. readers \in [Threads -> Nat] /\ \A u \in Threads : Depths(todo[u], readers[u]) # {}
  BY DEF Inv, TypeOK, Reading
<1>5. readers[t] + Delta(todo[t][1]) \in Nat /\ Depths(Tail(todo[t]), readers[t] + Delta(todo[t][1])) # {}
  BY <1>2, <1>4, DepthsTail
<1>6. /\ readers' \in [Threads -> Nat] /\ readers'[t] = readers[t] + Delta(todo[t][1])
      /\ \A u \in Threads : u # t => readers'[u] = readers[u]
  BY <1>4, <1>5
<1>7. ASSUME NEW u \in Threads PROVE Depths(todo'[u], readers'[u]) # {}
  BY <1>2, <1>3, <1>4, <1>5, <1>6
<1> QED
  BY <1>6, <1>7 DEF Reading, Depths

(* RLock and RUnlock of globalMutex keep the invariant.                     *)
LEMMA GRLockStep ==
  ASSUME Inv, NEW t \in Threads, GRLock(t) \/ GRUnlock(t)
  PROVE  Inv'
<1>1. PICK op \in Reads : At(t, op) /\ readers' = [readers EXCEPT ![t] = @ + Delta(I(op, None))]
  <2>1. CASE GRLock(t)
    <3>1. Delta(I("RLock", None)) = 1
      BY DEF Delta, I
    <3> QED
      BY <2>1, <3>1 DEF GRLock, Reads
  <2>2. CASE GRUnlock(t)
    <3>1. Delta(I("RUnlock", None)) = -1
      BY DEF Delta, I
    <3>2. \A n \in Nat : n + (-1) = n - 1
      OBVIOUS
    <3>3. readers[t] \in Nat
      BY DEF Inv, TypeOK
    <3>4. readers' = [readers EXCEPT ![t] = @ + (-1)]
      BY <2>2, <3>2, <3>3 DEF GRUnlock
    <3> QED
      BY <2>2, <3>1, <3>4 DEF GRUnlock, Reads
  <2> QED BY <2>1, <2>2
<1>2. PICK on : Arg(t) = on
  OBVIOUS
<1>3. Continue(t, <<>>) /\ UNCHANGED <<fileVars, messageVars, extensionVars, needsVars, writer, writing>>
  BY DEF GRLock, GRUnlock
<1>4. Monotone
  BY <1>3, NothingMade DEF fileVars, messageVars, extensionVars
<1>5. op \notin MakerOps \cup FileOps \cup InitOps \cup NeedsOps \cup ExtensionOps \cup GlobalOps \cup {"resolved"}
  BY DEF MakerOps, Reads, FileOps, InitOps, NeedsOps, ExtensionOps, GlobalOps
<1>6. Keeps(I(op, on), <<>>)
  BY <1>5, NoMaker
<1>7. /\ todo' \in [Threads -> Seq(Instruction)] /\ Lists' /\ Replaces(t, <<>>)
      /\ FileLocks' /\ InitLocks' /\ NeedsLock' /\ ExtensionLocks' /\ GlobalLock' /\ Partials' /\ Marks'
  BY <1>1, <1>2, <1>3, <1>4, <1>5, <1>6, Nothing, StepKeeps DEF fileVars, messageVars, extensionVars, needsVars
<1>8. Reading' /\ readers' \in [Threads -> Nat]
  <2>1. Delta(todo[t][1]) = Delta(I(op, None))
    <3>1. todo[t][1] = I(op, on)
      BY <1>1, <1>2, AtStep
    <3> QED
      BY <3>1 DEF Delta, I
  <2> QED
    BY <2>1, <1>1, <1>7, ReadsStep
<1>9. TypeOK' /\ Stages'
  BY <1>3, <1>7, <1>8 DEF Inv, TypeOK, Stages, fileVars, messageVars, extensionVars, needsVars
<1> QED
  BY <1>7, <1>8, <1>9 DEF Inv, Locks

(* A step on the write lock of globalMutex, whose effect on that lock is    *)
(* shown apart, keeps the invariant.                                        *)
LEMMA GlobalOnly ==
  ASSUME Inv, NEW t \in Threads, NEW op \in GlobalOps, NEW on, At(t, op), Arg(t) = on, NEW c, Continue(t, c),
         Expands(I(op, on), c), c \in Balanced, Ready(c), Without(c, FileOps \cup InitOps \cup NeedsOps \cup ExtensionOps \cup {"storeVerdict"}),
         UNCHANGED <<fileVars, messageVars, extensionVars, needsVars, readers>>,
         writer' \in Threads \cup {None}, writing' \in BOOLEAN, Replaces(t, c) => GlobalLock'
  PROVE  Inv'
<1>1. Monotone
  BY NothingMade DEF fileVars, messageVars, extensionVars
<1>2. op \notin MakerOps \cup Reads \cup FileOps \cup InitOps \cup NeedsOps \cup ExtensionOps \cup {"resolved"}
  BY DEF MakerOps, Reads, FileOps, InitOps, NeedsOps, ExtensionOps, GlobalOps
<1>3. Keeps(I(op, on), c)
  BY <1>2, NoMaker
<1>4. Without(c, FileOps) /\ Without(c, InitOps) /\ Without(c, NeedsOps) /\ Without(c, ExtensionOps) /\ Without(c, {"storeVerdict"})
  BY DEF Without
<1>5. /\ todo' \in [Threads -> Seq(Instruction)] /\ Lists' /\ Replaces(t, c) /\ Reading'
      /\ FileLocks' /\ InitLocks' /\ NeedsLock' /\ ExtensionLocks' /\ Partials' /\ Marks'
  BY <1>1, <1>2, <1>3, <1>4, StepKeeps DEF fileVars, messageVars, extensionVars, needsVars
<1>6. TypeOK' /\ Stages'
  BY <1>5 DEF Inv, TypeOK, Stages, fileVars, messageVars, extensionVars, needsVars
<1> QED
  BY <1>5, <1>6 DEF Inv, Locks

(* A goroutine whose list begins with an instruction of globalMutex. *)
LEMMA GlobalFront ==
  ASSUME NEW s \in Seq(Instruction), s # <<>>, Ordered(s), Pending(s), NEW op \in GlobalOps, s[1] = I(op, None)
  PROVE  /\ ~Later(s, {I("Lock", None)})
         /\ Later(s, {I("Unlock", None)}) <=> op # "Unlock"
         /\ \A i \in 2 .. Len(s) : s[i] = I("Unlock", None)
<1>1. \A i \in 2 .. Len(s) : s[i] \in Instruction /\ Before(s[1], s[i])
  <2>1. \A i \in 2 .. Len(s) : i \in 1 .. Len(s) /\ 1 \in 1 .. Len(s) /\ 1 < i
    OBVIOUS
  <2> QED
    BY <2>1 DEF Ordered
<1>2. \A i \in 2 .. Len(s) : s[i] = I("Unlock", None) /\ op # "Unlock"
  BY <1>1 DEF Before, GlobalBefore, GlobalOps, Instruction, I
<1>3. op # "Unlock" => I("Unlock", None) \in After(s[1])
  BY DEF After, GlobalOps, I
<1>4. op # "Unlock" => Later(s, {I("Unlock", None)})
  BY <1>3, LaterPending
<1>5. Later(s, {I("Unlock", None)}) => op # "Unlock"
  BY <1>2 DEF Later
<1>6. ~Later(s, {I("Lock", None)})
  BY <1>2 DEF Later, I
<1> QED
  BY <1>2, <1>4, <1>5, <1>6

(* The steps on the write lock: the writer is whoever has claimed it and    *)
(* not given it back.                                                       *)
LEMMA GlobalLockStep ==
  ASSUME Inv, NEW t \in Threads, NEW op \in GlobalOps, At(t, op), NEW c, Replaces(t, c),
         ~Has(c, I("Lock", None)), ~Has(c, I("Unlock", None)), c # <<>> => c[1] = I("Locked", None),
         op = "Lock" => writer = None /\ writer' = t /\ c # <<>>, op = "Locked" => writer' = writer /\ c = <<>>,
         op = "Unlock" => writer' = None /\ c = <<>>
  PROVE  GlobalLock'
<1>1. Arg(t) = None /\ todo[t][1] = I(op, None)
  <2>1. todo[t][1] = I(op, Arg(t)) /\ todo[t][1] \in Instruction
    BY AtStep
  <2> QED
    BY <2>1 DEF Instruction, GlobalOps, I
<1>2. PICK s \in Seq(Instruction), r \in Seq(Instruction) :
           /\ s = todo[t] /\ r = todo'[t] /\ s # <<>> /\ r = c \o Tail(s)
           /\ Ordered(s) /\ Pending(s) /\ s[1] = I(op, None)
           /\ \A u \in Threads : u # t => todo'[u] = todo[u]
  BY <1>1, Change
<1>3. /\ ~Later(s, {I("Lock", None)})
      /\ Later(s, {I("Unlock", None)}) <=> op # "Unlock"
      /\ \A i \in 2 .. Len(s) : s[i] = I("Unlock", None)
  BY <1>2, GlobalFront
<1>4. c \in Seq(Instruction)
  BY DEF Replaces
<1>5. /\ Has(s, I("Lock", None)) <=> s[1] = I("Lock", None)
      /\ ~Has(r, I("Lock", None))
  <2>1. /\ AnyIn(s, {I("Lock", None)}) <=> s[1] \in {I("Lock", None)} \/ Later(s, {I("Lock", None)})
        /\ AnyIn(r, {I("Lock", None)}) <=> AnyIn(c, {I("Lock", None)}) \/ Later(s, {I("Lock", None)})
    BY <1>2, <1>4, AnyStep
  <2> QED
    BY <2>1, <1>3 DEF Has
<1>6. /\ Has(s, I("Unlock", None))
      /\ Has(r, I("Unlock", None)) <=> op # "Unlock"
  <2>1. /\ AnyIn(s, {I("Unlock", None)}) <=> s[1] \in {I("Unlock", None)} \/ Later(s, {I("Unlock", None)})
        /\ AnyIn(r, {I("Unlock", None)}) <=> AnyIn(c, {I("Unlock", None)}) \/ Later(s, {I("Unlock", None)})
    BY <1>2, <1>4, AnyStep
  <2> QED
    BY <2>1, <1>2, <1>3 DEF Has
<1>7. HoldsGlobal(s) <=> op # "Lock"
  BY <1>2, <1>5, <1>6 DEF HoldsGlobal, I
<1>8. HoldsGlobal(r) <=> op # "Unlock"
  BY <1>5, <1>6 DEF HoldsGlobal
<1>9. op # "Unlock" => Starts(r, I("Locked", None)) \/ Starts(r, I("Unlock", None))
  <2>1. /\ c = <<>> => r = <<>> \/ (r[1] = s[2] /\ Len(s) > 1)
        /\ c # <<>> => r # <<>> /\ r[1] = c[1]
    BY <1>2, <1>4, FirstStep
  <2>2. op # "Unlock" => r # <<>>
    BY <1>6 DEF Has, AnyIn
  <2>3. Len(s) > 1 => s[2] = I("Unlock", None)
    BY <1>3
  <2> QED
    BY <2>1, <2>2, <2>3 DEF Starts
<1>10. \A u \in Threads : writer = u <=> HoldsGlobal(todo[u])
  BY DEF Inv, Locks, GlobalLock
<1>11. ASSUME NEW u \in Threads
       PROVE  /\ writer' = u <=> HoldsGlobal(todo'[u])
              /\ HoldsGlobal(todo'[u]) => Starts(todo'[u], I("Locked", None)) \/ Starts(todo'[u], I("Unlock", None))
  <2>1. CASE u = t
    <3>1. op # "Unlock" => writer' = t
      BY <1>2, <1>7, <1>10 DEF GlobalOps
    <3>2. op = "Unlock" => writer' # t
      BY InstanceAssumption
    <3> QED
      BY <2>1, <3>1, <3>2, <1>2, <1>8, <1>9
  <2>2. CASE u # t
    <3>1. writer # u /\ writer' # u
      BY <2>2, <1>2, <1>7, <1>10, InstanceAssumption DEF GlobalOps
    <3>2. todo'[u] = todo[u]
      BY <2>2, <1>2
    <3> QED
      BY <3>1, <3>2, <1>10
  <2> QED BY <2>1, <2>2
<1> QED
  BY <1>11 DEF GlobalLock, HoldsGlobal, Has, AnyIn, Starts, I

(* Lock and Unlock of globalMutex keep the invariant.                       *)
LEMMA GLockStep ==
  ASSUME Inv, NEW t \in Threads, GLock(t) \/ GUnlock(t)
  PROVE  Inv'
<1>0. /\ UNCHANGED <<fileVars, messageVars, extensionVars, needsVars, readers>>
      /\ writer \in Threads \cup {None} /\ writing \in BOOLEAN
  BY DEF GLock, GUnlock, Inv, TypeOK
<1>1. CASE At(t, "Lock") /\ writer = None /\ Continue(t, <<I("Locked", None)>>) /\ writer' = t /\ UNCHANGED writing
  <2>1. PICK c : c = <<I("Locked", None)>>
    OBVIOUS
  <2>2. Expands(I("Lock", None), c) /\ c \in Balanced /\ Len(c) = 1 /\ c[1] = I("Locked", None) /\ c # <<>>
    BY <2>1, LockedExpands
  <2>3. /\ Without(c, FileOps \cup InitOps \cup NeedsOps \cup ExtensionOps \cup {"storeVerdict"}) /\ Ready(c)
        /\ ~Has(c, I("Lock", None)) /\ ~Has(c, I("Unlock", None))
    BY <2>2 DEF Without, Ready, Wants, FileOps, InitOps, NeedsOps, ExtensionOps, Has, AnyIn, I
  <2>4. Continue(t, c)
    BY <1>1, <2>1
  <2>5. Arg(t) = None
    <3>1. todo[t][1] = I("Lock", Arg(t)) /\ todo[t][1] \in Instruction
      BY <1>1, AtStep
    <3> QED
      BY <3>1 DEF Instruction, I
  <2>6. Replaces(t, c) => GlobalLock'
    BY <1>1, <2>2, <2>3, GlobalLockStep DEF GlobalOps
  <2> QED
    BY <1>0, <1>1, <2>2, <2>3, <2>4, <2>5, <2>6, GlobalOnly DEF GlobalOps
<1>2. CASE At(t, "Locked") /\ Continue(t, <<>>) /\ writing' = TRUE /\ UNCHANGED writer
  <2>1. PICK on : Arg(t) = on
    OBVIOUS
  <2>2. ~Has(<<>>, I("Lock", None)) /\ ~Has(<<>>, I("Unlock", None))
    BY DEF Has, AnyIn
  <2>3. Replaces(t, <<>>) => GlobalLock'
    BY <1>2, <2>2, GlobalLockStep DEF GlobalOps
  <2> QED
    BY <1>0, <1>2, <2>1, <2>3, Nothing, GlobalOnly DEF GlobalOps
<1>3. CASE GUnlock(t)
  <2>1. PICK on : Arg(t) = on
    OBVIOUS
  <2>2. ~Has(<<>>, I("Lock", None)) /\ ~Has(<<>>, I("Unlock", None))
    BY DEF Has, AnyIn
  <2>3. Replaces(t, <<>>) => GlobalLock'
    BY <1>3, <2>2, GlobalLockStep DEF GlobalOps, GUnlock
  <2> QED
    BY <1>0, <1>3, <2>1, <2>3, Nothing, GlobalOnly DEF GlobalOps, GUnlock
<1> QED
  BY <1>1, <1>2, <1>3 DEF GLock

-----------------------------------------------------------------------------
(* File.lazyInit. *)

(* Who holds the mutex of a file before and after a step.                   *)
LEMMA FileHolds ==
  ASSUME NEW s \in Seq(Instruction), s # <<>>, Ordered(s), NEW c \in Seq(Instruction), NEW r, r = c \o Tail(s), NEW g
  PROVE  /\ HoldsFile(s, g) <=> /\ s[1] = I("storeOnce", g) \/ Later(s, {I("storeOnce", g)})
                                /\ s[1] # I("lockFile", g)
         /\ HoldsFile(r, g) <=> /\ Has(c, I("storeOnce", g)) \/ Later(s, {I("storeOnce", g)})
                                /\ c = <<>> \/ c[1] # I("lockFile", g)
<1> DEFINE U == {I("storeOnce", g)}
           L == {I("lockFile", g)}
<1>1. Foremost(L)
  BY DEF Foremost, First, I
<1> HIDE DEF U, L
<1>2. /\ Holds(s, U, L) <=> (s[1] \in U \/ Later(s, U)) /\ s[1] \notin L
      /\ Holds(r, U, L) <=> (AnyIn(c, U) \/ Later(s, U)) /\ (c = <<>> \/ c[1] \notin L)
  BY <1>1, HoldsStep
<1> QED
  BY <1>2 DEF HoldsFile, Has, U, L

(* Files do not import each other in a cycle: nobody that is initializing a *)
(* file comes back to it.                                                   *)
LEMMA NoWayBack ==
  ASSUME NEW s \in Seq(Instruction), s # <<>>, Ordered(s), NEW f \in Files,
         NEW op \in {"lazyInit", "storeOnce"}, s[1] = I(op, f)
  PROVE  ~Later(s, {I("storeOnce", f)})
<1> SUFFICES ASSUME Later(s, {I("storeOnce", f)}) PROVE FALSE
  OBVIOUS
<1>1. Before(I(op, f), I("storeOnce", f))
  BY LaterBefore
<1>2. f \in Dependencies(f)
  BY <1>1 DEF Before, FileBefore, Reads, FileSteps, I
<1> QED
  BY <1>2, ImportsAcyclic

(* The file of a file instruction. *)
LEMMA FileArg ==
  ASSUME Inv, NEW t \in Threads, NEW op \in FileSteps, At(t, op)
  PROVE  Arg(t) \in Files
<1>1. todo[t][1] = I(op, Arg(t)) /\ todo[t][1] \in Instruction
  BY AtStep
<1> QED
  BY <1>1 DEF Instruction, FileSteps, I

OtherFilesKept(t, f) == \A g \in Files : g # f => (HoldsFile(todo'[t], g) <=> HoldsFile(todo[t], g))

(* The goroutine t takes or gives back the mutex of f. *)
LEMMA FileLocksStep ==
  ASSUME Inv, NEW t \in Threads, NEW c, Replaces(t, c), NEW f \in Files, NEW o, o \in {t, None}, fmu[f] \in {t, None},
         fmu' = [fmu EXCEPT ![f] = o], o = t <=> HoldsFile(todo'[t], f), OtherFilesKept(t, f)
  PROVE  FileLocks'
<1>1. \A u \in Threads : u # t => todo'[u] = todo[u]
  <2>1. Listed
    BY DEF Inv, TypeOK, Listed
  <2> QED
    BY <2>1, ReplacedList
<1>2. ASSUME NEW u \in Threads, NEW g \in Files PROVE fmu'[g] = u <=> HoldsFile(todo'[u], g)
  <2>1. fmu[g] = u <=> HoldsFile(todo[u], g)
    BY DEF Inv, Locks, FileLocks
  <2>2. fmu \in [Files -> Threads \cup {None}] /\ None \notin Threads
    BY InstanceAssumption DEF Inv, TypeOK
  <2>3. CASE g # f /\ u = t
    <3>1. fmu'[g] = fmu[g]
      BY <2>2, <2>3
    <3> QED
      BY <2>1, <2>3, <3>1 DEF OtherFilesKept
  <2>4. CASE g # f /\ u # t
    <3>1. fmu'[g] = fmu[g] /\ todo'[u] = todo[u]
      BY <2>2, <2>4, <1>1
    <3> QED
      BY <2>1, <3>1
  <2>5. CASE g = f /\ u = t
    BY <2>2, <2>5
  <2>6. CASE g = f /\ u # t
    <3>1. fmu'[g] # u /\ fmu[g] # u /\ todo'[u] = todo[u]
      BY <2>2, <2>6, <1>1
    <3> QED
      BY <2>1, <3>1
  <2> QED BY <2>3, <2>4, <2>5, <2>6
<1> QED
  BY <1>2 DEF FileLocks, HoldsFile, Holds, AnyIn, I

(* A step on files leaves alone the mutexes of the types. *)
LEMMA FileOnly ==
  ASSUME Inv, NEW t \in Threads, NEW op \in FileSteps, NEW on, At(t, op), Arg(t) = on, NEW c, Continue(t, c),
         Expands(I(op, on), c), Keeps(I(op, on), c), c \in Balanced, Ready(c), Monotone,
         Without(c, InitOps \cup NeedsOps \cup ExtensionOps \cup GlobalOps \cup {"storeVerdict"}),
         UNCHANGED <<messageVars, extensionVars, needsVars, globalVars>>,
         once' \in [Files -> BOOLEAN], L2' \in [Files -> {"nil", "partial", "full"}], fmu' \in [Files -> Threads \cup {None}],
         \A f \in Files : once'[f] => L2'[f] = "full",
         Replaces(t, c) => FileLocks' /\ Partials'
  PROVE  Inv'
<1>1. op \notin Reads \cup InitOps \cup NeedsOps \cup ExtensionOps \cup GlobalOps
  BY DEF FileSteps, Reads, InitOps, NeedsOps, ExtensionOps, GlobalOps
<1>2. Without(c, InitOps) /\ Without(c, NeedsOps) /\ Without(c, ExtensionOps) /\ Without(c, GlobalOps) /\ Without(c, {"storeVerdict"})
  BY DEF Without
<1>3. /\ todo' \in [Threads -> Seq(Instruction)] /\ Lists' /\ Replaces(t, c) /\ Reading'
      /\ InitLocks' /\ NeedsLock' /\ ExtensionLocks' /\ GlobalLock' /\ Marks'
  BY <1>1, <1>2, StepKeeps DEF messageVars, extensionVars, needsVars, globalVars
<1>4. TypeOK' /\ Stages'
  BY <1>3 DEF Inv, TypeOK, Stages, messageVars, extensionVars, needsVars, globalVars
<1> QED
  BY <1>3, <1>4 DEF Inv, Locks

(* Who holds the mutex of a file after the head is dropped.                 *)
LEMMA FileHoldsTail ==
  ASSUME NEW s \in Seq(Instruction), s # <<>>, Ordered(s), NEW r, r = <<>> \o Tail(s), NEW g
  PROVE  HoldsFile(r, g) <=> Later(s, {I("storeOnce", g)})
<1>1. PICK c \in Seq(Instruction) : c = <<>>
  BY Nothing
<1>2. HoldsFile(r, g) <=> (Has(c, I("storeOnce", g)) \/ Later(s, {I("storeOnce", g)})) /\ (c = <<>> \/ c[1] # I("lockFile", g))
  BY <1>1, FileHolds
<1>3. ~Has(c, I("storeOnce", g))
  BY <1>1 DEF Has, AnyIn
<1> QED
  BY <1>1, <1>2, <1>3

(* Who holds the mutex of a file, by the head and the rest of the list.     *)
LEMMA FileHoldsNow ==
  ASSUME NEW s \in Seq(Instruction), s # <<>>, Ordered(s), NEW g
  PROVE  HoldsFile(s, g) <=> /\ s[1] = I("storeOnce", g) \/ Later(s, {I("storeOnce", g)})
                             /\ s[1] # I("lockFile", g)
<1>1. PICK c \in Seq(Instruction) : c = <<>>
  BY Nothing
<1>2. PICK r : r = c \o Tail(s)
  OBVIOUS
<1> QED
  BY <1>1, <1>2, FileHolds

(* Taking File.mu keeps the invariant (desc.go:161).                        *)
LEMMA LockFileStep ==
  ASSUME Inv, NEW t \in Threads, LockFile(t)
  PROVE  Inv'
<1>1. PICK f \in Files : Arg(t) = f
  BY FileArg DEF LockFile, FileSteps
<1>2. /\ At(t, "lockFile") /\ fmu[f] = None /\ fmu' = [fmu EXCEPT ![f] = t] /\ Continue(t, <<>>)
      /\ UNCHANGED <<once, L2, messageVars, extensionVars, needsVars, globalVars>>
  BY <1>1 DEF LockFile
<1>3. Monotone
  BY <1>2, NothingMade DEF messageVars, extensionVars
<1>4. Keeps(I("lockFile", f), <<>>)
  BY NoMaker DEF MakerOps
<1>5. fmu' \in [Files -> Threads \cup {None}] /\ once' = once /\ L2' = L2 /\ fmu'[f] = t
  BY <1>2 DEF Inv, TypeOK
<1>6. ASSUME Replaces(t, <<>>) PROVE FileLocks' /\ Partials'
  <2>1. Partials'
    BY <1>1, <1>2, <1>3, <1>4, Nothing, StepKeeps
  <2>2. PICK s \in Seq(Instruction), r \in Seq(Instruction) :
           /\ s = todo[t] /\ r = todo'[t] /\ s # <<>> /\ r = <<>> \o Tail(s)
           /\ Ordered(s) /\ Pending(s) /\ s[1] = I("lockFile", f)
    BY <1>1, <1>2, <1>6, Change
  <2>3. Later(s, {I("storeOnce", f)})
    <3>1. I("storeOnce", f) \in After(s[1])
      BY <2>2 DEF After, I
    <3> QED BY <2>2, <3>1, LaterPending
  <2>4. HoldsFile(r, f)
    BY <2>2, <2>3, FileHoldsTail
  <2>5. ASSUME NEW g \in Files, g # f PROVE HoldsFile(r, g) <=> HoldsFile(s, g)
    <3>1. s[1] # I("storeOnce", g) /\ s[1] # I("lockFile", g)
      BY <2>2, <2>5 DEF I
    <3> QED
      BY <3>1, <2>2, FileHoldsTail, FileHoldsNow
  <2>6. FileLocks'
    <3>1. OtherFilesKept(t, f) /\ fmu[f] \in {t, None} /\ HoldsFile(todo'[t], f)
      BY <2>2, <2>4, <2>5, <1>2 DEF OtherFilesKept
    <3> QED
      BY <3>1, <1>2, <1>6, FileLocksStep
  <2> QED BY <2>1, <2>6
<1>7. UNCHANGED <<messageVars, extensionVars, needsVars, globalVars>>
  BY <1>2
<1>8. /\ once' \in [Files -> BOOLEAN] /\ L2' \in [Files -> {"nil", "partial", "full"}]
      /\ \A g \in Files : once'[g] => L2'[g] = "full"
  BY <1>5 DEF Inv, TypeOK, Stages
<1> QED
  BY <1>1, <1>2, <1>3, <1>4, <1>5, <1>6, <1>7, <1>8, Nothing, FileOnly DEF FileSteps

(* Setting the flag and giving back File.mu keeps the invariant             *)
(* (desc.go:165-166).                                                       *)
LEMMA StoreOnceStep ==
  ASSUME Inv, NEW t \in Threads, StoreOnce(t)
  PROVE  Inv'
<1>1. PICK f \in Files : Arg(t) = f
  BY FileArg DEF StoreOnce, FileSteps
<1>2. /\ At(t, "storeOnce") /\ once' = [once EXCEPT ![f] = TRUE] /\ fmu' = [fmu EXCEPT ![f] = None] /\ Continue(t, <<>>)
      /\ UNCHANGED <<L2, messageVars, extensionVars, needsVars, globalVars>>
  BY <1>1 DEF StoreOnce
<1>3. once'[f] /\ \A g \in Files : g # f => once'[g] = once[g]
  BY <1>2 DEF Inv, TypeOK
<1>4. Monotone
  <2>1. \A g \in Files : once[g] => once'[g]
    BY <1>3
  <2> QED
    BY <2>1, <1>2, OnlyMore DEF messageVars, extensionVars
<1>5. Keeps(I("storeOnce", f), <<>>)
  BY <1>3 DEF Keeps, Makes, Makers, Wants, Made, I
<1>6. fmu' \in [Files -> Threads \cup {None}] /\ once' \in [Files -> BOOLEAN] /\ L2' = L2 /\ fmu'[f] = None
  BY <1>2 DEF Inv, TypeOK
<1>7. L2[f] = "full"
  <2>1. Listed /\ todo[t] # <<>> /\ todo[t] \in Seq(Instruction) /\ todo[t][1] = I("storeOnce", f)
    BY <1>1, <1>2, AtStep
  <2>2. Prepared(todo[t]) /\ 1 \in 1 .. Len(todo[t])
    BY <2>1 DEF Listed, Lists
  <2>3. "contents" \in Wants(todo[t][1].op) /\ todo[t][1].on = f
    BY <2>1 DEF Wants, I
  <2>4. Made("contents", f)
    BY <2>2, <2>3 DEF Prepared
  <2> QED
    BY <2>4 DEF Made
<1>8. ASSUME Replaces(t, <<>>) PROVE FileLocks' /\ Partials'
  <2>1. Partials'
    BY <1>1, <1>2, <1>4, <1>5, Nothing, StepKeeps
  <2>2. PICK s \in Seq(Instruction), r \in Seq(Instruction) :
           /\ s = todo[t] /\ r = todo'[t] /\ s # <<>> /\ r = <<>> \o Tail(s)
           /\ Ordered(s) /\ Pending(s) /\ s[1] = I("storeOnce", f)
    BY <1>1, <1>2, <1>8, Change
  <2>3. ~Later(s, {I("storeOnce", f)})
    BY <2>2, NoWayBack
  <2>4. ~HoldsFile(r, f)
    BY <2>2, <2>3, FileHoldsTail
  <2>5. ASSUME NEW g \in Files, g # f PROVE HoldsFile(r, g) <=> HoldsFile(s, g)
    <3>1. s[1] # I("storeOnce", g) /\ s[1] # I("lockFile", g)
      BY <2>2, <2>5 DEF I
    <3> QED
      BY <3>1, <2>2, FileHoldsTail, FileHoldsNow
  <2>6. fmu[f] = t
    <3>0. s[1] # I("lockFile", f)
      BY <2>2 DEF I
    <3>1. HoldsFile(s, f)
      BY <3>0, <2>2, FileHoldsNow
    <3> QED
      BY <3>1, <2>2 DEF Inv, Locks, FileLocks
  <2>7. FileLocks'
    <3>1. OtherFilesKept(t, f) /\ fmu[f] \in {t, None} /\ ~HoldsFile(todo'[t], f) /\ None # t
      BY <2>2, <2>4, <2>5, <2>6, InstanceAssumption DEF OtherFilesKept
    <3> QED
      BY <3>1, <1>2, <1>8, FileLocksStep
  <2> QED BY <2>1, <2>7
<1>9. UNCHANGED <<messageVars, extensionVars, needsVars, globalVars>>
  BY <1>2
<1>10. /\ L2' \in [Files -> {"nil", "partial", "full"}]
       /\ \A g \in Files : once'[g] => L2'[g] = "full"
  BY <1>3, <1>6, <1>7 DEF Inv, TypeOK, Stages
<1> QED
  BY <1>1, <1>2, <1>4, <1>5, <1>6, <1>8, <1>9, <1>10, Nothing, FileOnly DEF FileSteps

(* File.lazyInit, fast or slow, keeps the invariant (desc.go:153-167).      *)
LEMMA LazyInitStep ==
  ASSUME Inv, NEW t \in Threads, LazyInit(t)
  PROVE  Inv'
<1>1. PICK f \in Files : Arg(t) = f
  BY FileArg DEF LazyInit, FileSteps
<1>2. PICK c : c = IF once[f] THEN <<>> ELSE <<I("lockFile", f), I("rawInit", f), I("storeOnce", f)>>
  OBVIOUS
<1>3. /\ At(t, "lazyInit") /\ Continue(t, c)
      /\ UNCHANGED <<fileVars, messageVars, extensionVars, needsVars, globalVars>>
  BY <1>1, <1>2 DEF LazyInit, Initialized
<1>4. Monotone
  BY <1>3, NothingMade DEF fileVars, messageVars, extensionVars
<1>5. Expands(I("lazyInit", f), c) /\ c \in Balanced
  BY <1>2, Nothing, LazyInitExpands
<1>6. CASE once[f]
  <2>1. c = <<>>
    BY <1>2, <1>6
  <2>2. Keeps(I("lazyInit", f), c)
    BY <1>3, <1>6 DEF Keeps, Makes, Makers, Wants, Made, I, fileVars
  <2>3. ASSUME Replaces(t, c) PROVE FileLocks' /\ Partials'
    BY <1>1, <1>3, <1>4, <1>5, <2>1, <2>2, Nothing, StepKeeps DEF fileVars, FileOps
  <2>4. /\ Ready(c) /\ UNCHANGED <<messageVars, extensionVars, needsVars, globalVars>> /\ UNCHANGED fileVars
        /\ Without(c, InitOps \cup NeedsOps \cup ExtensionOps \cup GlobalOps \cup {"storeVerdict"})
    BY <2>1, <1>3, Nothing
  <2>5. /\ once' \in [Files -> BOOLEAN] /\ L2' \in [Files -> {"nil", "partial", "full"}]
        /\ fmu' \in [Files -> Threads \cup {None}] /\ \A g \in Files : once'[g] => L2'[g] = "full"
    BY <2>4 DEF Inv, TypeOK, Stages, fileVars
  <2> QED
    BY <1>1, <1>3, <1>4, <1>5, <2>2, <2>3, <2>4, <2>5, FileOnly DEF FileSteps
<1>7. CASE ~once[f]
  <2>1. /\ c # <<>> /\ Len(c) = 3 /\ c \in Seq(Instruction)
        /\ c[1] = I("lockFile", f) /\ c[2] = I("rawInit", f) /\ c[3] = I("storeOnce", f)
    BY <1>2, <1>5, <1>7 DEF Expands
  <2>2. \A i \in 1 .. Len(c) : i \in {1, 2, 3}
    BY <2>1
  <2>3. Keeps(I("lazyInit", f), c)
    <3>1. Makes(c[3], "once", f) /\ 3 \in 1 .. Len(c)
      BY <2>1 DEF Makes, Makers, I
    <3> QED
      BY <3>1 DEF Keeps, Makes, Makers, Wants, I
  <2>4. Ready(c)
    <3>1. Makes(c[2], "contents", f) /\ 2 \in 1 .. Len(c) /\ 2 < 3 /\ c[3].on = f
      BY <2>1 DEF Makes, Makers, I
    <3>2. Wants(c[1].op) = {} /\ Wants(c[2].op) = {} /\ Wants(c[3].op) = {"contents"}
      BY <2>1 DEF Wants, I
    <3> QED
      BY <3>1, <3>2, <2>2 DEF Ready
  <2>5. /\ UNCHANGED <<messageVars, extensionVars, needsVars, globalVars>> /\ UNCHANGED fileVars
        /\ Without(c, InitOps \cup NeedsOps \cup ExtensionOps \cup GlobalOps \cup {"storeVerdict"})
    BY <2>1, <2>2, <1>3 DEF Without, InitOps, NeedsOps, ExtensionOps, GlobalOps, I
  <2>6. ASSUME Replaces(t, c) PROVE FileLocks' /\ Partials'
    <3>1. Partials'
      BY <1>1, <1>3, <1>4, <1>5, <2>3, <2>4, StepKeeps DEF fileVars
    <3>2. PICK s \in Seq(Instruction), r \in Seq(Instruction) :
             /\ s = todo[t] /\ r = todo'[t] /\ s # <<>> /\ r = c \o Tail(s)
             /\ Ordered(s) /\ Pending(s) /\ s[1] = I("lazyInit", f)
      BY <1>1, <1>3, <2>6, Change
    <3>3. ~Later(s, {I("storeOnce", f)})
      BY <3>2, NoWayBack
    <3>4. ~HoldsFile(r, f) /\ ~HoldsFile(s, f)
      <4>1. s[1] # I("storeOnce", f) /\ c[1] = I("lockFile", f)
        BY <3>2, <2>1 DEF I
      <4> QED
        BY <4>1, <3>2, <3>3, <2>1, FileHolds
    <3>5. ASSUME NEW g \in Files, g # f PROVE HoldsFile(r, g) <=> HoldsFile(s, g)
      <4>1. s[1] # I("storeOnce", g) /\ s[1] # I("lockFile", g) /\ c[1] # I("lockFile", g)
        BY <3>2, <2>1, <3>5 DEF I
      <4>2. ~Has(c, I("storeOnce", g))
        BY <2>1, <2>2, <3>5 DEF Has, AnyIn, I
      <4> QED
        BY <4>1, <4>2, <3>2, <2>1, FileHolds, ZenonT(60)
    <3>6. \A u \in Threads : u # t => todo'[u] = todo[u]
      <4>1. Listed
        BY DEF Inv, TypeOK, Listed
      <4> QED BY <4>1, <2>6, ReplacedList
    <3>7. ASSUME NEW u \in Threads, NEW g \in Files PROVE fmu'[g] = u <=> HoldsFile(todo'[u], g)
      <4>1. fmu[g] = u <=> HoldsFile(todo[u], g)
        BY DEF Inv, Locks, FileLocks
      <4>2. fmu' = fmu
        BY <2>5 DEF fileVars
      <4> QED
        BY <4>1, <4>2, <3>2, <3>4, <3>5, <3>6
    <3>8. FileLocks'
      BY <3>7 DEF FileLocks, HoldsFile, Holds, AnyIn, I
    <3> QED BY <3>1, <3>8
  <2>7. /\ once' \in [Files -> BOOLEAN] /\ L2' \in [Files -> {"nil", "partial", "full"}]
        /\ fmu' \in [Files -> Threads \cup {None}] /\ \A g \in Files : once'[g] => L2'[g] = "full"
    BY <2>5 DEF Inv, TypeOK, Stages, fileVars
  <2> QED
    BY <1>1, <1>3, <1>4, <1>5, <2>3, <2>4, <2>5, <2>6, <2>7, FileOnly DEF FileSteps
<1> QED BY <1>6, <1>7

(* The instructions a list keeps or gets in a step.                         *)
LEMMA HasKept ==
  ASSUME Inv, NEW t \in Threads, NEW op, NEW on, At(t, op), Arg(t) = on, NEW c, Replaces(t, c), NEW x
  PROVE  /\ \A u \in Threads : Has(todo[u], x) /\ I(op, on) # x => Has(todo'[u], x)
         /\ Has(c, x) => Has(todo'[t], x)
<1>1. PICK s \in Seq(Instruction), r \in Seq(Instruction) :
           /\ s = todo[t] /\ r = todo'[t] /\ s # <<>> /\ r = c \o Tail(s) /\ s[1] = I(op, on)
           /\ \A u \in Threads : u # t => todo'[u] = todo[u]
  BY Change
<1>2. c \in Seq(Instruction)
  BY DEF Replaces
<1>3. /\ AnyIn(s, {x}) <=> s[1] \in {x} \/ Later(s, {x})
      /\ AnyIn(r, {x}) <=> AnyIn(c, {x}) \/ Later(s, {x})
  BY <1>1, <1>2, AnyStep
<1> QED
  BY <1>1, <1>3 DEF Has

(* Whoever is initializing a file holds its mutex. *)
LEMMA ResolvingHolds ==
  ASSUME Inv, NEW u \in Threads, NEW f \in Files, Has(todo[u], I("resolved", f))
  PROVE  HoldsFile(todo[u], f) /\ ~(todo[u] # <<>> /\ todo[u][1] = I("rawInit", f))
<1>1. PICK s \in Seq(Instruction) : s = todo[u] /\ Ordered(s) /\ Pending(s)
  BY DEF Inv, TypeOK, Lists
<1>2. PICK i \in 1 .. Len(s) : s[i] = I("resolved", f)
  BY <1>1 DEF Has, AnyIn
<1>3. I("storeOnce", f) \in After(s[i])
  BY <1>2 DEF After, I
<1>4. PICK j \in 1 .. Len(s) : i < j /\ s[j] = I("storeOnce", f)
  BY <1>1, <1>3 DEF Pending
<1>5. s # <<>> /\ 1 \in 1 .. Len(s)
  BY <1>2
<1>6. ASSUME NEW a \in {"lockFile", "rawInit"}, s[1] = I(a, f) PROVE FALSE
  <2>1. i # 1
    BY <1>2, <1>6 DEF I
  <2>2. Before(s[1], s[i])
    BY <2>1, <1>1, <1>5 DEF Ordered
  <2>3. f \in Dependencies(f)
    BY <2>2, <1>2, <1>6 DEF Before, FileBefore, Reads, FileSteps, I
  <2> QED
    BY <2>3, ImportsAcyclic
<1> QED
  BY <1>1, <1>4, <1>5, <1>6 DEF HoldsFile, Holds, AnyIn

(* Starting lazyRawInit, or finding that it is done, keeps the invariant:   *)
(* the goroutine asks only for files that this one depends on, so never for *)
(* this one again.                                                          *)
LEMMA RawInitStep ==
  ASSUME Inv, NEW t \in Threads, RawInit(t)
  PROVE  Inv'
<1>1. PICK f \in Files : Arg(t) = f
  BY FileArg DEF RawInit, FileSteps
<1>2. At(t, "rawInit") /\ UNCHANGED <<once, fmu, messageVars, extensionVars, needsVars, globalVars>>
  BY DEF RawInit
<1>3. /\ L2 \in [Files -> {"nil", "partial", "full"}] /\ \A g \in Files : once[g] => L2[g] = "full"
      /\ once' \in [Files -> BOOLEAN] /\ fmu' \in [Files -> Threads \cup {None}]
      /\ UNCHANGED <<messageVars, extensionVars, needsVars, globalVars>> /\ once' = once /\ fmu' = fmu
  BY <1>2 DEF Inv, TypeOK, Stages
<1>4. CASE L2[f] = "nil"
  <2>1. PICK c : c = lazyRawInit(f) \o <<I("resolved", f)>>
    OBVIOUS
  <2>2. Continue(t, c) /\ L2' = [L2 EXCEPT ![f] = "partial"]
    BY <1>1, <1>4, <2>1 DEF RawInit, NeedsRawInit
  <2>3. /\ Expands(I("rawInit", f), c) /\ c \in Balanced
        /\ \A i \in 1 .. Len(c) : c[i] \in RawSteps(f) \cup {I("resolved", f)}
        /\ \E i \in 1 .. Len(c) : c[i] = I("resolved", f)
    BY <2>1, RawInitExpands
  <2>4. /\ L2' \in [Files -> {"nil", "partial", "full"}]
        /\ \A g \in Files : (L2[g] = "full" => L2'[g] = "full") /\ (g # f => L2'[g] = L2[g])
    BY <1>3, <1>4, <2>2
  <2>5. Monotone
    BY <1>3, <2>4, OnlyMore DEF messageVars, extensionVars
  <2>6. Keeps(I("rawInit", f), c)
    <3>1. \E i \in 1 .. Len(c) : Makes(c[i], "contents", f)
      BY <2>3 DEF Makes, Makers, I
    <3> QED
      BY <3>1 DEF Keeps, Makes, Makers, Wants, I
  <2>7. \A i \in 1 .. Len(c) : c[i].op \in {"lazyInit", "RLock", "RUnlock", "resolved"}
    BY <2>3 DEF RawSteps, RLock, RUnlock, I
  <2>8. Ready(c)
    BY <2>7 DEF Ready, Wants
  <2>9. /\ Without(c, InitOps \cup NeedsOps \cup ExtensionOps \cup GlobalOps \cup {"storeVerdict"})
        /\ Without(c, FileOps)
    BY <2>7 DEF Without, FileOps, InitOps, NeedsOps, ExtensionOps, GlobalOps
  <2>10. ASSUME Replaces(t, c) PROVE FileLocks' /\ Partials'
    <3>1. FileLocks'
      BY <1>1, <1>2, <1>3, <2>2, <2>3, <2>5, <2>6, <2>8, <2>9, StepKeeps, SMTT(60) DEF FileOps
    <3>2. ASSUME NEW g \in Files, L2'[g] = "partial" PROVE \E u \in Threads : Has(todo'[u], I("resolved", g))
      <4>1. CASE g = f
        <5>1. Has(c, I("resolved", f))
          BY <2>3 DEF Has, AnyIn
        <5>2. Has(todo'[t], I("resolved", f))
          BY <5>1, <1>1, <1>2, <2>10, HasKept
        <5> QED BY <5>2, <4>1
      <4>2. CASE g # f
        <5>1. PICK u \in Threads : Has(todo[u], I("resolved", g))
          BY <4>2, <2>4, <3>2 DEF Inv, Partials
        <5>2. I("rawInit", f) # I("resolved", g)
          BY DEF I
        <5>3. Has(todo'[u], I("resolved", g))
          BY <5>1, <5>2, <1>1, <1>2, <2>10, HasKept
        <5> QED BY <5>3
      <4> QED BY <4>1, <4>2
    <3>3. Partials'
      BY <3>2 DEF Partials, Has, AnyIn, I
    <3> QED BY <3>1, <3>3
  <2>11. \A g \in Files : once'[g] => L2'[g] = "full"
    BY <1>3, <2>4
  <2> QED
    BY <1>1, <1>2, <1>3, <2>2, <2>3, <2>4, <2>5, <2>6, <2>8, <2>9, <2>10, <2>11, FileOnly DEF FileSteps
<1>5. CASE L2[f] # "nil"
  <2>1. Continue(t, <<>>) /\ L2' = L2
    BY <1>1, <1>5 DEF RawInit, NeedsRawInit
  <2>2. L2[f] = "full"
    <3> SUFFICES ASSUME L2[f] = "partial" PROVE FALSE
      BY <1>3, <1>5
    <3>1. PICK u \in Threads : Has(todo[u], I("resolved", f))
      BY DEF Inv, Partials
    <3>2. HoldsFile(todo[u], f) /\ ~(todo[u] # <<>> /\ todo[u][1] = I("rawInit", f))
      BY <3>1, ResolvingHolds
    <3>3. PICK s \in Seq(Instruction) : s = todo[t] /\ s # <<>> /\ Ordered(s) /\ Pending(s) /\ s[1] = I("rawInit", f)
      BY <1>1, <1>2, AtStep DEF Listed, Lists
    <3>4. I("storeOnce", f) \in After(s[1])
      BY <3>3 DEF After, I
    <3>5. Later(s, {I("storeOnce", f)})
      BY <3>3, <3>4, LaterPending
    <3>6. s[1] # I("lockFile", f)
      BY <3>3 DEF I
    <3>7. HoldsFile(s, f)
      BY <3>3, <3>5, <3>6, FileHoldsNow
    <3>8. fmu[f] = u /\ fmu[f] = t
      BY <3>2, <3>3, <3>7 DEF Inv, Locks, FileLocks
    <3> QED
      BY <3>2, <3>3, <3>8
  <2>3. Monotone
    BY <2>1, <1>3, NothingMade DEF messageVars, extensionVars
  <2>4. Keeps(I("rawInit", f), <<>>)
    BY <2>1, <2>2 DEF Keeps, Makes, Makers, Wants, Made, I
  <2>5. ASSUME Replaces(t, <<>>) PROVE FileLocks' /\ Partials'
    BY <1>1, <1>2, <1>3, <2>1, <2>3, <2>4, Nothing, StepKeeps DEF FileOps
  <2>6. L2' \in [Files -> {"nil", "partial", "full"}] /\ \A g \in Files : once'[g] => L2'[g] = "full"
    BY <1>3, <2>1
  <2> QED
    BY <1>1, <1>2, <1>3, <2>1, <2>3, <2>4, <2>5, <2>6, Nothing, FileOnly DEF FileSteps
<1> QED BY <1>4, <1>5

(* Finishing the contents of a file keeps the invariant.                    *)
LEMMA ResolvedStep ==
  ASSUME Inv, NEW t \in Threads, Resolved(t)
  PROVE  Inv'
<1>1. PICK f \in Files : Arg(t) = f
  BY FileArg DEF Resolved, FileSteps
<1>2. /\ At(t, "resolved") /\ L2' = [L2 EXCEPT ![f] = "full"] /\ Continue(t, <<>>)
      /\ UNCHANGED <<once, fmu, messageVars, extensionVars, needsVars, globalVars>>
  BY <1>1 DEF Resolved
<1>3. /\ L2 \in [Files -> {"nil", "partial", "full"}] /\ \A g \in Files : once[g] => L2[g] = "full"
      /\ once' \in [Files -> BOOLEAN] /\ fmu' \in [Files -> Threads \cup {None}]
      /\ UNCHANGED <<messageVars, extensionVars, needsVars, globalVars>> /\ once' = once /\ fmu' = fmu
  BY <1>2 DEF Inv, TypeOK, Stages
<1>4. /\ L2' \in [Files -> {"nil", "partial", "full"}] /\ L2'[f] = "full"
      /\ \A g \in Files : (L2[g] = "full" => L2'[g] = "full") /\ (g # f => L2'[g] = L2[g])
  BY <1>2, <1>3
<1>5. Monotone
  BY <1>3, <1>4, OnlyMore DEF messageVars, extensionVars
<1>6. Keeps(I("resolved", f), <<>>)
  BY <1>4 DEF Keeps, Makes, Makers, Wants, Made, I
<1>7. ASSUME Replaces(t, <<>>) PROVE FileLocks' /\ Partials'
  <2>1. FileLocks'
    BY <1>1, <1>2, <1>3, <1>5, <1>6, Nothing, StepKeeps DEF FileOps
  <2>2. ASSUME NEW g \in Files, L2'[g] = "partial" PROVE \E u \in Threads : Has(todo'[u], I("resolved", g))
    <3>1. g # f
      BY <1>4, <2>2
    <3>2. PICK u \in Threads : Has(todo[u], I("resolved", g))
      BY <3>1, <1>4, <2>2 DEF Inv, Partials
    <3>3. I("resolved", f) # I("resolved", g)
      BY <3>1 DEF I
    <3>4. Has(todo'[u], I("resolved", g))
      BY <3>2, <3>3, <1>1, <1>2, <1>7, HasKept
    <3> QED BY <3>4
  <2>3. Partials'
    BY <2>2 DEF Partials, Has, AnyIn, I
  <2> QED BY <2>1, <2>3
<1>8. \A g \in Files : once'[g] => L2'[g] = "full"
  BY <1>3, <1>4
<1> QED
  BY <1>1, <1>2, <1>3, <1>4, <1>5, <1>6, <1>7, <1>8, Nothing, FileOnly DEF FileSteps

-----------------------------------------------------------------------------
(* needsInitCheck. *)

TypesTyped ==
  /\ initDone \in [Messages -> BOOLEAN] /\ info \in [Messages -> {"nil", "partial", "full"}]
  /\ imu \in [Messages -> Threads \cup {None}]
  /\ init \in [Extensions -> 0 .. 2]
  /\ desc \in [Extensions -> BOOLEAN] /\ conv \in [Extensions -> BOOLEAN]
  /\ xmu \in [Extensions -> Threads \cup {None}]
  /\ verdicts \subseteq marked /\ marked \subseteq Messages /\ nmu \in Threads \cup {None}

TypeStages ==
  /\ \A m \in Messages : initDone[m] <=> info[m] = "full"
  /\ \A x \in Extensions : /\ init[x] >= 1 => desc[x]
                           /\ init[x] = 2 => conv[x] \/ x \in Incomplete

(* A step on types leaves alone the files and globalMutex. *)
LEMMA TypeOnly ==
  ASSUME Inv, NEW t \in Threads, NEW op, NEW on, At(t, op), Arg(t) = on, NEW c, Continue(t, c),
         Expands(I(op, on), c), Keeps(I(op, on), c), c \in Balanced, Ready(c), Monotone,
         op \notin Reads \cup FileOps \cup GlobalOps \cup {"resolved"}, Without(c, FileOps \cup GlobalOps),
         UNCHANGED <<fileVars, globalVars>>, TypesTyped', TypeStages',
         Replaces(t, c) => InitLocks' /\ NeedsLock' /\ ExtensionLocks' /\ Marks'
  PROVE  Inv'
<1>1. Without(c, FileOps) /\ Without(c, GlobalOps)
  BY DEF Without
<1>2. /\ todo' \in [Threads -> Seq(Instruction)] /\ Lists' /\ Replaces(t, c) /\ Reading'
      /\ FileLocks' /\ GlobalLock' /\ Partials'
  BY <1>1, StepKeeps DEF fileVars, globalVars
<1>3. TypeOK' /\ Stages'
  BY <1>2 DEF Inv, TypeOK, Stages, TypesTyped, TypeStages, fileVars, globalVars
<1> QED
  BY <1>2, <1>3 DEF Inv, Locks

(* What the invariant says about message and extension types.               *)
LEMMA InvTypes ==
  ASSUME Inv PROVE TypesTyped /\ TypeStages
BY DEF Inv, TypeOK, Stages, TypesTyped, TypeStages

MessageSteps == {"init", "lockInit", "initOnce", "storeDone", "unlockInit",
                 "needsInitCheck", "lockNeeds", "explore", "storeVerdict", "unlockNeeds"}

(* The steps of message types are about message types.                      *)
LEMMA MessageArg ==
  ASSUME Inv, NEW t \in Threads, NEW op \in MessageSteps, At(t, op)
  PROVE  Arg(t) \in Messages
<1>1. todo[t][1] = I(op, Arg(t)) /\ todo[t][1] \in Instruction
  BY AtStep
<1> QED
  BY <1>1 DEF Instruction, MessageSteps, I

NeedsEnds == [op : {"unlockNeeds"}, on : Messages]
NeedsBegins == [op : {"lockNeeds"}, on : Messages]

(* Who holds needsInitCheckMu before and after a step.                      *)
LEMMA NeedsHolds ==
  ASSUME NEW s \in Seq(Instruction), s # <<>>, Ordered(s), NEW c \in Seq(Instruction), NEW r, r = c \o Tail(s)
  PROVE  /\ HoldsNeeds(s) <=> (s[1] \in NeedsEnds \/ Later(s, NeedsEnds)) /\ s[1] \notin NeedsBegins
         /\ HoldsNeeds(r) <=> (AnyIn(c, NeedsEnds) \/ Later(s, NeedsEnds)) /\ (c = <<>> \/ c[1] \notin NeedsBegins)
<1>1. Foremost(NeedsBegins)
  BY DEF Foremost, First, NeedsBegins
<1>2. /\ Holds(s, NeedsEnds, NeedsBegins) <=> (s[1] \in NeedsEnds \/ Later(s, NeedsEnds)) /\ s[1] \notin NeedsBegins
      /\ Holds(r, NeedsEnds, NeedsBegins)
           <=> (AnyIn(c, NeedsEnds) \/ Later(s, NeedsEnds)) /\ (c = <<>> \/ c[1] \notin NeedsBegins)
  BY <1>1, HoldsStep
<1> QED
  BY <1>2 DEF HoldsNeeds, NeedsEnds, NeedsBegins

(* A step that may take or give back needsInitCheckMu.                      *)
LEMMA NeedsLockStep ==
  ASSUME Inv, NEW t \in Threads, NEW c, Replaces(t, c), nmu' = nmu \/ (nmu \in {t, None} /\ nmu' \in {t, None}),
         nmu' = t <=> HoldsNeeds(todo'[t])
  PROVE  NeedsLock'
<1>1. \A u \in Threads : u # t => todo'[u] = todo[u]
  <2>1. Listed
    BY DEF Inv, TypeOK, Listed
  <2> QED
    BY <2>1, ReplacedList
<1>2. ASSUME NEW u \in Threads PROVE nmu' = u <=> HoldsNeeds(todo'[u])
  <2>1. nmu = u <=> HoldsNeeds(todo[u])
    BY DEF Inv, Locks, NeedsLock
  <2>2. None \notin Threads
    BY InstanceAssumption
  <2> QED
    BY <1>1, <2>1, <2>2
<1> QED
  BY <1>2 DEF NeedsLock, HoldsNeeds, Holds, AnyIn

(* A step of needsInitCheck, whose effect on its mutex is shown apart,      *)
(* keeps the invariant.                                                     *)
LEMMA NeedsOnly ==
  ASSUME Inv, NEW t \in Threads, NEW op \in {"needsInitCheck", "lockNeeds", "explore", "storeVerdict", "unlockNeeds"},
         NEW on, At(t, op), Arg(t) = on, NEW c, Continue(t, c), Expands(I(op, on), c), c \in Balanced, Ready(c),
         Without(c, FileOps \cup GlobalOps \cup InitOps \cup ExtensionOps),
         UNCHANGED <<fileVars, messageVars, extensionVars, globalVars>>,
         verdicts' \subseteq marked' /\ marked' \subseteq Messages /\ nmu' \in Threads \cup {None},
         Replaces(t, c) => NeedsLock' /\ Marks'
  PROVE  Inv'
<1>1. /\ op \notin MakerOps \cup Reads \cup FileOps \cup GlobalOps \cup {"resolved"}
      /\ op \notin InitOps \cup ExtensionOps
  BY DEF MakerOps, Reads, FileOps, InitOps, ExtensionOps, GlobalOps
<1>2. Keeps(I(op, on), c)
  BY <1>1, NoMaker
<1>3. Monotone
  BY NothingMade DEF fileVars, messageVars, extensionVars
<1>4. Without(c, FileOps \cup GlobalOps) /\ Without(c, InitOps) /\ Without(c, ExtensionOps)
  BY DEF Without
<1>5. Replaces(t, c) => InitLocks' /\ NeedsLock' /\ ExtensionLocks' /\ Marks'
  BY <1>1, <1>2, <1>3, <1>4, StepKeeps DEF messageVars, extensionVars
<1>6. TypesTyped' /\ TypeStages'
  BY InvTypes DEF TypesTyped, TypeStages, messageVars, extensionVars
<1> QED
  BY <1>1, <1>2, <1>3, <1>4, <1>5, <1>6, TypeOnly

(* needsInitCheck, fast or slow, keeps the invariant.                       *)
LEMMA NeedsInitCheckStep ==
  ASSUME Inv, NEW t \in Threads, NeedsInitCheck(t)
  PROVE  Inv'
<1>1. PICK m \in Messages : Arg(t) = m
  BY MessageArg DEF NeedsInitCheck, MessageSteps
<1>2. PICK c : c = IF m \in verdicts THEN <<>> ELSE <<I("lockNeeds", m), I("explore", m), I("unlockNeeds", m)>>
  OBVIOUS
<1>3. /\ At(t, "needsInitCheck") /\ Continue(t, c)
      /\ UNCHANGED <<fileVars, messageVars, extensionVars, needsVars, globalVars>>
  BY <1>1, <1>2 DEF NeedsInitCheck
<1>4. Expands(I("needsInitCheck", m), c) /\ c \in Balanced
  BY <1>2, Nothing, NeedsInitCheckExpands
<1>5. /\ UNCHANGED <<fileVars, messageVars, extensionVars, globalVars>> /\ UNCHANGED needsVars
      /\ verdicts' \subseteq marked' /\ marked' \subseteq Messages /\ nmu' \in Threads \cup {None}
      /\ nmu' = nmu /\ marked' = marked
  BY <1>3, InvTypes DEF TypesTyped, needsVars
<1>6. /\ Ready(c) /\ Without(c, FileOps \cup GlobalOps \cup InitOps \cup ExtensionOps)
      /\ Without(c, {"storeVerdict"})
      /\ c # <<>> => c[1] = I("lockNeeds", m)
      /\ c = <<>> => Without(c, NeedsOps)
  <2>1. CASE c = <<>>
    BY <2>1, Nothing
  <2>2. CASE c # <<>>
    <3>1. Len(c) = 3 /\ c[1] = I("lockNeeds", m) /\ c[2] = I("explore", m) /\ c[3] = I("unlockNeeds", m)
      BY <2>2, <1>2
    <3>2. \A i \in 1 .. Len(c) : i \in {1, 2, 3}
      BY <3>1
    <3>3. \A i \in 1 .. Len(c) : c[i].op \in {"lockNeeds", "explore", "unlockNeeds"}
      BY <3>1, <3>2 DEF I
    <3> QED
      BY <2>2, <3>1, <3>3 DEF Ready, Wants, Without, FileOps, GlobalOps, InitOps, ExtensionOps
  <2> QED BY <2>1, <2>2
<1>7. ASSUME Replaces(t, c) PROVE NeedsLock' /\ Marks'
  <2>1. Keeps(I("needsInitCheck", m), c) /\ Monotone
    BY <1>3, NoMaker, NothingMade DEF MakerOps, fileVars, messageVars, extensionVars
  <2>2. Marks' /\ (c = <<>> => NeedsLock')
    BY <1>1, <1>3, <1>4, <1>5, <1>6, <2>1, StepKeeps DEF NeedsOps
  <2>3. ASSUME c # <<>> PROVE NeedsLock'
    <3>1. PICK s \in Seq(Instruction), r \in Seq(Instruction) :
             /\ s = todo[t] /\ r = todo'[t] /\ s # <<>> /\ r = c \o Tail(s)
             /\ Ordered(s) /\ s[1] = I("needsInitCheck", m)
      BY <1>1, <1>3, <1>7, Change
    <3>2. ~Later(s, NeedsEnds)
      <4> SUFFICES ASSUME Later(s, NeedsEnds) PROVE FALSE
        OBVIOUS
      <4>1. PICK b \in NeedsEnds : Before(s[1], b)
        BY <3>1, LaterBefore
      <4> QED
        BY <4>1, <3>1 DEF Before, TypeBefore, NeedsEnds, FileSteps, Reads, I
    <3>3. s[1] \notin NeedsEnds /\ c[1] \in NeedsBegins
      BY <2>3, <3>1, <1>6 DEF NeedsEnds, NeedsBegins, I
    <3>4. c \in Seq(Instruction)
      BY <1>4 DEF Expands
    <3>5. ~HoldsNeeds(s) /\ ~HoldsNeeds(r)
      BY <2>3, <3>1, <3>2, <3>3, <3>4, NeedsHolds
    <3>6. nmu' # t
      BY <3>1, <3>5, <1>5 DEF Inv, Locks, NeedsLock
    <3> QED
      BY <3>1, <3>5, <3>6, <1>5, <1>7, NeedsLockStep
  <2> QED BY <2>2, <2>3
<1> QED
  BY <1>1, <1>3, <1>4, <1>5, <1>6, <1>7, NeedsOnly

(* Taking and giving back needsInitCheckMu keeps the invariant.             *)
LEMMA LockNeedsStep ==
  ASSUME Inv, NEW t \in Threads, LockNeeds(t) \/ UnlockNeeds(t)
  PROVE  Inv'
<1>1. PICK op \in {"lockNeeds", "unlockNeeds"} :
        /\ At(t, op)
        /\ op = "lockNeeds" => nmu = None /\ nmu' = t
        /\ op = "unlockNeeds" => nmu' = None
  BY DEF LockNeeds, UnlockNeeds
<1>2. PICK m \in Messages : Arg(t) = m
  BY <1>1, MessageArg DEF MessageSteps
<1>3. /\ Continue(t, <<>>) /\ UNCHANGED <<fileVars, messageVars, extensionVars, marked, verdicts, globalVars>>
  BY DEF LockNeeds, UnlockNeeds
<1>4. /\ UNCHANGED <<fileVars, messageVars, extensionVars, globalVars>>
      /\ verdicts' \subseteq marked' /\ marked' \subseteq Messages /\ nmu' \in Threads \cup {None} /\ marked' = marked
  BY <1>1, <1>3, InvTypes DEF TypesTyped
<1>5. ASSUME Replaces(t, <<>>) PROVE NeedsLock' /\ Marks'
  <2>1. Keeps(I(op, m), <<>>) /\ Monotone
    BY <1>3, NoMaker, NothingMade DEF MakerOps, fileVars, messageVars, extensionVars
  <2>2. Marks'
    BY <1>1, <1>2, <1>3, <1>4, <2>1, Nothing, StepKeeps
  <2>3. PICK c \in Seq(Instruction) : c = <<>>
    BY Nothing
  <2>4. PICK s \in Seq(Instruction), r \in Seq(Instruction) :
           /\ s = todo[t] /\ r = todo'[t] /\ s # <<>> /\ r = c \o Tail(s)
           /\ Ordered(s) /\ Pending(s) /\ s[1] = I(op, m)
    BY <1>1, <1>2, <1>5, <2>3, Change, SMTT(60)
  <2>5. /\ HoldsNeeds(s) <=> (s[1] \in NeedsEnds \/ Later(s, NeedsEnds)) /\ s[1] \notin NeedsBegins
        /\ HoldsNeeds(r) <=> AnyIn(c, NeedsEnds) \/ Later(s, NeedsEnds)
    BY <2>3, <2>4, NeedsHolds
  <2>6. ~AnyIn(c, NeedsEnds)
    BY <2>3 DEF AnyIn
  <2>7. nmu = t <=> HoldsNeeds(s)
    BY <2>4 DEF Inv, Locks, NeedsLock
  <2>8. t # None
    BY InstanceAssumption
  <2>9. CASE op = "lockNeeds"
    <3>1. I("unlockNeeds", m) \in After(s[1]) /\ I("unlockNeeds", m) \in NeedsEnds
      BY <2>4, <2>9 DEF After, NeedsEnds, I
    <3>2. Later(s, {I("unlockNeeds", m)})
      BY <3>1, <2>4, LaterPending
    <3>3. Later(s, NeedsEnds)
      BY <3>1, <3>2 DEF Later
    <3>4. HoldsNeeds(r)
      BY <3>3, <2>5
    <3> QED
      BY <3>4, <2>2, <2>4, <2>9, <1>1, <1>5, NeedsLockStep
  <2>10. CASE op = "unlockNeeds"
    <3>1. ~Later(s, NeedsEnds)
      <4> SUFFICES ASSUME Later(s, NeedsEnds) PROVE FALSE
        OBVIOUS
      <4>1. PICK b \in NeedsEnds : Before(s[1], b)
        BY <2>4, LaterBefore
      <4> QED
        BY <4>1, <2>4, <2>10 DEF Before, TypeBefore, NeedsEnds, FileSteps, Reads, I
    <3>2. s[1] \in NeedsEnds /\ s[1] \notin NeedsBegins
      BY <2>4, <2>10 DEF NeedsEnds, NeedsBegins, I
    <3>3. nmu = t /\ ~HoldsNeeds(r)
      BY <3>1, <3>2, <2>5, <2>6, <2>7
    <3> QED
      BY <3>3, <2>2, <2>4, <2>8, <2>10, <1>1, <1>5, NeedsLockStep
  <2> QED BY <2>9, <2>10
<1> QED
  BY <1>1, <1>2, <1>3, <1>4, <1>5, Nothing, NeedsOnly

(* Marking a message type and exploring it keeps the invariant.             *)
LEMMA ExploreStep ==
  ASSUME Inv, NEW t \in Threads, Explore(t)
  PROVE  Inv'
<1>1. PICK m \in Messages : Arg(t) = m
  BY MessageArg DEF Explore, MessageSteps
<1>2. PICK each : each = FlattenSeq([i \in DOMAIN Fields[m] |-> <<I("explore", Fields[m][i])>>])
  OBVIOUS
<1>3. PICK c : c = IF m \in marked THEN <<>>
                   ELSE <<I("lazyInit", FileOf[m])>> \o each \o <<I("storeVerdict", m)>>
  OBVIOUS
<1>4. /\ At(t, "explore") /\ Continue(t, c) /\ marked' = marked \cup {m}
      /\ UNCHANGED <<fileVars, messageVars, extensionVars, verdicts, nmu, globalVars>>
  BY <1>1, <1>2, <1>3 DEF Explore, Each
<1>5. /\ c \in Seq(Instruction)
      /\ \A i \in 1 .. Len(c) : c[i].op \in {"lazyInit", "explore"} \/ c[i] = I("storeVerdict", m)
  <2>1. CASE m \in marked
    BY <2>1, <1>3
  <2>2. CASE m \notin marked
    <3>1. each \in Seq({I("explore", n) : n \in Messages})
      BY <1>2, EachField
    <3> QED
      BY <2>2, <3>1, <1>3, ExploreWork
  <2> QED BY <2>1, <2>2
<1>6. \A i \in 1 .. Len(c) : c[i].op \in {"lazyInit", "explore", "storeVerdict"}
  BY <1>5 DEF I
<1>7. Expands(I("explore", m), c) /\ c \in Balanced
  BY <1>5, <1>6, ExploreExpands
<1>8. /\ Ready(c) /\ Without(c, FileOps \cup GlobalOps \cup InitOps \cup ExtensionOps)
      /\ Without(c, NeedsOps)
  BY <1>6 DEF Ready, Wants, Without, FileOps, GlobalOps, InitOps, ExtensionOps, NeedsOps
<1>9. /\ UNCHANGED <<fileVars, messageVars, extensionVars, globalVars>>
      /\ verdicts' \subseteq marked' /\ marked' \subseteq Messages /\ nmu' \in Threads \cup {None} /\ nmu' = nmu
  BY <1>4, InvTypes DEF TypesTyped
<1>10. ASSUME Replaces(t, c) PROVE NeedsLock' /\ Marks'
  <2>1. Keeps(I("explore", m), c) /\ Monotone
    BY <1>4, NoMaker, NothingMade DEF MakerOps, fileVars, messageVars, extensionVars
  <2>2. NeedsLock'
    BY <1>1, <1>4, <1>7, <1>8, <1>9, <2>1, StepKeeps DEF NeedsOps
  <2>3. ASSUME NEW u \in Threads, NEW n \in Messages, Has(todo'[u], I("storeVerdict", n)) PROVE n \in marked'
    <3>1. CASE n = m
      BY <3>1, <1>4
    <3>2. CASE n # m
      <4>1. ~Has(c, I("storeVerdict", n))
        BY <3>2, <1>5 DEF Has, AnyIn, I
      <4>2. Listed /\ todo[t][1] # I("storeVerdict", n)
        <5>1. Listed /\ todo[t][1] = I("explore", m)
          BY <1>1, <1>4, AtStep
        <5> QED BY <5>1 DEF I
      <4>3. Has(todo[u], I("storeVerdict", n))
        BY <4>1, <4>2, <1>10, <2>3, HasSame
      <4> QED
        BY <4>3, <1>4 DEF Inv, Marks
    <3> QED BY <3>1, <3>2
  <2>4. Marks'
    BY <2>3 DEF Marks, Has, AnyIn, I
  <2> QED BY <2>2, <2>4
<1> QED
  BY <1>1, <1>4, <1>7, <1>8, <1>9, <1>10, NeedsOnly

(* Storing a verdict keeps the invariant: the message is marked.            *)
LEMMA StoreVerdictStep ==
  ASSUME Inv, NEW t \in Threads, StoreVerdict(t)
  PROVE  Inv'
<1>1. PICK m \in Messages : Arg(t) = m
  BY MessageArg DEF StoreVerdict, MessageSteps
<1>2. /\ At(t, "storeVerdict") /\ Continue(t, <<>>) /\ verdicts' = verdicts \cup {m}
      /\ UNCHANGED <<fileVars, messageVars, extensionVars, marked, nmu, globalVars>>
  BY <1>1 DEF StoreVerdict
<1>3. m \in marked
  <2>1. todo[t] # <<>> /\ todo[t] \in Seq(Instruction) /\ todo[t][1] = I("storeVerdict", m)
    BY <1>1, <1>2, AtStep
  <2>2. Has(todo[t], I("storeVerdict", m))
    BY <2>1 DEF Has, AnyIn
  <2> QED
    BY <2>2 DEF Inv, Marks
<1>4. /\ UNCHANGED <<fileVars, messageVars, extensionVars, globalVars>>
      /\ verdicts' \subseteq marked' /\ marked' \subseteq Messages /\ nmu' \in Threads \cup {None}
      /\ nmu' = nmu /\ marked' = marked
  BY <1>2, <1>3, InvTypes DEF TypesTyped
<1>5. ASSUME Replaces(t, <<>>) PROVE NeedsLock' /\ Marks'
  <2>1. Keeps(I("storeVerdict", m), <<>>) /\ Monotone
    BY <1>2, NoMaker, NothingMade DEF MakerOps, fileVars, messageVars, extensionVars
  <2> QED
    BY <1>1, <1>2, <1>4, <2>1, Nothing, StepKeeps DEF NeedsOps
<1> QED
  BY <1>1, <1>2, <1>4, <1>5, Nothing, NeedsOnly

-----------------------------------------------------------------------------
(* MessageInfo.init. *)

InitEnds(m) == {I("initOnce", m), I("unlockInit", m)}
InitBegins(m) == {I("lockInit", m)}

(* Who holds initMu of a message type before and after a step.              *)
LEMMA InitHolds ==
  ASSUME NEW s \in Seq(Instruction), s # <<>>, Ordered(s), NEW c \in Seq(Instruction), NEW r, r = c \o Tail(s), NEW n
  PROVE  /\ HoldsInit(s, n) <=> (s[1] \in InitEnds(n) \/ Later(s, InitEnds(n))) /\ s[1] \notin InitBegins(n)
         /\ HoldsInit(r, n) <=> (AnyIn(c, InitEnds(n)) \/ Later(s, InitEnds(n))) /\ (c = <<>> \/ c[1] \notin InitBegins(n))
<1>1. Foremost(InitBegins(n))
  BY DEF Foremost, First, InitBegins, I
<1>2. /\ Holds(s, InitEnds(n), InitBegins(n)) <=> (s[1] \in InitEnds(n) \/ Later(s, InitEnds(n))) /\ s[1] \notin InitBegins(n)
      /\ Holds(r, InitEnds(n), InitBegins(n))
           <=> (AnyIn(c, InitEnds(n)) \/ Later(s, InitEnds(n))) /\ (c = <<>> \/ c[1] \notin InitBegins(n))
  BY <1>1, HoldsStep
<1> QED
  BY <1>2 DEF HoldsInit, InitEnds, InitBegins

OtherTypesKept(t, m) == \A n \in Messages : n # m => (HoldsInit(todo'[t], n) <=> HoldsInit(todo[t], n))

(* A step of t on the type m, which may take or give back its mutex. *)
LEMMA InitLocksStep ==
  ASSUME Inv, NEW t \in Threads, NEW c, Replaces(t, c), NEW m \in Messages,
         imu' = imu \/ (imu[m] \in {t, None} /\ \E o \in {t, None} : imu' = [imu EXCEPT ![m] = o]),
         imu'[m] = t <=> HoldsInit(todo'[t], m), OtherTypesKept(t, m)
  PROVE  InitLocks'
<1>1. \A u \in Threads : u # t => todo'[u] = todo[u]
  <2>1. Listed
    BY DEF Inv, TypeOK, Listed
  <2> QED
    BY <2>1, ReplacedList
<1>2. imu \in [Messages -> Threads \cup {None}] /\ None \notin Threads
  BY InstanceAssumption DEF Inv, TypeOK
<1>3. /\ \A n \in Messages : n # m => imu'[n] = imu[n]
      /\ \A u \in Threads : u # t => (imu'[m] = u <=> imu[m] = u)
  BY <1>2
<1>4. ASSUME NEW u \in Threads, NEW n \in Messages PROVE imu'[n] = u <=> HoldsInit(todo'[u], n)
  <2>1. imu[n] = u <=> HoldsInit(todo[u], n)
    BY DEF Inv, Locks, InitLocks
  <2>2. CASE u = t /\ n = m
    BY <2>2
  <2>3. CASE u = t /\ n # m
    BY <2>1, <2>3, <1>3 DEF OtherTypesKept
  <2>4. CASE u # t
    BY <2>1, <2>4, <1>1, <1>3
  <2> QED BY <2>2, <2>3, <2>4
<1> QED
  BY <1>4 DEF InitLocks, HoldsInit, Holds, AnyIn, I

(* A step of MessageInfo.init, whose effect on its mutex is shown apart,    *)
(* keeps the invariant.                                                     *)
LEMMA InitOnly ==
  ASSUME Inv, NEW t \in Threads, NEW op \in {"init", "lockInit", "initOnce", "storeDone", "unlockInit"},
         NEW on, At(t, op), Arg(t) = on, NEW c, Continue(t, c), Expands(I(op, on), c), Keeps(I(op, on), c),
         c \in Balanced, Ready(c), Monotone,
         Without(c, FileOps \cup GlobalOps \cup NeedsOps \cup ExtensionOps \cup {"storeVerdict"}),
         UNCHANGED <<fileVars, extensionVars, needsVars, globalVars>>,
         initDone' \in [Messages -> BOOLEAN] /\ info' \in [Messages -> {"nil", "partial", "full"}],
         imu' \in [Messages -> Threads \cup {None}], \A m \in Messages : initDone'[m] <=> info'[m] = "full",
         Replaces(t, c) => InitLocks'
  PROVE  Inv'
<1>1. op \notin Reads \cup FileOps \cup GlobalOps \cup {"resolved"} /\ op \notin NeedsOps \cup ExtensionOps
  BY DEF Reads, FileOps, NeedsOps, ExtensionOps, GlobalOps
<1>2. Without(c, FileOps \cup GlobalOps) /\ Without(c, NeedsOps) /\ Without(c, ExtensionOps) /\ Without(c, {"storeVerdict"})
  BY DEF Without
<1>3. Replaces(t, c) => InitLocks' /\ NeedsLock' /\ ExtensionLocks' /\ Marks'
  BY <1>1, <1>2, StepKeeps DEF extensionVars, needsVars
<1>4. TypesTyped' /\ TypeStages'
  BY InvTypes DEF TypesTyped, TypeStages, extensionVars, needsVars
<1>5. UNCHANGED <<fileVars, globalVars>>
  OBVIOUS
<1> QED
  BY <1>1, <1>2, <1>3, <1>4, <1>5, TypeOnly

(* MessageInfo.init, fast or slow, keeps the invariant (message.go:66-73).  *)
LEMMA InitMessageStep ==
  ASSUME Inv, NEW t \in Threads, InitMessage(t)
  PROVE  Inv'
<1>1. PICK m \in Messages : Arg(t) = m
  BY MessageArg DEF InitMessage, MessageSteps
<1>2. PICK c : c = IF initDone[m] THEN <<>> ELSE <<I("lockInit", m), I("initOnce", m)>>
  OBVIOUS
<1>3. /\ At(t, "init") /\ Continue(t, c)
      /\ UNCHANGED <<fileVars, messageVars, extensionVars, needsVars, globalVars>>
  BY <1>1, <1>2 DEF InitMessage
<1>4. Expands(I("init", m), c) /\ c \in Balanced /\ c \in Seq(Instruction)
  <2>1. Expands(I("init", m), c) /\ c \in Balanced
    BY <1>2, Nothing, InitExpands
  <2> QED BY <2>1 DEF Expands
<1>5. /\ UNCHANGED <<fileVars, extensionVars, needsVars, globalVars>>
      /\ initDone' \in [Messages -> BOOLEAN] /\ info' \in [Messages -> {"nil", "partial", "full"}]
      /\ imu' \in [Messages -> Threads \cup {None}] /\ \A n \in Messages : initDone'[n] <=> info'[n] = "full"
      /\ initDone' = initDone /\ imu' = imu
  BY <1>3, InvTypes DEF TypesTyped, TypeStages, messageVars
<1>6. Monotone
  BY <1>3, NothingMade DEF fileVars, messageVars, extensionVars
<1>7. CASE initDone[m]
  <2>1. c = <<>>
    BY <1>2, <1>7
  <2>2. Keeps(I("init", m), c)
    BY <1>5, <1>7 DEF Keeps, Makes, Makers, Wants, Made, I
  <2>3. Replaces(t, c) => InitLocks'
    BY <1>1, <1>3, <1>4, <1>5, <1>6, <2>1, <2>2, Nothing, StepKeeps DEF InitOps
  <2>4. Ready(c) /\ Without(c, FileOps \cup GlobalOps \cup NeedsOps \cup ExtensionOps \cup {"storeVerdict"})
    BY <2>1, Nothing
  <2> QED
    BY <1>1, <1>3, <1>4, <1>5, <1>6, <2>2, <2>3, <2>4, InitOnly
<1>8. CASE ~initDone[m]
  <2>1. c # <<>> /\ Len(c) = 2 /\ c[1] = I("lockInit", m) /\ c[2] = I("initOnce", m)
    BY <1>2, <1>8
  <2>2. \A i \in 1 .. Len(c) : i \in {1, 2}
    BY <2>1
  <2>3. \A i \in 1 .. Len(c) : c[i].op \in {"lockInit", "initOnce"} /\ c[i].on = m
    BY <2>1, <2>2 DEF I
  <2>4. Ready(c) /\ Without(c, FileOps \cup GlobalOps \cup NeedsOps \cup ExtensionOps \cup {"storeVerdict"})
    BY <2>3 DEF Ready, Wants, Without, FileOps, GlobalOps, NeedsOps, ExtensionOps
  <2>5. Keeps(I("init", m), c)
    <3>1. Makes(c[2], "tables", m) /\ 2 \in 1 .. Len(c)
      BY <2>1 DEF Makes, Makers, I
    <3> QED
      BY <3>1 DEF Keeps, Makes, Makers, Wants, I
  <2>6. ASSUME Replaces(t, c) PROVE InitLocks'
    <3>1. PICK s \in Seq(Instruction), r \in Seq(Instruction) :
             /\ s = todo[t] /\ r = todo'[t] /\ s # <<>> /\ r = c \o Tail(s)
             /\ Ordered(s) /\ s[1] = I("init", m)
      BY <1>1, <1>3, <2>6, Change
    <3>2. ~Later(s, InitEnds(m))
      <4> SUFFICES ASSUME Later(s, InitEnds(m)) PROVE FALSE
        OBVIOUS
      <4>1. PICK b \in InitEnds(m) : Before(s[1], b)
        BY <3>1, LaterBefore
      <4> QED
        BY <4>1, <3>1 DEF Before, TypeBefore, InitEnds, I
    <3>3. s[1] \notin InitEnds(m) /\ c[1] \in InitBegins(m)
      BY <3>1, <2>1 DEF InitEnds, InitBegins, I
    <3>4. ~HoldsInit(s, m) /\ ~HoldsInit(r, m)
      BY <3>1, <3>2, <3>3, <1>4, <2>1, InitHolds
    <3>5. ASSUME NEW n \in Messages, n # m PROVE HoldsInit(r, n) <=> HoldsInit(s, n)
      <4>1. s[1] \notin InitEnds(n) /\ s[1] \notin InitBegins(n) /\ c[1] \notin InitBegins(n)
        BY <3>1, <2>1, <3>5 DEF InitEnds, InitBegins, I
      <4>2. ~AnyIn(c, InitEnds(n))
        BY <2>3, <3>5 DEF AnyIn, InitEnds, I
      <4> QED
        BY <4>1, <4>2, <3>1, <1>4, InitHolds
    <3>6. imu'[m] # t /\ ~HoldsInit(todo'[t], m)
      BY <3>1, <3>4, <1>5 DEF Inv, Locks, InitLocks
    <3>7. OtherTypesKept(t, m)
      BY <3>1, <3>5 DEF OtherTypesKept
    <3> QED
      BY <3>6, <3>7, <1>5, <2>6, InitLocksStep
  <2> QED
    BY <1>1, <1>3, <1>4, <1>5, <1>6, <2>4, <2>5, <2>6, InitOnly
<1> QED BY <1>7, <1>8

(* Taking and giving back initMu keeps the invariant (message.go:76-77).    *)
LEMMA LockInitStep ==
  ASSUME Inv, NEW t \in Threads, LockInit(t) \/ UnlockInit(t)
  PROVE  Inv'
<1>1. PICK op \in {"lockInit", "unlockInit"} : At(t, op) /\ (op = "lockInit" <=> LockInit(t))
  BY DEF LockInit, UnlockInit, At
<1>2. PICK m \in Messages : Arg(t) = m
  BY <1>1, MessageArg DEF MessageSteps
<1>3. PICK o : o = IF op = "lockInit" THEN t ELSE None
  OBVIOUS
<1>4. /\ Continue(t, <<>>) /\ imu' = [imu EXCEPT ![m] = o]
      /\ op = "lockInit" => imu[m] = None
      /\ UNCHANGED <<fileVars, initDone, info, extensionVars, needsVars, globalVars>>
  BY <1>1, <1>2, <1>3 DEF LockInit, UnlockInit
<1>5. imu \in [Messages -> Threads \cup {None}] /\ t # None
  BY InvTypes, InstanceAssumption DEF TypesTyped
<1>6. /\ UNCHANGED <<fileVars, extensionVars, needsVars, globalVars>>
      /\ initDone' \in [Messages -> BOOLEAN] /\ info' \in [Messages -> {"nil", "partial", "full"}]
      /\ \A n \in Messages : initDone'[n] <=> info'[n] = "full"
  BY <1>4, InvTypes DEF TypesTyped, TypeStages
<1>7. imu' \in [Messages -> Threads \cup {None}] /\ imu'[m] = o
  BY <1>3, <1>4, <1>5
<1>8. Monotone
  BY <1>4, NothingMade DEF fileVars, extensionVars
<1>9. Keeps(I(op, m), <<>>)
  BY NoMaker DEF MakerOps
<1>10. ASSUME Replaces(t, <<>>) PROVE InitLocks'
  <2>1. PICK c \in Seq(Instruction) : c = <<>>
    BY Nothing
  <2>2. PICK s \in Seq(Instruction), r \in Seq(Instruction) :
           /\ s = todo[t] /\ r = todo'[t] /\ s # <<>> /\ r = c \o Tail(s)
           /\ Ordered(s) /\ Pending(s) /\ s[1] = I(op, m)
    BY <1>1, <1>2, <1>10, <2>1, Change
  <2>3. \A n : ~AnyIn(c, InitEnds(n))
    BY <2>1 DEF AnyIn
  <2>4. ASSUME NEW n \in Messages
        PROVE  /\ HoldsInit(s, n) <=> (s[1] \in InitEnds(n) \/ Later(s, InitEnds(n))) /\ s[1] \notin InitBegins(n)
               /\ HoldsInit(r, n) <=> Later(s, InitEnds(n))
    BY <2>1, <2>2, <2>3, InitHolds
  <2>5. OtherTypesKept(t, m)
    <3>1. \A n \in Messages : n # m => s[1] \notin InitEnds(n) /\ s[1] \notin InitBegins(n)
      BY <2>2 DEF InitEnds, InitBegins, I
    <3> QED
      BY <2>2, <2>4, <3>1 DEF OtherTypesKept
  <2>6. CASE op = "lockInit"
    <3>1. I("initOnce", m) \in After(s[1]) /\ I("initOnce", m) \in InitEnds(m)
      BY <2>2, <2>6 DEF After, InitEnds, I
    <3>2. Later(s, {I("initOnce", m)})
      BY <3>1, <2>2, LaterPending
    <3>3. Later(s, InitEnds(m))
      BY <3>1, <3>2 DEF Later
    <3>4. imu'[m] = t /\ HoldsInit(todo'[t], m) /\ imu[m] \in {t, None} /\ o \in {t, None}
      BY <3>3, <2>2, <2>4, <2>6, <1>3, <1>4, <1>7
    <3> QED
      BY <3>4, <2>5, <1>4, <1>10, InitLocksStep
  <2>7. CASE op = "unlockInit"
    <3>1. ~Later(s, InitEnds(m))
      <4> SUFFICES ASSUME Later(s, InitEnds(m)) PROVE FALSE
        OBVIOUS
      <4>1. PICK b \in InitEnds(m) : Before(s[1], b)
        BY <2>2, LaterBefore
      <4> QED
        BY <4>1, <2>2, <2>7 DEF Before, TypeBefore, InitEnds, I
    <3>2. s[1] \in InitEnds(m) /\ s[1] \notin InitBegins(m)
      BY <2>2, <2>7 DEF InitEnds, InitBegins, I
    <3>3. imu[m] = t
      BY <3>2, <2>2, <2>4 DEF Inv, Locks, InitLocks
    <3>4. imu'[m] # t /\ ~HoldsInit(todo'[t], m) /\ imu[m] \in {t, None} /\ o \in {t, None}
      BY <3>1, <3>3, <2>2, <2>4, <2>7, <1>3, <1>5, <1>7
    <3> QED
      BY <3>4, <2>5, <1>4, <1>10, InitLocksStep
  <2> QED BY <2>6, <2>7
<1> QED
  BY <1>1, <1>2, <1>4, <1>6, <1>7, <1>8, <1>9, <1>10, Nothing, InitOnly

(* MessageInfo.initOnce keeps the invariant: it makes the tables, or finds  *)
(* them made (message.go:75-96).                                            *)
LEMMA InitOnceStep ==
  ASSUME Inv, NEW t \in Threads, InitOnce(t)
  PROVE  Inv'
<1>1. PICK m \in Messages : Arg(t) = m
  BY MessageArg DEF InitOnce, MessageSteps
<1>2. PICK each : each = FlattenSeq([i \in DOMAIN Fields[m] |-> <<I("needsInitCheck", Fields[m][i])>>])
  OBVIOUS
<1>3. PICK c : c = IF initDone[m] THEN <<I("unlockInit", m)>>
                   ELSE <<I("lazyInit", FileOf[m])>> \o each \o <<I("needsInitCheck", m)>>
                        \o <<I("storeDone", m), I("unlockInit", m)>>
  OBVIOUS
<1>4. /\ At(t, "initOnce") /\ Continue(t, c)
      /\ initDone[m] => info' = info
      /\ ~initDone[m] => info' = [info EXCEPT ![m] = "partial"]
      /\ UNCHANGED <<fileVars, initDone, imu, extensionVars, needsVars, globalVars>>
  BY <1>1, <1>2, <1>3 DEF InitOnce, DoneUnderLock, NeedsCheck, Each
<1>5. /\ c \in Seq(Instruction)
      /\ \A i \in 1 .. Len(c) : \/ c[i].op \in {"lazyInit", "needsInitCheck", "storeDone"}
                                \/ i = Len(c) /\ c[i] = I("unlockInit", m)
      /\ Has(c, I("unlockInit", m))
      /\ ~initDone[m] => Has(c, I("storeDone", m))
  <2>1. CASE initDone[m]
    <3>1. c = <<I("unlockInit", m)>>
      BY <2>1, <1>3
    <3>2. c \in Seq(Instruction) /\ Len(c) = 1 /\ c[1] = I("unlockInit", m)
      BY <3>1 DEF Instruction, I
    <3> QED
      BY <2>1, <3>2 DEF Has, AnyIn
  <2>2. CASE ~initDone[m]
    <3>1. each \in Seq({I("needsInitCheck", n) : n \in Messages})
      BY <1>2, EachField
    <3>2. /\ c \in Seq(Instruction) /\ Len(c) > 1
          /\ \A i \in 1 .. Len(c) : \/ c[i].op \in {"lazyInit", "needsInitCheck", "storeDone"}
                                    \/ i = Len(c) /\ c[i] = I("unlockInit", m)
          /\ c[Len(c)] = I("unlockInit", m) /\ c[Len(c) - 1] = I("storeDone", m)
      BY <2>2, <3>1, <1>3, InitWork
    <3>3. Len(c) \in 1 .. Len(c) /\ Len(c) - 1 \in 1 .. Len(c)
      BY <3>2
    <3> QED
      BY <3>2, <3>3 DEF Has, AnyIn
  <2> QED BY <2>1, <2>2
<1>6. \A i \in 1 .. Len(c) : c[i].op \in {"lazyInit", "needsInitCheck", "storeDone"} \/ c[i] = I("unlockInit", m)
  BY <1>5
<1>7. \A i \in 1 .. Len(c) : c[i].op \in {"lazyInit", "needsInitCheck", "storeDone", "unlockInit"}
  BY <1>6 DEF I
<1>8. Expands(I("initOnce", m), c) /\ c \in Balanced
  BY <1>5, InitOnceExpands
<1>9. /\ UNCHANGED <<fileVars, extensionVars, needsVars, globalVars>>
      /\ initDone' \in [Messages -> BOOLEAN] /\ info' \in [Messages -> {"nil", "partial", "full"}]
      /\ imu' \in [Messages -> Threads \cup {None}] /\ initDone' = initDone /\ imu' = imu
  BY <1>4, InvTypes DEF TypesTyped
<1>10. \A n \in Messages : initDone'[n] <=> info'[n] = "full"
  BY <1>4, <1>9, InvTypes DEF TypesTyped, TypeStages
<1>11. Monotone
  BY <1>4, NothingMade DEF fileVars, extensionVars
<1>12. Ready(c) /\ Without(c, FileOps \cup GlobalOps \cup NeedsOps \cup ExtensionOps \cup {"storeVerdict"})
  BY <1>7 DEF Ready, Wants, Without, FileOps, GlobalOps, NeedsOps, ExtensionOps
<1>13. Keeps(I("initOnce", m), c)
  <2>1. initDone'[m] \/ \E i \in 1 .. Len(c) : Makes(c[i], "tables", m)
    BY <1>5, <1>9 DEF Has, AnyIn, Makes, Makers, I
  <2> QED
    BY <2>1 DEF Keeps, Makes, Makers, Wants, Made, I
<1>14. ASSUME Replaces(t, c) PROVE InitLocks'
  <2>1. PICK s \in Seq(Instruction), r \in Seq(Instruction) :
           /\ s = todo[t] /\ r = todo'[t] /\ s # <<>> /\ r = c \o Tail(s)
           /\ Ordered(s) /\ s[1] = I("initOnce", m)
    BY <1>1, <1>4, <1>14, Change
  <2>2. c # <<>> /\ 1 \in 1 .. Len(c)
    BY <1>5 DEF Has, AnyIn
  <2>3. \A n \in Messages : c[1] \notin InitBegins(n) /\ s[1] \notin InitBegins(n)
    <3>1. c[1].op # "lockInit" /\ s[1].op # "lockInit"
      BY <1>7, <2>1, <2>2 DEF I
    <3> QED
      BY <3>1 DEF InitBegins, I
  <2>4. s[1] \in InitEnds(m) /\ AnyIn(c, InitEnds(m))
    BY <2>1, <1>5 DEF InitEnds, Has, AnyIn
  <2>5. HoldsInit(s, m) /\ HoldsInit(r, m)
    BY <2>1, <2>3, <2>4, <1>5, InitHolds
  <2>6. ASSUME NEW n \in Messages, n # m PROVE HoldsInit(r, n) <=> HoldsInit(s, n)
    <3>1. s[1] \notin InitEnds(n)
      BY <2>1, <2>6 DEF InitEnds, I
    <3>2. ~AnyIn(c, InitEnds(n))
      BY <1>6, <2>6 DEF AnyIn, InitEnds, I
    <3> QED
      BY <3>1, <3>2, <2>1, <2>3, <1>5, InitHolds
  <2>7. OtherTypesKept(t, m)
    BY <2>1, <2>6 DEF OtherTypesKept
  <2>8. imu'[m] = t /\ HoldsInit(todo'[t], m)
    BY <2>1, <2>5, <1>9 DEF Inv, Locks, InitLocks
  <2> QED
    BY <2>7, <2>8, <1>9, <1>14, InitLocksStep
<1> QED
  BY <1>1, <1>4, <1>8, <1>9, <1>10, <1>11, <1>12, <1>13, <1>14, InitOnly

(* Setting initDone keeps the invariant (message.go:95).                    *)
LEMMA StoreDoneStep ==
  ASSUME Inv, NEW t \in Threads, StoreDone(t)
  PROVE  Inv'
<1>1. PICK m \in Messages : Arg(t) = m
  BY MessageArg DEF StoreDone, MessageSteps
<1>2. /\ At(t, "storeDone") /\ Continue(t, <<>>)
      /\ info' = [info EXCEPT ![m] = "full"] /\ initDone' = [initDone EXCEPT ![m] = TRUE]
      /\ UNCHANGED <<fileVars, imu, extensionVars, needsVars, globalVars>>
  BY <1>1 DEF StoreDone
<1>3. initDone \in [Messages -> BOOLEAN] /\ info \in [Messages -> {"nil", "partial", "full"}]
  BY InvTypes DEF TypesTyped
<1>4. initDone'[m] /\ info'[m] = "full" /\ \A n \in Messages : n # m => initDone'[n] = initDone[n] /\ info'[n] = info[n]
  BY <1>2, <1>3
<1>5. /\ UNCHANGED <<fileVars, extensionVars, needsVars, globalVars>>
      /\ initDone' \in [Messages -> BOOLEAN] /\ info' \in [Messages -> {"nil", "partial", "full"}]
      /\ imu' \in [Messages -> Threads \cup {None}] /\ imu' = imu
  BY <1>2, InvTypes DEF TypesTyped
<1>6. \A n \in Messages : initDone'[n] <=> info'[n] = "full"
  BY <1>4, InvTypes DEF TypeStages
<1>7. Monotone
  BY <1>2, <1>4, OnlyMore DEF fileVars, extensionVars
<1>8. Keeps(I("storeDone", m), <<>>)
  BY <1>4 DEF Keeps, Makes, Makers, Wants, Made, I
<1>9. Replaces(t, <<>>) => InitLocks'
  BY <1>1, <1>2, <1>5, <1>7, <1>8, Nothing, StepKeeps DEF InitOps
<1> QED
  BY <1>1, <1>2, <1>5, <1>6, <1>7, <1>8, <1>9, Nothing, InitOnly

-----------------------------------------------------------------------------
(* ExtensionInfo. *)

ExtensionSteps == {"TypeDescriptor", "lazyInitExtension", "lockExtension", "lazyInitSlow", "setDesc",
                   "setConv", "storeFull", "unlockExtension"}

(* The steps of extension types are about extension types.                  *)
LEMMA ExtensionArg ==
  ASSUME Inv, NEW t \in Threads, NEW op \in ExtensionSteps, At(t, op)
  PROVE  Arg(t) \in Extensions
<1>1. todo[t][1] = I(op, Arg(t)) /\ todo[t][1] \in Instruction
  BY AtStep
<1> QED
  BY <1>1 DEF Instruction, ExtensionSteps, I

(* Who holds the mutex of an extension type before and after a step.        *)
LEMMA ExtensionHolds ==
  ASSUME NEW s \in Seq(Instruction), s # <<>>, Ordered(s), NEW c \in Seq(Instruction), NEW r, r = c \o Tail(s), NEW y
  PROVE  /\ HoldsExtension(s, y) <=> /\ s[1] = I("unlockExtension", y) \/ Later(s, {I("unlockExtension", y)})
                                     /\ s[1] # I("lockExtension", y)
         /\ HoldsExtension(r, y) <=> /\ Has(c, I("unlockExtension", y)) \/ Later(s, {I("unlockExtension", y)})
                                     /\ c = <<>> \/ c[1] # I("lockExtension", y)
<1> DEFINE U == {I("unlockExtension", y)}
           L == {I("lockExtension", y)}
<1>1. Foremost(L)
  BY DEF Foremost, First, I
<1> HIDE DEF U, L
<1>2. /\ Holds(s, U, L) <=> (s[1] \in U \/ Later(s, U)) /\ s[1] \notin L
      /\ Holds(r, U, L) <=> (AnyIn(c, U) \/ Later(s, U)) /\ (c = <<>> \/ c[1] \notin L)
  BY <1>1, HoldsStep
<1> QED
  BY <1>2 DEF HoldsExtension, Has, U, L

OtherExtensionsKept(t, x) ==
  \A y \in Extensions : y # x => (HoldsExtension(todo'[t], y) <=> HoldsExtension(todo[t], y))

(* A step of t on the extension x, which may take or give back its mutex. *)
LEMMA ExtensionLocksStep ==
  ASSUME Inv, NEW t \in Threads, NEW c, Replaces(t, c), NEW x \in Extensions,
         xmu' = xmu \/ (xmu[x] \in {t, None} /\ \E o \in {t, None} : xmu' = [xmu EXCEPT ![x] = o]),
         xmu'[x] = t <=> HoldsExtension(todo'[t], x), OtherExtensionsKept(t, x)
  PROVE  ExtensionLocks'
<1>1. \A u \in Threads : u # t => todo'[u] = todo[u]
  <2>1. Listed
    BY DEF Inv, TypeOK, Listed
  <2> QED
    BY <2>1, ReplacedList
<1>2. xmu \in [Extensions -> Threads \cup {None}] /\ None \notin Threads
  BY InstanceAssumption DEF Inv, TypeOK
<1>3. /\ \A y \in Extensions : y # x => xmu'[y] = xmu[y]
      /\ \A u \in Threads : u # t => (xmu'[x] = u <=> xmu[x] = u)
  BY <1>2
<1>4. ASSUME NEW u \in Threads, NEW y \in Extensions PROVE xmu'[y] = u <=> HoldsExtension(todo'[u], y)
  <2>1. xmu[y] = u <=> HoldsExtension(todo[u], y)
    BY DEF Inv, Locks, ExtensionLocks
  <2>2. CASE u = t /\ y = x
    BY <2>2
  <2>3. CASE u = t /\ y # x
    BY <2>1, <2>3, <1>3 DEF OtherExtensionsKept
  <2>4. CASE u # t
    BY <2>1, <2>4, <1>1, <1>3
  <2> QED BY <2>2, <2>3, <2>4
<1> QED
  BY <1>4 DEF ExtensionLocks, HoldsExtension, Holds, AnyIn, I

(* A step of ExtensionInfo, whose effect on its mutex is shown apart, keeps *)
(* the invariant.                                                           *)
LEMMA ExtensionOnly ==
  ASSUME Inv, NEW t \in Threads, NEW op \in ExtensionSteps,
         NEW on, At(t, op), Arg(t) = on, NEW c, Continue(t, c), Expands(I(op, on), c), Keeps(I(op, on), c),
         c \in Balanced, Ready(c), Monotone,
         Without(c, FileOps \cup GlobalOps \cup NeedsOps \cup InitOps \cup {"storeVerdict"}),
         UNCHANGED <<fileVars, messageVars, needsVars, globalVars>>,
         init' \in [Extensions -> 0 .. 2], desc' \in [Extensions -> BOOLEAN] /\ conv' \in [Extensions -> BOOLEAN],
         xmu' \in [Extensions -> Threads \cup {None}],
         \A x \in Extensions : (init'[x] >= 1 => desc'[x]) /\ (init'[x] = 2 => conv'[x] \/ x \in Incomplete),
         Replaces(t, c) => ExtensionLocks'
  PROVE  Inv'
<1>1. op \notin Reads \cup FileOps \cup GlobalOps \cup {"resolved"} /\ op \notin NeedsOps \cup InitOps
  BY DEF Reads, FileOps, NeedsOps, InitOps, GlobalOps, ExtensionSteps
<1>2. Without(c, FileOps \cup GlobalOps) /\ Without(c, NeedsOps) /\ Without(c, InitOps) /\ Without(c, {"storeVerdict"})
  BY DEF Without
<1>3. Replaces(t, c) => InitLocks' /\ NeedsLock' /\ ExtensionLocks' /\ Marks'
  BY <1>1, <1>2, StepKeeps DEF messageVars, needsVars
<1>4. TypesTyped' /\ TypeStages'
  BY InvTypes DEF TypesTyped, TypeStages, messageVars, needsVars
<1>5. UNCHANGED <<fileVars, globalVars>>
  OBVIOUS
<1> QED
  BY <1>1, <1>2, <1>3, <1>4, <1>5, TypeOnly

(* Taking and giving back ExtensionInfo.mu keeps the invariant              *)
(* (extension.go:125-126).                                                  *)
LEMMA LockExtensionStep ==
  ASSUME Inv, NEW t \in Threads, LockExtension(t) \/ UnlockExtension(t)
  PROVE  Inv'
<1>1. PICK op \in {"lockExtension", "unlockExtension"} : At(t, op) /\ (op = "lockExtension" <=> LockExtension(t))
  BY DEF LockExtension, UnlockExtension, At
<1>2. PICK x \in Extensions : Arg(t) = x
  BY <1>1, ExtensionArg DEF ExtensionSteps
<1>3. PICK o : o = IF op = "lockExtension" THEN t ELSE None
  OBVIOUS
<1>4. /\ Continue(t, <<>>) /\ xmu' = [xmu EXCEPT ![x] = o]
      /\ op = "lockExtension" => xmu[x] = None
      /\ UNCHANGED <<fileVars, messageVars, init, desc, conv, needsVars, globalVars>>
  BY <1>1, <1>2, <1>3 DEF LockExtension, UnlockExtension
<1>5. xmu \in [Extensions -> Threads \cup {None}] /\ t # None
  BY InvTypes, InstanceAssumption DEF TypesTyped
<1>6. /\ UNCHANGED <<fileVars, messageVars, needsVars, globalVars>>
      /\ init' \in [Extensions -> 0 .. 2] /\ desc' \in [Extensions -> BOOLEAN] /\ conv' \in [Extensions -> BOOLEAN]
      /\ \A y \in Extensions : (init'[y] >= 1 => desc'[y]) /\ (init'[y] = 2 => conv'[y] \/ y \in Incomplete)
  BY <1>4, InvTypes DEF TypesTyped, TypeStages
<1>7. xmu' \in [Extensions -> Threads \cup {None}] /\ xmu'[x] = o
  BY <1>3, <1>4, <1>5
<1>8. Monotone
  BY <1>4, NothingMade DEF fileVars, messageVars
<1>9. Keeps(I(op, x), <<>>)
  BY NoMaker DEF MakerOps
<1>10. ASSUME Replaces(t, <<>>) PROVE ExtensionLocks'
  <2>1. PICK c \in Seq(Instruction) : c = <<>>
    BY Nothing
  <2>2. PICK s \in Seq(Instruction), r \in Seq(Instruction) :
           /\ s = todo[t] /\ r = todo'[t] /\ s # <<>> /\ r = c \o Tail(s)
           /\ Ordered(s) /\ Pending(s) /\ s[1] = I(op, x)
    BY <1>1, <1>2, <1>10, <2>1, Change
  <2>3. \A y : ~Has(c, I("unlockExtension", y))
    BY <2>1 DEF Has, AnyIn
  <2>4. ASSUME NEW y \in Extensions
        PROVE  /\ HoldsExtension(s, y) <=> /\ s[1] = I("unlockExtension", y) \/ Later(s, {I("unlockExtension", y)})
                                           /\ s[1] # I("lockExtension", y)
               /\ HoldsExtension(r, y) <=> Later(s, {I("unlockExtension", y)})
    BY <2>1, <2>2, <2>3, ExtensionHolds
  <2>5. OtherExtensionsKept(t, x)
    <3>1. \A y \in Extensions : y # x => s[1] # I("unlockExtension", y) /\ s[1] # I("lockExtension", y)
      BY <2>2 DEF I
    <3> QED
      BY <2>2, <2>4, <3>1 DEF OtherExtensionsKept
  <2>6. CASE op = "lockExtension"
    <3>1. I("unlockExtension", x) \in After(s[1])
      BY <2>2, <2>6 DEF After, I
    <3>2. Later(s, {I("unlockExtension", x)})
      BY <3>1, <2>2, LaterPending
    <3>3. xmu'[x] = t /\ HoldsExtension(todo'[t], x) /\ xmu[x] \in {t, None} /\ o \in {t, None}
      BY <3>2, <2>2, <2>4, <2>6, <1>3, <1>4, <1>7
    <3> QED
      BY <3>3, <2>5, <1>4, <1>10, ExtensionLocksStep
  <2>7. CASE op = "unlockExtension"
    <3>1. ~Later(s, {I("unlockExtension", x)})
      <4> SUFFICES ASSUME Later(s, {I("unlockExtension", x)}) PROVE FALSE
        OBVIOUS
      <4>1. Before(s[1], I("unlockExtension", x))
        BY <2>2, LaterBefore
      <4> QED
        BY <4>1, <2>2, <2>7 DEF Before, TypeBefore, I
    <3>2. s[1] = I("unlockExtension", x) /\ s[1] # I("lockExtension", x)
      BY <2>2, <2>7 DEF I
    <3>3. xmu[x] = t
      BY <3>2, <2>2, <2>4 DEF Inv, Locks, ExtensionLocks
    <3>4. xmu'[x] # t /\ ~HoldsExtension(todo'[t], x) /\ xmu[x] \in {t, None} /\ o \in {t, None}
      BY <3>1, <3>3, <2>2, <2>4, <2>7, <1>3, <1>5, <1>7
    <3> QED
      BY <3>4, <2>5, <1>4, <1>10, ExtensionLocksStep
  <2> QED BY <2>6, <2>7
<1> QED
  BY <1>1, <1>2, <1>4, <1>6, <1>7, <1>8, <1>9, <1>10, Nothing, ExtensionOnly DEF ExtensionSteps

(* The elements of two lists put together. *)
LEMMA Joined ==
  ASSUME NEW S, NEW p \in Seq(S), NEW q \in Seq(S), NEW r, r = p \o q
  PROVE  /\ r \in Seq(S) /\ Len(r) = Len(p) + Len(q)
         /\ \A i \in 1 .. Len(p) : r[i] = p[i]
         /\ \A i \in 1 .. Len(q) : r[Len(p) + i] = q[i]
<1>1. Len(p) \in Nat /\ Len(q) \in Nat
  OBVIOUS
<1>2. /\ r \in Seq(S) /\ Len(r) = Len(p) + Len(q)
      /\ \A i \in 1 .. Len(p) + Len(q) : r[i] = IF i <= Len(p) THEN p[i] ELSE q[i - Len(p)]
  BY ConcatProperties
<1>3. \A i \in 1 .. Len(p) : r[i] = p[i]
  BY <1>1, <1>2
<1>4. ASSUME NEW i \in 1 .. Len(q) PROVE r[Len(p) + i] = q[i]
  <2>1. Len(p) + i \in 1 .. Len(p) + Len(q) /\ ~(Len(p) + i <= Len(p)) /\ (Len(p) + i) - Len(p) = i
    BY <1>1
  <2> QED
    BY <2>1, <1>2
<1> QED BY <1>2, <1>3, <1>4

(* TypeDescriptor and lazyInit. *)
LEMMA LazyInitExtensionStep ==
  ASSUME Inv, NEW t \in Threads, LazyInitExtension(t)
  PROVE  Inv'
<1>1. PICK op \in {"TypeDescriptor", "lazyInitExtension"} :
        /\ At(t, op)
        /\ Continue(t, (IF init[Arg(t)] >= Stage(op) THEN <<>>
                        ELSE <<I("lockExtension", Arg(t)), I("lazyInitSlow", Arg(t)), I("unlockExtension", Arg(t))>>)
                       \o (IF op = "TypeDescriptor" THEN <<I("useDescriptor", Arg(t))>> ELSE <<>>))
  BY DEF LazyInitExtension
<1>2. PICK x \in Extensions : Arg(t) = x
  BY <1>1, ExtensionArg DEF ExtensionSteps
<1>3. PICK c : c = (IF init[x] >= Stage(op) THEN <<>>
                    ELSE <<I("lockExtension", x), I("lazyInitSlow", x), I("unlockExtension", x)>>)
                   \o (IF op = "TypeDescriptor" THEN <<I("useDescriptor", x)>> ELSE <<>>)
  OBVIOUS
<1>4. Continue(t, c) /\ UNCHANGED <<fileVars, messageVars, extensionVars, needsVars, globalVars>>
  BY <1>1, <1>2, <1>3 DEF LazyInitExtension
<1>5. /\ UNCHANGED <<fileVars, messageVars, needsVars, globalVars>>
      /\ init' \in [Extensions -> 0 .. 2] /\ desc' \in [Extensions -> BOOLEAN] /\ conv' \in [Extensions -> BOOLEAN]
      /\ xmu' \in [Extensions -> Threads \cup {None}] /\ xmu' = xmu /\ desc' = desc /\ conv' = conv
      /\ \A y \in Extensions : (init'[y] >= 1 => desc'[y]) /\ (init'[y] = 2 => conv'[y] \/ y \in Incomplete)
  BY <1>4, InvTypes DEF TypesTyped, TypeStages, extensionVars
<1>6. Monotone
  BY <1>4, NothingMade DEF fileVars, messageVars, extensionVars
<1>7. init[x] \in 0 .. 2 /\ (init[x] >= 1 => desc[x]) /\ (init[x] = 2 => conv[x] \/ x \in Incomplete)
  BY InvTypes DEF TypesTyped, TypeStages
<1>8. CASE init[x] >= Stage(op) /\ op = "TypeDescriptor"
  <2>0. I("useDescriptor", x) \in Instruction
    BY DEF Instruction, I
  <2>1. c = <<I("useDescriptor", x)>>
    <3>1. PICK q : q = <<I("useDescriptor", x)>>
      OBVIOUS
    <3>2. q \in Seq(Instruction)
      BY <3>1, <2>0
    <3>3. c = <<>> \o q
      BY <3>1, <1>3, <1>8
    <3> QED
      BY <3>1, <3>2, <3>3, ConcatEmptySeq
  <2>2. Expands(I(op, x), c) /\ c \in Balanced
    BY <2>1, <1>8, DescriptorExpands
  <2>3. Len(c) = 1 /\ c[1] = I("useDescriptor", x)
    BY <2>1
  <2>4. desc'[x]
    BY <1>5, <1>7, <1>8 DEF Stage
  <2>5. Ready(c)
    <3>1. c[1].op = "useDescriptor" /\ c[1].on = x /\ \A i \in 1 .. Len(c) : i = 1
      BY <2>3 DEF I
    <3>2. Wants("useDescriptor") = {"descriptor"} /\ Made("descriptor", x)'
      BY <2>4 DEF Wants, Made
    <3> QED
      BY <3>1, <3>2 DEF Ready
  <2>6. /\ Without(c, FileOps \cup GlobalOps \cup NeedsOps \cup InitOps \cup {"storeVerdict"})
        /\ Without(c, ExtensionOps)
    BY <2>3 DEF Without, FileOps, GlobalOps, NeedsOps, InitOps, ExtensionOps, I
  <2>7. Keeps(I(op, x), c)
    BY <1>8, NoMaker DEF MakerOps
  <2>8. Replaces(t, c) => ExtensionLocks'
    BY <1>1, <1>2, <1>4, <1>5, <1>6, <1>8, <2>2, <2>5, <2>6, <2>7, StepKeeps DEF ExtensionOps
  <2> QED
    BY <1>1, <1>2, <1>4, <1>5, <1>6, <2>2, <2>5, <2>6, <2>7, <2>8, ExtensionOnly DEF ExtensionSteps
<1>9. CASE init[x] >= Stage(op) /\ op # "TypeDescriptor"
  <2>1. c = <<>> /\ op = "lazyInitExtension"
    BY <1>3, <1>9
  <2>2. conv'[x] \/ x \in Incomplete
    BY <1>5, <1>7, <1>9 DEF Stage
  <2>3. Keeps(I(op, x), c)
    BY <2>1, <2>2 DEF Keeps, Makes, Makers, Wants, Made, I
  <2>4. Replaces(t, c) => ExtensionLocks'
    BY <1>1, <1>2, <1>4, <1>5, <1>6, <2>1, <2>3, Nothing, StepKeeps DEF ExtensionOps
  <2>5. Expands(I(op, x), c) /\ c \in Balanced /\ Ready(c)
        /\ Without(c, FileOps \cup GlobalOps \cup NeedsOps \cup InitOps \cup {"storeVerdict"})
    BY <2>1, Nothing
  <2> QED
    BY <1>1, <1>2, <1>4, <1>5, <1>6, <2>3, <2>4, <2>5, ExtensionOnly DEF ExtensionSteps
<1>10. CASE ~(init[x] >= Stage(op))
  <2>1. I("lockExtension", x) \in Instruction /\ I("lazyInitSlow", x) \in Instruction
        /\ I("unlockExtension", x) \in Instruction /\ I("useDescriptor", x) \in Instruction
    BY DEF Instruction, I
  <2>2. PICK p \in Seq(Instruction), q \in Seq(Instruction) :
           /\ c = p \o q /\ Len(p) = 3
           /\ p[1] = I("lockExtension", x) /\ p[2] = I("lazyInitSlow", x) /\ p[3] = I("unlockExtension", x)
           /\ Len(q) = 0 \/ (Len(q) = 1 /\ q[1] = I("useDescriptor", x))
    <3>1. PICK p : p = <<I("lockExtension", x), I("lazyInitSlow", x), I("unlockExtension", x)>>
      OBVIOUS
    <3>2. PICK q : q = IF op = "TypeDescriptor" THEN <<I("useDescriptor", x)>> ELSE <<>>
      OBVIOUS
    <3>3. p \in Seq(Instruction) /\ Len(p) = 3
          /\ p[1] = I("lockExtension", x) /\ p[2] = I("lazyInitSlow", x) /\ p[3] = I("unlockExtension", x)
      BY <3>1, <2>1
    <3>4. q \in Seq(Instruction) /\ (Len(q) = 0 \/ (Len(q) = 1 /\ q[1] = I("useDescriptor", x)))
      BY <3>2, <2>1
    <3> QED
      BY <3>1, <3>2, <3>3, <3>4, <1>3, <1>10
  <2>3. /\ c \in Seq(Instruction) /\ c[1] = I("lockExtension", x) /\ c[2] = I("lazyInitSlow", x)
        /\ c[3] = I("unlockExtension", x)
        /\ (Len(c) = 4 /\ c[4] = I("useDescriptor", x)) \/ Len(c) = 3
    <3>1. /\ c \in Seq(Instruction) /\ Len(c) = Len(p) + Len(q)
          /\ \A i \in 1 .. Len(p) : c[i] = p[i]
          /\ \A i \in 1 .. Len(q) : c[Len(p) + i] = q[i]
      <4>1. c = p \o q
        BY <2>2
      <4> QED BY <4>1, Joined
    <3> QED
      BY <3>1, <2>2
  <2>4. \A i \in 1 .. Len(c) : i = 1 \/ i = 2 \/ i = 3 \/ (i = 4 /\ Len(c) = 4)
    <3>1. PICK n \in {3, 4} : n = Len(c)
      BY <2>3
    <3>2. \A i \in 1 .. n : i = 1 \/ i = 2 \/ i = 3 \/ (i = 4 /\ n = 4)
      OBVIOUS
    <3> QED BY <3>1, <3>2
  <2>5. Expands(I(op, x), c) /\ c \in Balanced
    BY <2>3, SlowExpands
  <2>6. \A i \in 1 .. Len(c) : /\ c[i].op \in {"lockExtension", "lazyInitSlow", "unlockExtension", "useDescriptor"}
                               /\ c[i].on = x
                               /\ c[i].op = "useDescriptor" => i = 4
    BY <2>3, <2>4, SMTT(60) DEF I
  <2>7. 2 \in 1 .. Len(c) /\ Makes(c[2], "descriptor", x) /\ Makes(c[2], "converter", x)
    BY <2>3 DEF Makes, Makers, I
  <2>8. Ready(c)
    BY <2>6, <2>7 DEF Ready, Wants
  <2>9. Keeps(I(op, x), c)
    BY <2>7 DEF Keeps, Makes, Makers, Wants, I
  <2>10. Without(c, FileOps \cup GlobalOps \cup NeedsOps \cup InitOps \cup {"storeVerdict"})
    BY <2>6 DEF Without, FileOps, GlobalOps, NeedsOps, InitOps
  <2>11. ASSUME Replaces(t, c) PROVE ExtensionLocks'
    <3>1. PICK s \in Seq(Instruction), r \in Seq(Instruction) :
             /\ s = todo[t] /\ r = todo'[t] /\ s # <<>> /\ r = c \o Tail(s)
             /\ Ordered(s) /\ s[1] = I(op, x)
      BY <1>1, <1>2, <2>11, Change
    <3>2. ~Later(s, {I("unlockExtension", x)})
      <4> SUFFICES ASSUME Later(s, {I("unlockExtension", x)}) PROVE FALSE
        OBVIOUS
      <4>1. Before(s[1], I("unlockExtension", x))
        BY <3>1, LaterBefore
      <4> QED
        BY <4>1, <3>1 DEF Before, TypeBefore, I
    <3>3. c # <<>>
      BY <2>3
    <3>4. s[1] # I("unlockExtension", x)
      BY <3>1 DEF I
    <3>5. ~HoldsExtension(s, x) /\ ~HoldsExtension(r, x)
      BY <3>1, <3>2, <3>3, <3>4, <2>3, ExtensionHolds
    <3>6. ASSUME NEW y \in Extensions, y # x PROVE HoldsExtension(r, y) <=> HoldsExtension(s, y)
      <4>1. s[1] # I("unlockExtension", y) /\ s[1] # I("lockExtension", y) /\ c[1] # I("lockExtension", y)
        BY <3>1, <3>6, <2>3 DEF I
      <4>2. ~Has(c, I("unlockExtension", y))
        BY <3>6, <2>6 DEF Has, AnyIn, I
      <4> QED
        BY <4>1, <4>2, <3>1, <2>3, ExtensionHolds
    <3>7. xmu'[x] # t /\ ~HoldsExtension(todo'[t], x)
      BY <3>1, <3>5, <1>5 DEF Inv, Locks, ExtensionLocks
    <3>8. OtherExtensionsKept(t, x)
      BY <3>1, <3>6 DEF OtherExtensionsKept
    <3> QED
      BY <3>7, <3>8, <1>5, <2>11, ExtensionLocksStep
  <2> QED
    BY <1>1, <1>2, <1>4, <1>5, <1>6, <2>5, <2>8, <2>9, <2>10, <2>11, ExtensionOnly DEF ExtensionSteps
<1> QED BY <1>8, <1>9, <1>10

(* Setting the descriptor and the converter keeps the invariant.            *)
LEMMA SetDescStep ==
  ASSUME Inv, NEW t \in Threads, SetDesc(t) \/ SetConv(t)
  PROVE  Inv'
<1>1. PICK op \in {"setDesc", "setConv"} : At(t, op) /\ (op = "setDesc" => SetDesc(t)) /\ (op = "setConv" => SetConv(t))
  BY DEF SetDesc, SetConv
<1>2. PICK x \in Extensions : Arg(t) = x
  BY <1>1, ExtensionArg DEF ExtensionSteps
<1>3. /\ Continue(t, <<>>)
      /\ UNCHANGED <<fileVars, messageVars, init, xmu, needsVars, globalVars>>
      /\ op = "setDesc" => desc' = [desc EXCEPT ![x] = TRUE] /\ conv' = conv
      /\ op = "setConv" => conv' = [conv EXCEPT ![x] = TRUE] /\ desc' = desc
  BY <1>1, <1>2 DEF SetDesc, SetConv
<1>4. /\ init \in [Extensions -> 0 .. 2] /\ desc \in [Extensions -> BOOLEAN] /\ conv \in [Extensions -> BOOLEAN]
      /\ xmu \in [Extensions -> Threads \cup {None}]
      /\ \A y \in Extensions : (init[y] >= 1 => desc[y]) /\ (init[y] = 2 => conv[y] \/ y \in Incomplete)
  BY InvTypes DEF TypesTyped, TypeStages
<1>5. /\ desc' \in [Extensions -> BOOLEAN] /\ conv' \in [Extensions -> BOOLEAN]
      /\ \A y \in Extensions : (desc[y] => desc'[y]) /\ (conv[y] => conv'[y])
      /\ op = "setDesc" => desc'[x]
      /\ op = "setConv" => conv'[x]
  BY <1>3, <1>4
<1>6. /\ init' \in [Extensions -> 0 .. 2] /\ xmu' \in [Extensions -> Threads \cup {None}] /\ xmu' = xmu
      /\ \A y \in Extensions : (init'[y] >= 1 => desc'[y]) /\ (init'[y] = 2 => conv'[y] \/ y \in Incomplete)
  BY <1>3, <1>4, <1>5
<1>7. Monotone
  BY <1>3, <1>5, OnlyMore DEF fileVars, messageVars
<1>8. Keeps(I(op, x), <<>>)
  BY <1>5, ZenonT(60) DEF Keeps, Makes, Makers, Wants, Made, I
<1>9. Replaces(t, <<>>) => ExtensionLocks'
  BY <1>1, <1>2, <1>3, <1>6, <1>7, <1>8, Nothing, StepKeeps DEF ExtensionOps
<1> QED
  BY <1>1, <1>2, <1>3, <1>5, <1>6, <1>7, <1>8, <1>9, Nothing, ExtensionOnly DEF ExtensionSteps

(* Storing the last stage keeps the invariant: the descriptor and the       *)
(* converter are there (extension.go:131).                                  *)
LEMMA StoreFullStep ==
  ASSUME Inv, NEW t \in Threads, StoreFull(t)
  PROVE  Inv'
<1>1. PICK x \in Extensions : Arg(t) = x
  BY ExtensionArg DEF StoreFull, ExtensionSteps
<1>2. /\ At(t, "storeFull") /\ Continue(t, <<>>) /\ init' = [init EXCEPT ![x] = 2]
      /\ UNCHANGED <<fileVars, messageVars, desc, conv, xmu, needsVars, globalVars>>
  BY <1>1 DEF StoreFull
<1>3. /\ init \in [Extensions -> 0 .. 2] /\ desc \in [Extensions -> BOOLEAN] /\ conv \in [Extensions -> BOOLEAN]
      /\ xmu \in [Extensions -> Threads \cup {None}]
      /\ \A y \in Extensions : (init[y] >= 1 => desc[y]) /\ (init[y] = 2 => conv[y] \/ y \in Incomplete)
  BY InvTypes DEF TypesTyped, TypeStages
<1>4. desc[x] /\ (conv[x] \/ x \in Incomplete)
  <2>1. PICK s \in Seq(Instruction) : s = todo[t] /\ s # <<>> /\ s[1] = I("storeFull", x) /\ Prepared(s)
    <3>1. todo[t] \in Seq(Instruction) /\ todo[t] # <<>> /\ todo[t][1] = I("storeFull", x) /\ Listed
      BY <1>1, <1>2, AtStep
    <3> QED
      BY <3>1 DEF Listed, Lists
  <2>2. 1 \in 1 .. Len(s) /\ s[1].op = "storeFull" /\ s[1].on = x
    BY <2>1 DEF I
  <2>3. \A k \in Wants(s[1].op) : Made(k, x)
    BY <2>1, <2>2 DEF Prepared
  <2>4. Made("descriptor", x) /\ Made("converter", x)
    BY <2>2, <2>3 DEF Wants
  <2> QED
    BY <2>4 DEF Made
<1>5. /\ init' \in [Extensions -> 0 .. 2] /\ desc' \in [Extensions -> BOOLEAN] /\ conv' \in [Extensions -> BOOLEAN]
      /\ xmu' \in [Extensions -> Threads \cup {None}] /\ xmu' = xmu
      /\ \A y \in Extensions : (init'[y] >= 1 => desc'[y]) /\ (init'[y] = 2 => conv'[y] \/ y \in Incomplete)
  BY <1>2, <1>3, <1>4
<1>6. Monotone
  BY <1>2, NothingMade DEF fileVars, messageVars
<1>7. Keeps(I("storeFull", x), <<>>)
  BY NoMaker DEF MakerOps
<1>8. Replaces(t, <<>>) => ExtensionLocks'
  BY <1>1, <1>2, <1>5, <1>6, <1>7, Nothing, StepKeeps DEF ExtensionOps
<1> QED
  BY <1>1, <1>2, <1>5, <1>6, <1>7, <1>8, Nothing, ExtensionOnly DEF ExtensionSteps

(* A list that reads the registry first, and does not read it again. *)
LEMMA BalancedRead ==
  ASSUME NEW c \in Seq(Instruction), Len(c) >= 2, c[1] = RLock, c[2] = RUnlock,
         \A i \in 3 .. Len(c) : c[i].op \notin Reads
  PROVE  c \in Balanced
<1> DEFINE d == [i \in 1 .. Len(c) + 1 |-> IF i = 2 THEN 1 ELSE 0]
<1>1. Delta(c[1]) = 1 /\ Delta(c[2]) = -1 /\ \A i \in 3 .. Len(c) : Delta(c[i]) = 0
  BY DEF Delta, Reads, RLock, RUnlock, I
<1>2. PICK n \in Nat : n = Len(c) /\ n >= 2
  OBVIOUS
<1>3. d \in [1 .. Len(c) + 1 -> Nat] /\ d[1] = 0 /\ d[Len(c) + 1] = 0
  BY <1>2
<1>4. ASSUME NEW i \in 1 .. Len(c) PROVE d[i + 1] = d[i] + Delta(c[i])
  BY <1>1, <1>2
<1> HIDE DEF d
<1>5. d \in Depths(c, 0)
  BY <1>3, <1>4 DEF Depths
<1> QED
  BY <1>3, <1>5 DEF Balanced

(* What lazyInitSlow leaves to do: unless the descriptor is there, it is     *)
(* set, and unless there can be no converter, that is set; then the stage.  *)
Finishes(c, x) ==
  \A i \in 1 .. Len(c) : c[i].op = "storeFull" =>
    /\ c[i].on = x
    /\ desc[x] \/ \E j \in 1 .. Len(c) : j < i /\ c[j] = I("setDesc", x)
    /\ x \in Incomplete \/ \E j \in 1 .. Len(c) : j < i /\ c[j] = I("setConv", x)

(* The three lists that lazyInitSlow may leave are balanced and set what    *)
(* they must.                                                               *)
LEMMA SlowLists ==
  ASSUME NEW x \in Extensions, NEW c \in Seq(Instruction),
         \/ /\ Len(c) = 2 /\ c[1] = I("setDesc", x) /\ c[2] = I("storeFull", x) /\ x \in Incomplete
         \/ /\ Len(c) = 5 /\ c[1] = RLock /\ c[2] = RUnlock /\ c[3] = I("lazyInit", FileOf[x])
            /\ c[4] = I("setConv", x) /\ c[5] = I("storeFull", x) /\ desc[x]
         \/ /\ Len(c) = 4 /\ c[1] = I("lazyInit", FileOf[x]) /\ c[2] = I("setDesc", x)
            /\ c[3] = I("setConv", x) /\ c[4] = I("storeFull", x)
  PROVE  /\ c \in Balanced /\ \A i \in 1 .. Len(c) : c[i].op \in SlowSteps
         /\ Finishes(c, x) /\ \E i \in 1 .. Len(c) : c[i].op = "storeFull"
<1>1. CASE Len(c) = 2
  <2>1. Len(c) = 2 /\ c[1] = I("setDesc", x) /\ c[2] = I("storeFull", x) /\ x \in Incomplete
    BY <1>1
  <2>2. \A i \in 1 .. Len(c) : i = 1 \/ i = 2
    BY <2>1
  <2>3. \A i \in 1 .. Len(c) : c[i].op \in {"setDesc", "storeFull"} /\ (c[i].op = "storeFull" <=> i = 2)
    BY <2>1, <2>2 DEF I
  <2>4. c \in Balanced
    BY <2>1, <2>3, BalancedPlain DEF Reads
  <2>5. Finishes(c, x)
    BY <2>1, <2>3 DEF Finishes, I
  <2> QED
    BY <2>1, <2>3, <2>4, <2>5 DEF SlowSteps
<1>2. CASE Len(c) = 5
  <2>1. /\ Len(c) = 5 /\ c[1] = RLock /\ c[2] = RUnlock /\ c[3] = I("lazyInit", FileOf[x])
        /\ c[4] = I("setConv", x) /\ c[5] = I("storeFull", x) /\ desc[x]
    BY <1>2
  <2>2. \A i \in 1 .. Len(c) : i = 1 \/ i = 2 \/ i = 3 \/ i = 4 \/ i = 5
    BY <2>1
  <2>3. \A i \in 1 .. Len(c) : /\ c[i].op \in {"RLock", "RUnlock", "lazyInit", "setConv", "storeFull"}
                               /\ c[i].op = "storeFull" <=> i = 5
                               /\ c[i].op \in {"RLock", "RUnlock"} => i = 1 \/ i = 2
    BY <2>1, <2>2 DEF I, RLock, RUnlock
  <2>4. c \in Balanced
    BY <2>1, <2>3, BalancedRead DEF Reads
  <2>5. Finishes(c, x)
    BY <2>1, <2>3 DEF Finishes, I
  <2> QED
    BY <2>1, <2>3, <2>4, <2>5 DEF SlowSteps, Reads
<1>3. CASE Len(c) = 4
  <2>1. /\ Len(c) = 4 /\ c[1] = I("lazyInit", FileOf[x]) /\ c[2] = I("setDesc", x)
        /\ c[3] = I("setConv", x) /\ c[4] = I("storeFull", x)
    BY <1>3
  <2>2. \A i \in 1 .. Len(c) : i = 1 \/ i = 2 \/ i = 3 \/ i = 4
    BY <2>1
  <2>3. \A i \in 1 .. Len(c) : /\ c[i].op \in {"lazyInit", "setDesc", "setConv", "storeFull"}
                               /\ c[i].op = "storeFull" <=> i = 4
    BY <2>1, <2>2 DEF I
  <2>4. c \in Balanced
    BY <2>1, <2>3, BalancedPlain DEF Reads
  <2>5. Finishes(c, x)
    BY <2>1, <2>3 DEF Finishes, I
  <2> QED
    BY <2>1, <2>3, <2>4, <2>5 DEF SlowSteps
<1> QED BY <1>1, <1>2, <1>3

(* lazyInitSlow. *)
LEMMA LazyInitSlowStep ==
  ASSUME Inv, NEW t \in Threads, LazyInitSlow(t)
  PROVE  Inv'
<1>1. At(t, "lazyInitSlow")
  BY DEF LazyInitSlow
<1>2. PICK x \in Extensions : Arg(t) = x
  BY <1>1, ExtensionArg DEF ExtensionSteps
<1>3. PICK c : c = IF init[x] = 2 THEN <<>>
                   ELSE IF x \in Incomplete THEN <<I("setDesc", x), I("storeFull", x)>>
                   ELSE (IF desc[x] THEN <<RLock, RUnlock, I("lazyInit", FileOf[x])>>
                         ELSE <<I("lazyInit", FileOf[x]), I("setDesc", x)>>)
                        \o <<I("setConv", x), I("storeFull", x)>>
  OBVIOUS
<1>4. Continue(t, c) /\ UNCHANGED <<fileVars, messageVars, extensionVars, needsVars, globalVars>>
  BY <1>2, <1>3 DEF LazyInitSlow
<1>5. /\ UNCHANGED <<fileVars, messageVars, needsVars, globalVars>>
      /\ init' \in [Extensions -> 0 .. 2] /\ desc' \in [Extensions -> BOOLEAN] /\ conv' \in [Extensions -> BOOLEAN]
      /\ xmu' \in [Extensions -> Threads \cup {None}] /\ xmu' = xmu /\ desc' = desc /\ conv' = conv
      /\ \A y \in Extensions : (init'[y] >= 1 => desc'[y]) /\ (init'[y] = 2 => conv'[y] \/ y \in Incomplete)
  BY <1>4, InvTypes DEF TypesTyped, TypeStages, extensionVars
<1>6. Monotone
  BY <1>4, NothingMade DEF fileVars, messageVars, extensionVars
<1>7. /\ c \in Seq(Instruction) /\ c \in Balanced /\ \A i \in 1 .. Len(c) : c[i].op \in SlowSteps
      /\ Finishes(c, x)
      /\ init[x] = 2 \/ \E i \in 1 .. Len(c) : c[i].op = "storeFull"
  <2>1. CASE init[x] = 2
    <3>1. c = <<>>
      BY <1>3, <2>1
    <3>2. c \in Seq(Instruction) /\ c \in Balanced /\ Len(c) = 0
      BY <3>1, Nothing
    <3> QED
      BY <2>1, <3>1, <3>2 DEF Finishes
  <2>2. CASE init[x] # 2
    <3>1. /\ I("setDesc", x) \in Instruction /\ I("storeFull", x) \in Instruction /\ I("setConv", x) \in Instruction
          /\ I("lazyInit", FileOf[x]) \in Instruction /\ RLock \in Instruction /\ RUnlock \in Instruction
      BY InstanceAssumption DEF Instruction, RLock, RUnlock, I
    <3>2. PICK q : q = <<I("setConv", x), I("storeFull", x)>>
      OBVIOUS
    <3>3. q \in Seq(Instruction) /\ Len(q) = 2 /\ q[1] = I("setConv", x) /\ q[2] = I("storeFull", x)
      BY <3>1, <3>2
    <3>4. CASE x \in Incomplete
      <4>1. c = <<I("setDesc", x), I("storeFull", x)>>
        BY <1>3, <2>2, <3>4
      <4>2. c \in Seq(Instruction) /\ Len(c) = 2 /\ c[1] = I("setDesc", x) /\ c[2] = I("storeFull", x)
        BY <3>1, <4>1
      <4> QED
        BY <3>4, <4>2, SlowLists
    <3>5. CASE x \notin Incomplete /\ desc[x]
      <4>1. PICK p : p = <<RLock, RUnlock, I("lazyInit", FileOf[x])>>
        OBVIOUS
      <4>2. p \in Seq(Instruction) /\ Len(p) = 3 /\ p[1] = RLock /\ p[2] = RUnlock /\ p[3] = I("lazyInit", FileOf[x])
        BY <3>1, <4>1
      <4>3. c = p \o q
        BY <1>3, <2>2, <3>2, <3>5, <4>1
      <4>4. /\ c \in Seq(Instruction) /\ Len(c) = Len(p) + Len(q)
            /\ \A i \in 1 .. Len(p) : c[i] = p[i]
            /\ \A i \in 1 .. Len(q) : c[Len(p) + i] = q[i]
        <5>1. p \in Seq(Instruction) /\ q \in Seq(Instruction)
          BY <3>3, <4>2
        <5> QED BY <5>1, <4>3, Joined
      <4>5. /\ c \in Seq(Instruction) /\ Len(c) = 5 /\ c[1] = RLock /\ c[2] = RUnlock
            /\ c[3] = I("lazyInit", FileOf[x]) /\ c[4] = I("setConv", x) /\ c[5] = I("storeFull", x)
        BY <3>3, <4>2, <4>4
      <4> QED
        BY <3>5, <4>5, SlowLists
    <3>6. CASE x \notin Incomplete /\ ~desc[x]
      <4>1. PICK p : p = <<I("lazyInit", FileOf[x]), I("setDesc", x)>>
        OBVIOUS
      <4>2. p \in Seq(Instruction) /\ Len(p) = 2 /\ p[1] = I("lazyInit", FileOf[x]) /\ p[2] = I("setDesc", x)
        BY <3>1, <4>1
      <4>3. c = p \o q
        BY <1>3, <2>2, <3>2, <3>6, <4>1
      <4>4. /\ c \in Seq(Instruction) /\ Len(c) = Len(p) + Len(q)
            /\ \A i \in 1 .. Len(p) : c[i] = p[i]
            /\ \A i \in 1 .. Len(q) : c[Len(p) + i] = q[i]
        <5>1. p \in Seq(Instruction) /\ q \in Seq(Instruction)
          BY <3>3, <4>2
        <5> QED BY <5>1, <4>3, Joined
      <4>5. /\ c \in Seq(Instruction) /\ Len(c) = 4 /\ c[1] = I("lazyInit", FileOf[x]) /\ c[2] = I("setDesc", x)
            /\ c[3] = I("setConv", x) /\ c[4] = I("storeFull", x)
        BY <3>3, <4>2, <4>4
      <4> QED
        BY <4>5, SlowLists
    <3> QED
      BY <3>4, <3>5, <3>6
  <2> QED BY <2>1, <2>2
<1>8. Expands(I("lazyInitSlow", x), c)
  BY <1>7, SlowStepsExpand
<1>9. Ready(c)
  <2> SUFFICES ASSUME NEW i \in 1 .. Len(c), NEW k \in Wants(c[i].op)
               PROVE  Made(k, c[i].on)' \/ \E j \in 1 .. Len(c) : j < i /\ Makes(c[j], k, c[i].on)
    BY DEF Ready
  <2>1. c[i].op = "storeFull" /\ k \in {"descriptor", "converter"}
    BY <1>7 DEF Wants, SlowSteps, Reads
  <2>2. /\ c[i].on = x
        /\ desc[x] \/ \E j \in 1 .. Len(c) : j < i /\ c[j] = I("setDesc", x)
        /\ x \in Incomplete \/ \E j \in 1 .. Len(c) : j < i /\ c[j] = I("setConv", x)
    BY <1>7, <2>1 DEF Finishes
  <2>3. Makes(I("setDesc", x), "descriptor", x) /\ Makes(I("setConv", x), "converter", x)
    BY DEF Makes, Makers, I
  <2>4. (desc[x] => Made("descriptor", x)') /\ (x \in Incomplete => Made("converter", x)')
    BY <1>5 DEF Made
  <2> QED
    BY <2>1, <2>2, <2>3, <2>4
<1>10. Keeps(I("lazyInitSlow", x), c)
  <2> SUFFICES ASSUME NEW k \in {"descriptor", "converter"}
               PROVE  Made(k, x)' \/ \E i \in 1 .. Len(c) : Makes(c[i], k, x)
    BY DEF Keeps, Makes, Makers, Wants, I
  <2>1. CASE init[x] = 2
    <3>1. desc'[x] /\ (conv'[x] \/ x \in Incomplete)
      BY <2>1, <1>4, <1>5 DEF extensionVars
    <3> QED
      BY <3>1 DEF Made
  <2>2. CASE init[x] # 2
    <3>1. PICK i \in 1 .. Len(c) : c[i].op = "storeFull"
      BY <2>2, <1>7
    <3>2. /\ desc[x] \/ \E j \in 1 .. Len(c) : j < i /\ c[j] = I("setDesc", x)
          /\ x \in Incomplete \/ \E j \in 1 .. Len(c) : j < i /\ c[j] = I("setConv", x)
      BY <1>7, <3>1 DEF Finishes
    <3>3. Makes(I("setDesc", x), "descriptor", x) /\ Makes(I("setConv", x), "converter", x)
      BY DEF Makes, Makers, I
    <3>4. (desc[x] => Made("descriptor", x)') /\ (x \in Incomplete => Made("converter", x)')
      BY <1>5 DEF Made
    <3> QED
      BY <3>2, <3>3, <3>4
  <2> QED BY <2>1, <2>2
<1>11. /\ Without(c, FileOps \cup GlobalOps \cup NeedsOps \cup InitOps \cup {"storeVerdict"})
       /\ Without(c, ExtensionOps)
  BY <1>7 DEF Without, SlowSteps, Reads, FileOps, GlobalOps, NeedsOps, InitOps, ExtensionOps
<1>12. Replaces(t, c) => ExtensionLocks'
  BY <1>1, <1>2, <1>4, <1>5, <1>6, <1>8, <1>9, <1>10, <1>11, StepKeeps DEF ExtensionOps
<1> QED
  BY <1>1, <1>2, <1>4, <1>5, <1>6, <1>7, <1>8, <1>9, <1>10, <1>11, <1>12, ExtensionOnly DEF ExtensionSteps

-----------------------------------------------------------------------------
(* The specification. *)

(* No call starts in the middle. *)
Middle == {"storeOnce", "initOnce", "unlockInit", "unlockNeeds", "unlockExtension", "resolved", "storeVerdict"}

Starting(s) ==
  /\ s \in Seq(Instruction) /\ Ordered(s) /\ Pending(s) /\ Prepared(s) /\ Depths(s, 0) # {}
  /\ \A i \in 1 .. Len(s) : s[i].op \notin Middle
  /\ Has(s, I("Unlock", None)) => Has(s, I("Lock", None))

(* A call of two instructions, the second of which uses what the first makes. *)
LEMMA StartingPair ==
  ASSUME NEW s \in Seq(Instruction), Len(s) = 2, NEW on,
         \/ s[1] = I("lazyInit", on) /\ s[2] = I("useFile", on)
         \/ s[1] = I("init", on) /\ s[2] = I("useMessage", on)
         \/ s[1] = I("lazyInitExtension", on) /\ s[2] = I("useConverter", on)
  PROVE  Starting(s)
<1>1. \A i \in 1 .. Len(s) : i = 1 \/ i = 2
  OBVIOUS
<1>2. /\ s[1].op \in {"lazyInit", "init", "lazyInitExtension"} /\ s[1].on = on
      /\ s[2].op \in {"useFile", "useMessage", "useConverter"} /\ s[2].on = on
  BY DEF I
<1>3. Ordered(s)
  BY <1>1, <1>2 DEF Ordered, Before, FileBefore, TypeBefore, GlobalBefore, First
<1>4. Pending(s)
  BY <1>1, <1>2 DEF Pending, After
<1>5. Prepared(s)
  <2>1. Wants(s[1].op) = {}
    BY <1>2 DEF Wants
  <2>2. \A k \in Wants(s[2].op) : Makes(s[1], k, s[2].on)
    BY DEF Wants, Makes, Makers, I
  <2> QED
    BY <1>1, <2>1, <2>2 DEF Prepared
<1>6. \A i \in 1 .. Len(s) : s[i].op \notin Reads \cup Middle \cup {"Unlock"}
  BY <1>1, <1>2 DEF Reads, Middle
<1>7. Depths(s, 0) # {}
  <2>1. s \in Balanced
    BY <1>6, BalancedPlain
  <2> QED
    BY <2>1 DEF Balanced
<1>8. ~Has(s, I("Unlock", None))
  BY <1>6 DEF Has, AnyIn, I
<1> QED
  BY <1>3, <1>4, <1>5, <1>6, <1>7, <1>8 DEF Starting

(* FindDescriptorByName. *)
LEMMA StartingFind ==
  ASSUME NEW s \in Seq(Instruction), Len(s) = 4, NEW f,
         s[1] = RLock, s[2] = I("lazyInit", f), s[3] = I("useFile", f), s[4] = RUnlock
  PROVE  Starting(s)
<1>1. \A i \in 1 .. Len(s) : i = 1 \/ i = 2 \/ i = 3 \/ i = 4
  OBVIOUS
<1>2. s[1].op = "RLock" /\ s[2].op = "lazyInit" /\ s[2].on = f /\ s[3].op = "useFile" /\ s[3].on = f /\ s[4].op = "RUnlock"
  BY DEF I, RLock, RUnlock
<1>3. \A i \in 1 .. Len(s) : s[i].op \in {"RLock", "lazyInit", "useFile", "RUnlock"}
  BY <1>1, <1>2
<1>4. Ordered(s)
  BY <1>3 DEF Ordered, Before, FileBefore, TypeBefore, GlobalBefore, First
<1>5. Pending(s)
  BY <1>3 DEF Pending, After
<1>6. Prepared(s)
  <2>1. Wants(s[1].op) = {} /\ Wants(s[2].op) = {} /\ Wants(s[4].op) = {} /\ Wants(s[3].op) = {"once"}
    BY <1>2 DEF Wants
  <2>2. Makes(s[2], "once", s[3].on)
    BY <1>2 DEF Makes, Makers
  <2> QED
    BY <1>1, <2>1, <2>2 DEF Prepared
<1>7. Depths(s, 0) # {}
  <2> DEFINE d == [i \in 1 .. Len(s) + 1 |-> IF i \in 2 .. 4 THEN 1 ELSE 0]
  <2>1. Delta(s[1]) = 1 /\ Delta(s[2]) = 0 /\ Delta(s[3]) = 0 /\ Delta(s[4]) = -1
    BY <1>2 DEF Delta
  <2>2. d \in [1 .. Len(s) + 1 -> Nat] /\ d[1] = 0
    OBVIOUS
  <2>3. \A i \in 1 .. Len(s) : d[i + 1] = d[i] + Delta(s[i])
    BY <1>1, <2>1
  <2> HIDE DEF d
  <2> QED
    BY <2>2, <2>3 DEF Depths
<1>8. ~Has(s, I("Unlock", None)) /\ \A i \in 1 .. Len(s) : s[i].op \notin Middle
  BY <1>3 DEF Has, AnyIn, Middle, I
<1> QED
  BY <1>4, <1>5, <1>6, <1>7, <1>8 DEF Starting

(* RegisterFile, and RegisterExtension, which fetches the descriptor first. *)
LEMMA StartingRegister ==
  ASSUME NEW s \in Seq(Instruction),
         \/ Len(s) = 2 /\ s[1] = I("Lock", None) /\ s[2] = I("Unlock", None)
         \/ /\ Len(s) = 3 /\ s[2] = I("Lock", None) /\ s[3] = I("Unlock", None)
            /\ \E x : s[1] = I("TypeDescriptor", x)
  PROVE  Starting(s)
<1>1. \A i \in 1 .. Len(s) : /\ s[i].op \in {"TypeDescriptor", "Lock", "Unlock"}
                             /\ s[i].op = "TypeDescriptor" => i = 1
                             /\ s[i].op = "Unlock" => i = Len(s)
                             /\ s[i].op = "Lock" => i + 1 = Len(s) /\ s[i] = I("Lock", None)
  <2>1. PICK n \in {2, 3} : n = Len(s)
    OBVIOUS
  <2>2. \A i \in 1 .. n : i = 1 \/ i = 2 \/ i = 3
    OBVIOUS
  <2>3. CASE n = 2
    BY <2>1, <2>2, <2>3 DEF I
  <2>4. CASE n = 3
    <3>0. Len(s) = 3
      BY <2>1, <2>4
    <3>1. PICK x : s[1] = I("TypeDescriptor", x) /\ s[2] = I("Lock", None) /\ s[3] = I("Unlock", None)
      BY <3>0
    <3>2. s[1].op = "TypeDescriptor" /\ s[2].op = "Lock" /\ s[3].op = "Unlock"
      BY <3>1 DEF I
    <3> QED
      BY <3>0, <3>1, <3>2, <2>2, <2>1
  <2> QED BY <2>3, <2>4
<1>2. \A i, j \in 1 .. Len(s) : i < j => s[j].op \in {"Lock", "Unlock"} /\ s[i].op # "Unlock"
                                        /\ (s[i].op = "Lock" => s[j].op = "Unlock")
  BY <1>1, SMTT(60)
<1>3. Ordered(s)
  BY <1>1, <1>2, ZenonT(60) DEF Ordered, Before, FileBefore, TypeBefore, GlobalBefore, First
<1>4. Pending(s)
  <2>1. \A i \in 1 .. Len(s) : s[i].op # "Lock" => After(s[i]) = {}
    BY <1>1 DEF After
  <2>2. \A i \in 1 .. Len(s) : s[i].op = "Lock" => After(s[i]) = {I("Unlock", None)}
    BY DEF After
  <2>3. s[Len(s)] = I("Unlock", None) /\ Len(s) \in 1 .. Len(s)
    OBVIOUS
  <2>4. ASSUME NEW i \in 1 .. Len(s), NEW b \in After(s[i]) PROVE \E j \in 1 .. Len(s) : i < j /\ s[j] = b
    <3>1. s[i].op = "Lock" /\ b = I("Unlock", None)
      BY <2>1, <2>2
    <3>2. i < Len(s)
      BY <1>1, <3>1
    <3> QED
      BY <2>3, <3>1, <3>2
  <2> QED
    BY <2>4 DEF Pending
<1>5. Prepared(s)
  BY <1>1 DEF Prepared, Wants
<1>6. Depths(s, 0) # {}
  <2>1. s \in Balanced
    BY <1>1, BalancedPlain DEF Reads
  <2> QED
    BY <2>1 DEF Balanced
<1>7. Has(s, I("Lock", None))
  <2>1. 1 \in 1 .. Len(s) /\ (Len(s) = 3 => 2 \in 1 .. Len(s))
    OBVIOUS
  <2> QED
    BY <2>1 DEF Has, AnyIn
<1>8. \A i \in 1 .. Len(s) : s[i].op \notin Middle
  BY <1>1 DEF Middle
<1> QED
  BY <1>3, <1>4, <1>5, <1>6, <1>7, <1>8 DEF Starting

(* Every call is well formed. *)
LEMMA BodyStarting ==
  ASSUME NEW c \in Call
  PROVE  Starting(Body(c))
<1>1. PICK s : s = Body(c)
  OBVIOUS
<1>2. CASE c.op = "contents"
  <2>1. s = <<I("lazyInit", c.on), I("useFile", c.on)>> /\ c.on \in Files
    BY <1>1, <1>2 DEF Body, Call, I
  <2>2. s \in Seq(Instruction) /\ Len(s) = 2 /\ s[1] = I("lazyInit", c.on) /\ s[2] = I("useFile", c.on)
    BY <2>1 DEF Instruction, I
  <2> QED
    BY <1>1, <2>2, StartingPair
<1>3. CASE c.op = "find"
  <2>1. s = <<RLock, I("lazyInit", c.on), I("useFile", c.on), RUnlock>> /\ c.on \in Files
    BY <1>1, <1>3 DEF Body, Call, I
  <2>2. /\ s \in Seq(Instruction) /\ Len(s) = 4 /\ s[1] = RLock /\ s[2] = I("lazyInit", c.on)
        /\ s[3] = I("useFile", c.on) /\ s[4] = RUnlock
    BY <2>1 DEF Instruction, RLock, RUnlock, I
  <2> QED
    BY <1>1, <2>2, StartingFind
<1>4. CASE c.op = "message"
  <2>1. s = <<I("init", c.on), I("useMessage", c.on)>> /\ c.on \in Messages
    BY <1>1, <1>4 DEF Body, Call, I
  <2>2. s \in Seq(Instruction) /\ Len(s) = 2 /\ s[1] = I("init", c.on) /\ s[2] = I("useMessage", c.on)
    BY <2>1 DEF Instruction, I
  <2> QED
    BY <1>1, <2>2, StartingPair
<1>5. CASE c.op = "extension"
  <2>1. s = <<I("lazyInitExtension", c.on), I("useConverter", c.on)>> /\ c.on \in Extensions
    BY <1>1, <1>5 DEF Body, Call, I
  <2>2. s \in Seq(Instruction) /\ Len(s) = 2 /\ s[1] = I("lazyInitExtension", c.on) /\ s[2] = I("useConverter", c.on)
    BY <2>1 DEF Instruction, I
  <2> QED
    BY <1>1, <2>2, StartingPair
<1>6. CASE c.op = "registerExtension"
  <2>1. s = <<I("TypeDescriptor", c.on), I("Lock", None), I("Unlock", None)>> /\ c.on \in Extensions
    BY <1>1, <1>6 DEF Body, Call, RegisterExtension, I
  <2>2. /\ s \in Seq(Instruction) /\ Len(s) = 3 /\ s[1] = I("TypeDescriptor", c.on)
        /\ s[2] = I("Lock", None) /\ s[3] = I("Unlock", None)
    BY <2>1 DEF Instruction, I
  <2> QED
    BY <1>1, <2>2, StartingRegister
<1>7. CASE c.op = "registerFile"
  <2>1. s = <<I("Lock", None), I("Unlock", None)>>
    BY <1>1, <1>7 DEF Body
  <2>2. s \in Seq(Instruction) /\ Len(s) = 2 /\ s[1] = I("Lock", None) /\ s[2] = I("Unlock", None)
    BY <2>1 DEF Instruction, I
  <2> QED
    BY <1>1, <2>2, StartingRegister
<1> QED
  BY <1>2, <1>3, <1>4, <1>5, <1>6, <1>7 DEF Call, I

(* The invariant holds at first. *)
LEMMA InitInv == Init => Inv
<1> SUFFICES ASSUME Init PROVE Inv
  OBVIOUS
<1>1. PICK p \in Programs : todo = [t \in Threads |-> Body(p[t])]
  BY DEF Init
<1>2. ASSUME NEW t \in Threads PROVE Starting(todo[t])
  <2>1. p[t] \in Call /\ todo[t] = Body(p[t])
    BY <1>1, InstanceAssumption
  <2> QED
    BY <2>1, BodyStarting
<1>3. TypeOK
  <2>1. todo \in [Threads -> Seq(Instruction)]
    BY <1>1, <1>2 DEF Starting
  <2>2. desc \in [Extensions -> BOOLEAN] /\ conv \in [Extensions -> BOOLEAN] /\ once \in [Files -> BOOLEAN]
        /\ initDone \in [Messages -> BOOLEAN]
    BY Zenon DEF Init
  <2>3. init \in [Extensions -> 0 .. 2] /\ readers \in [Threads -> Nat]
    BY DEF Init
  <2> QED
    BY <2>1, <2>2, <2>3 DEF Init, TypeOK
<1>4. Lists /\ Reading
  BY <1>2 DEF Lists, Reading, Starting, Init
<1>5. None \notin Threads
  BY InstanceAssumption
<1>6. ASSUME NEW t \in Threads, NEW b, b.op \in Middle PROVE ~Has(todo[t], b)
  BY <1>2, <1>6 DEF Starting, Has, AnyIn
<1>7. FileLocks
  <2>1. \A t \in Threads, f \in Files : ~Has(todo[t], I("storeOnce", f))
    BY <1>6 DEF Middle, I
  <2> QED
    BY <2>1, <1>5 DEF FileLocks, HoldsFile, Holds, Has, Init
<1>8. InitLocks
  <2>1. \A t \in Threads, m \in Messages : ~Has(todo[t], I("initOnce", m)) /\ ~Has(todo[t], I("unlockInit", m))
    BY <1>6 DEF Middle, I
  <2> QED
    BY <2>1, <1>5 DEF InitLocks, HoldsInit, Holds, Has, AnyIn, Init
<1>9. NeedsLock
  <2>1. \A t \in Threads : ~AnyIn(todo[t], [op : {"unlockNeeds"}, on : Messages])
    BY <1>2 DEF Starting, AnyIn, Middle
  <2> QED
    BY <2>1, <1>5 DEF NeedsLock, HoldsNeeds, Holds, Init
<1>10. ExtensionLocks
  <2>1. \A t \in Threads, x \in Extensions : ~Has(todo[t], I("unlockExtension", x))
    BY <1>6 DEF Middle, I
  <2> QED
    BY <2>1, <1>5 DEF ExtensionLocks, HoldsExtension, Holds, Has, Init
<1>11. GlobalLock
  BY <1>2, <1>5 DEF GlobalLock, HoldsGlobal, Starting, Init
<1>12. Partials /\ Marks
  <2>1. \A t \in Threads, m \in Messages : ~Has(todo[t], I("storeVerdict", m))
    BY <1>6 DEF Middle, I
  <2> QED
    BY <2>1 DEF Partials, Marks, Init
<1>13. Stages
  <2>1. \A x \in Extensions : desc[x] <=> x \notin Legacy
    BY Zenon DEF Init
  <2>2. \A x \in Extensions : init[x] = IF x \in Legacy THEN 0 ELSE 1
    BY DEF Init
  <2>3. \A x \in Extensions : (init[x] >= 1 => desc[x]) /\ (init[x] = 2 => conv[x] \/ x \in Incomplete)
    BY <2>1, <2>2
  <2>4. /\ \A f \in Files : once[f] => L2[f] = "full"
        /\ \A m \in Messages : initDone[m] <=> info[m] = "full"
    BY DEF Init
  <2> QED
    BY <2>3, <2>4 DEF Stages
<1> QED
  BY <1>3, <1>4, <1>7, <1>8, <1>9, <1>10, <1>11, <1>12, <1>13 DEF Inv, Locks

(* Nothing changes the invariant but the steps of the goroutines. *)
LEMMA StutterInv ==
  ASSUME Inv, UNCHANGED vars
  PROVE  Inv'
<1>1. /\ todo' = todo /\ once' = once /\ L2' = L2 /\ fmu' = fmu /\ initDone' = initDone /\ info' = info /\ imu' = imu
      /\ init' = init /\ desc' = desc /\ conv' = conv /\ xmu' = xmu /\ marked' = marked /\ verdicts' = verdicts
      /\ nmu' = nmu /\ readers' = readers /\ writer' = writer /\ writing' = writing
  BY DEF vars, fileVars, messageVars, extensionVars, needsVars, globalVars
<1>2. TypeOK' /\ Stages' /\ Marks' /\ Partials' /\ Reading'
  BY <1>1 DEF Inv, TypeOK, Stages, Marks, Partials, Reading
<1>3. Lists'
  BY <1>1, ZenonT(60) DEF Inv, Lists, Prepared, Made
<1>4. Locks'
  BY <1>1 DEF Inv, Locks, FileLocks, InitLocks, NeedsLock, ExtensionLocks, GlobalLock
<1> QED
  BY <1>2, <1>3, <1>4 DEF Inv

(* Every step keeps the invariant.                                          *)
LEMMA StepInv ==
  ASSUME Inv, [Next]_vars
  PROVE  Inv'
<1>1. CASE UNCHANGED vars
  BY <1>1, StutterInv
<1>2. ASSUME NEW t \in Threads, Step(t) PROVE Inv'
  <2>1. CASE GRLock(t) \/ GRUnlock(t) \/ GLock(t) \/ GUnlock(t)
    BY <2>1, GRLockStep, GLockStep
  <2>2. CASE LazyInit(t) \/ LockFile(t) \/ RawInit(t) \/ Resolved(t) \/ StoreOnce(t)
    BY <2>2, LazyInitStep, LockFileStep, RawInitStep, ResolvedStep, StoreOnceStep
  <2>3. CASE NeedsInitCheck(t) \/ LockNeeds(t) \/ Explore(t) \/ StoreVerdict(t) \/ UnlockNeeds(t)
    BY <2>3, NeedsInitCheckStep, LockNeedsStep, ExploreStep, StoreVerdictStep
  <2>4. CASE InitMessage(t) \/ LockInit(t) \/ InitOnce(t) \/ StoreDone(t) \/ UnlockInit(t)
    BY <2>4, InitMessageStep, LockInitStep, InitOnceStep, StoreDoneStep
  <2>5. CASE LazyInitExtension(t) \/ LockExtension(t) \/ LazyInitSlow(t) \/ UnlockExtension(t)
    BY <2>5, LazyInitExtensionStep, LockExtensionStep, LazyInitSlowStep
  <2>6. CASE SetDesc(t) \/ SetConv(t) \/ StoreFull(t)
    BY <2>6, SetDescStep, StoreFullStep
  <2>7. CASE Use(t)
    BY <2>7, UseStep
  <2> QED
    BY <1>2, <2>1, <2>2, <2>3, <2>4, <2>5, <2>6, <2>7 DEF Step
<1> QED
  BY <1>1, <1>2 DEF Next

(* The invariant holds in every state (desc.go:153-167, message.go:66-96,   *)
(* extension.go:110-144).                                                   *)
THEOREM Invariant == Spec => []Inv
<1>1. Init => Inv
  BY InitInv
<1>2. Inv /\ [Next]_vars => Inv'
  BY StepInv
<1> QED
  BY <1>1, <1>2, PTL DEF Spec

(* The variables have their types, and goroutines run instructions of the   *)
(* model only (filedesc/desc.go, impl/message.go, impl/extension.go).        *)
THEOREM TypeCorrect == Spec => []TypeOK
<1>1. Inv => TypeOK
  BY DEF Inv
<1> QED
  BY <1>1, Invariant, PTL

(* What the first instruction of a list relies on is made. *)
LEMMA FrontMade ==
  ASSUME Inv, NEW t \in Threads, NEW op, At(t, op), NEW k \in Wants(op)
  PROVE  Made(k, Arg(t))
<1>1. PICK s \in Seq(Instruction) : s = todo[t] /\ s # <<>> /\ s[1] = I(op, Arg(t)) /\ Prepared(s)
  <2>1. todo[t] \in Seq(Instruction) /\ todo[t] # <<>> /\ todo[t][1] = I(op, Arg(t)) /\ Listed
    BY AtStep
  <2> QED
    BY <2>1 DEF Listed, Lists
<1>2. PICK on : on = Arg(t)
  OBVIOUS
<1>3. 1 \in 1 .. Len(s) /\ s[1].op = op /\ s[1].on = on
  BY <1>1, <1>2 DEF I
<1>4. \A l \in Wants(op) : Made(l, on)
  <2>1. \A l \in Wants(s[1].op) : Made(l, s[1].on) \/ \E j \in 1 .. Len(s) : j < 1 /\ Makes(s[j], l, s[1].on)
    BY <1>1, <1>3, Zenon DEF Prepared
  <2>2. ~\E j \in 1 .. Len(s) : j < 1
    OBVIOUS
  <2>3. \A l \in Wants(s[1].op) : Made(l, s[1].on)
    BY <2>1, <2>2, Zenon
  <2> QED
    BY <2>3, <1>3
<1> QED
  BY <1>2, <1>3, <1>4

(* Nobody sees anything half made, whatever the types, their dependencies   *)
(* and the calls: the flags are read without a lock (desc.go:153-167,       *)
(* message.go:66-96, extension.go:110-144), and yet what a caller reads is  *)
(* complete.                                                                *)
THEOREM NeverHalfMade == Spec => []NothingHalfMade
<1>1. ASSUME Inv PROVE NothingHalfMade
  <2> SUFFICES ASSUME NEW t \in Threads
               PROVE  /\ At(t, "useFile") => L2[Arg(t)] = "full"
                      /\ At(t, "useMessage") => info[Arg(t)] = "full"
                      /\ At(t, "useDescriptor") => desc[Arg(t)]
                      /\ At(t, "useConverter") => conv[Arg(t)] \/ Arg(t) \in Incomplete
    BY DEF NothingHalfMade
  <2>1. ASSUME NEW op, At(t, op) PROVE I(op, Arg(t)) \in Instruction
    BY <1>1, <2>1, AtStep
  <2>2. ASSUME At(t, "useFile") PROVE L2[Arg(t)] = "full"
    <3>1. Made("once", Arg(t))
      BY <1>1, <2>2, FrontMade DEF Wants
    <3>2. Arg(t) \in Files
      BY <2>1, <2>2 DEF Instruction, I
    <3> QED
      BY <1>1, <3>1, <3>2 DEF Made, Inv, Stages
  <2>3. ASSUME At(t, "useMessage") PROVE info[Arg(t)] = "full"
    <3>1. Made("tables", Arg(t))
      BY <1>1, <2>3, FrontMade DEF Wants
    <3>2. Arg(t) \in Messages
      BY <2>1, <2>3 DEF Instruction, I
    <3> QED
      BY <1>1, <3>1, <3>2 DEF Made, Inv, Stages
  <2>4. ASSUME At(t, "useDescriptor") PROVE desc[Arg(t)]
    <3>1. Made("descriptor", Arg(t))
      BY <1>1, <2>4, FrontMade DEF Wants
    <3> QED
      BY <3>1 DEF Made
  <2>5. ASSUME At(t, "useConverter") PROVE conv[Arg(t)] \/ Arg(t) \in Incomplete
    <3>1. Made("converter", Arg(t))
      BY <1>1, <2>5, FrontMade DEF Wants
    <3> QED
      BY <3>1 DEF Made
  <2> QED BY <2>2, <2>3, <2>4, <2>5
<1> QED
  BY <1>1, Invariant, PTL

(* No goroutine asks for a mutex it holds, whatever the files import and    *)
(* take their defaults from, as long as the imports have no cycle           *)
(* (filedesc/desc.go:677-683).                                              *)
THEOREM NeverReentered == Spec => []NoReentry
<1>1. ASSUME Inv PROVE NoReentry
  <2> SUFFICES ASSUME NEW t \in Threads
               PROVE  /\ At(t, "lockFile") => fmu[Arg(t)] # t
                      /\ At(t, "lockInit") => imu[Arg(t)] # t
                      /\ At(t, "lockExtension") => xmu[Arg(t)] # t
                      /\ At(t, "lockNeeds") => nmu # t
                      /\ At(t, "RLock") => writer # t
    BY DEF NoReentry
  <2>1. FileLocks /\ InitLocks /\ NeedsLock /\ ExtensionLocks /\ GlobalLock
    BY <1>1 DEF Inv, Locks
  <2>2. ASSUME NEW op, At(t, op)
        PROVE  todo[t] # <<>> /\ todo[t][1] = I(op, Arg(t)) /\ I(op, Arg(t)) \in Instruction
    BY <1>1, <2>2, AtStep
  <2>3. ASSUME At(t, "lockFile") PROVE fmu[Arg(t)] # t
    <3>1. PICK f \in Files : Arg(t) = f /\ todo[t] # <<>> /\ todo[t][1] = I("lockFile", f)
      BY <2>2, <2>3 DEF Instruction, I
    <3>2. ~HoldsFile(todo[t], f)
      BY <3>1 DEF HoldsFile, Holds
    <3> QED
      BY <3>1, <3>2, <2>1 DEF FileLocks
  <2>4. ASSUME At(t, "lockInit") PROVE imu[Arg(t)] # t
    <3>1. PICK m \in Messages : Arg(t) = m /\ todo[t] # <<>> /\ todo[t][1] = I("lockInit", m)
      BY <2>2, <2>4 DEF Instruction, I
    <3>2. ~HoldsInit(todo[t], m)
      BY <3>1 DEF HoldsInit, Holds
    <3> QED
      BY <3>1, <3>2, <2>1 DEF InitLocks
  <2>5. ASSUME At(t, "lockExtension") PROVE xmu[Arg(t)] # t
    <3>1. PICK x \in Extensions : Arg(t) = x /\ todo[t] # <<>> /\ todo[t][1] = I("lockExtension", x)
      BY <2>2, <2>5 DEF Instruction, I
    <3>2. ~HoldsExtension(todo[t], x)
      BY <3>1 DEF HoldsExtension, Holds
    <3> QED
      BY <3>1, <3>2, <2>1 DEF ExtensionLocks
  <2>6. ASSUME At(t, "lockNeeds") PROVE nmu # t
    <3>0. todo[t] # <<>> /\ todo[t][1] = I("lockNeeds", Arg(t)) /\ I("lockNeeds", Arg(t)) \in Instruction
      BY <2>2, <2>6
    <3>1. todo[t] # <<>> /\ todo[t][1] \in [op : {"lockNeeds"}, on : Messages]
      BY <3>0 DEF Instruction, I
    <3>2. ~HoldsNeeds(todo[t])
      BY <3>1 DEF HoldsNeeds, Holds
    <3> QED
      BY <3>2, <2>1 DEF NeedsLock
  <2>7. ASSUME At(t, "RLock") PROVE writer # t
    <3>0. todo[t][1] = I("RLock", Arg(t))
      BY <2>2, <2>7
    <3>1. todo[t][1].op = "RLock"
      BY <3>0 DEF I
    <3>2. ~Starts(todo[t], I("Locked", None)) /\ ~Starts(todo[t], I("Unlock", None))
      BY <3>1 DEF Starts, I
    <3> QED
      BY <3>2, <2>1 DEF GlobalLock
  <2> QED BY <2>3, <2>4, <2>5, <2>6, <2>7
<1> QED
  BY <1>1, Invariant, PTL

(* What is complete is never made again: a pointer into it that a caller    *)
(* holds stays valid (desc.go:162, message.go:78).                          *)
THEOREM NeverRemade == Spec => MadeOnce
<1> DEFINE Kept == /\ \A f \in Files : L2[f] = "full" => L2'[f] = "full"
                   /\ \A m \in Messages : info[m] = "full" => info'[m] = "full"
<1>1. ASSUME Inv, NEW t \in Threads, Step(t) PROVE Kept
  <2>1. L2 \in [Files -> {"nil", "partial", "full"}] /\ info \in [Messages -> {"nil", "partial", "full"}]
    BY <1>1 DEF Inv, TypeOK
  <2>2. CASE UNCHANGED <<L2, info>>
    BY <2>2
  <2>3. CASE RawInit(t)
    BY <2>1, <2>3 DEF RawInit, NeedsRawInit, messageVars
  <2>4. CASE Resolved(t)
    BY <2>1, <2>4 DEF Resolved, messageVars
  <2>5. CASE InitOnce(t)
    <3>1. PICK m \in Messages : Arg(t) = m
      BY <1>1, <2>5, MessageArg DEF InitOnce, MessageSteps
    <3>2. initDone[m] <=> info[m] = "full"
      BY <1>1 DEF Inv, Stages
    <3>3. L2' = L2 /\ (info' = info \/ (~initDone[m] /\ info' = [info EXCEPT ![m] = "partial"]))
      BY <2>5, <3>1 DEF InitOnce, DoneUnderLock, fileVars
    <3> QED
      BY <2>1, <3>2, <3>3
  <2>6. CASE StoreDone(t)
    BY <2>1, <2>6 DEF StoreDone, fileVars
  <2>7. CASE GRLock(t) \/ GRUnlock(t) \/ GLock(t) \/ GUnlock(t)
    BY <2>2, <2>7 DEF GRLock, GRUnlock, GLock, GUnlock, fileVars, messageVars
  <2>8. CASE LazyInit(t) \/ LockFile(t) \/ StoreOnce(t)
    BY <2>2, <2>8 DEF LazyInit, LockFile, StoreOnce, fileVars, messageVars
  <2>9. CASE NeedsInitCheck(t) \/ LockNeeds(t) \/ Explore(t) \/ StoreVerdict(t) \/ UnlockNeeds(t)
    BY <2>2, <2>9 DEF NeedsInitCheck, LockNeeds, Explore, StoreVerdict, UnlockNeeds, fileVars, messageVars
  <2>10. CASE InitMessage(t) \/ LockInit(t) \/ UnlockInit(t)
    BY <2>2, <2>10 DEF InitMessage, LockInit, UnlockInit, fileVars, messageVars
  <2>11. CASE LazyInitExtension(t) \/ LockExtension(t) \/ LazyInitSlow(t) \/ UnlockExtension(t)
    BY <2>2, <2>11 DEF LazyInitExtension, LockExtension, LazyInitSlow, UnlockExtension, fileVars, messageVars
  <2>12. CASE SetDesc(t) \/ SetConv(t) \/ StoreFull(t) \/ Use(t)
    BY <2>2, <2>12 DEF SetDesc, SetConv, StoreFull, Use, fileVars, messageVars
  <2> QED
    BY <1>1, <2>3, <2>4, <2>5, <2>6, <2>7, <2>8, <2>9, <2>10, <2>11, <2>12 DEF Step
<1>2. Inv /\ [Next]_vars => [Kept]_vars
  BY <1>1 DEF Next
<1> QED
  BY <1>2, Invariant, PTL DEF Spec, MadeOnce
=============================================================================
