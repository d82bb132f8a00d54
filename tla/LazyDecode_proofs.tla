-------------------------- MODULE LazyDecode_proofs --------------------------
(***************************************************************************)
(* Proofs about LazyDecode, for any fields, record classes and modes, any  *)
(* number of records and any number of calls.                              *)
(*                                                                         *)
(* The first half is about the data: what Selected and FlattenSeq compute, *)
(* that a sorted index exists, and that the lookup in an index of          *)
(* stretches, sorted or built from records already in order, returns the   *)
(* records of one field in the order of the buffer (SortedFinds,           *)
(* InOrderFinds).  The second half is the inductive invariant Inv: what    *)
(* holds in the middle of a lazy call, in the middle of an eager one, and  *)
(* between calls.                                                          *)
(***************************************************************************)
EXTENDS LazyDecode, SequenceTheorems, WellFoundedInduction, TLAPS

-----------------------------------------------------------------------------
(* Induction over the naturals, and recursion as a consequence. *)

(* Every nonempty set of naturals has a smallest element. *)
LEMMA SmallestOf ==
  ASSUME NEW T, T \subseteq Nat, T # {}
  PROVE  \E x \in T : \A y \in T : x <= y
<1>1. PICK x \in T : \A y \in T : <<y, x>> \notin OpToRel(<, Nat)
  BY WFMin, NatLessThanWellFounded, Zenon
<1>2. \A y \in T : ~(y < x)
  BY <1>1 DEF OpToRel
<1> QED
  BY <1>2

(* A set with 0 and with the successors of its naturals has all of them. *)
LEMMA InductiveSet ==
  ASSUME NEW T, 0 \in T, \A m \in Nat : m \in T => m + 1 \in T
  PROVE  Nat \subseteq T
<1>1. SUFFICES ASSUME Nat \ T # {} PROVE FALSE
  OBVIOUS
<1>2. PICK x \in Nat \ T : \A y \in Nat \ T : x <= y
  BY <1>1, SmallestOf
<1>3. x # 0 /\ x - 1 \in Nat
  BY <1>2
<1>4. x - 1 \in T
  BY <1>2, <1>3
<1> QED
  BY <1>2, <1>3, <1>4

Upto(N, S, base, step) ==
  {f \in [0 .. N -> S] : f[0] = base /\ \A i \in 1 .. N : f[i] = step[i][f[i - 1]]}

(* A function defined by recursion up to N exists.                          *)
LEMMA Recursion ==
  ASSUME NEW N \in Nat, NEW S, NEW base \in S, NEW step \in [1 .. N -> [S -> S]]
  PROVE  Upto(N, S, base, step) # {}
<1> DEFINE T == {k \in Nat : k <= N => Upto(k, S, base, step) # {}}
<1>1. 0 \in T
  <2>1. [i \in 0 .. 0 |-> base] \in Upto(0, S, base, step)
    BY DEF Upto
  <2> QED
    BY <2>1
<1>2. ASSUME NEW m \in Nat, m \in T PROVE m + 1 \in T
  <2> SUFFICES ASSUME m + 1 <= N PROVE Upto(m + 1, S, base, step) # {}
    OBVIOUS
  <2>1. PICK f : f \in Upto(m, S, base, step)
    BY <1>2
  <2> DEFINE g == [i \in 0 .. m + 1 |-> IF i <= m THEN f[i] ELSE step[i][f[m]]]
  <2>2. f[m] \in S /\ step[m + 1][f[m]] \in S
    BY <2>1 DEF Upto
  <2>3. g \in [0 .. m + 1 -> S]
    BY <2>1, <2>2 DEF Upto
  <2>4. g[0] = base
    BY <2>1 DEF Upto
  <2>5. \A i \in 1 .. m + 1 : g[i] = step[i][g[i - 1]]
    BY <2>1 DEF Upto
  <2> QED
    BY <2>3, <2>4, <2>5 DEF Upto
<1>3. N \in T
  <2> HIDE DEF T
  <2> QED BY <1>1, <1>2, InductiveSet
<1> QED
  BY <1>3

(* Induction over sequences of records. *)
LEMMA RecordsInduction ==
  ASSUME NEW P, <<>> \in P,
         \A s \in Seq(Record), r \in Record : s \in P => Append(s, r) \in P
  PROVE  Seq(Record) \subseteq P
<1> DEFINE T == {n \in Nat : \A s \in Seq(Record) : Len(s) = n => s \in P}
<1>1. 0 \in T
  <2>1. \A s \in Seq(Record) : Len(s) = 0 => s = <<>>
    OBVIOUS
  <2> QED BY <2>1
<1>2. ASSUME NEW n \in Nat, n \in T PROVE n + 1 \in T
  <2> SUFFICES ASSUME NEW s \in Seq(Record), Len(s) = n + 1 PROVE s \in P
    OBVIOUS
  <2> DEFINE t == SubSeq(s, 1, n)
             r == s[n + 1]
  <2>1. t \in Seq(Record) /\ Len(t) = n /\ r \in Record
    OBVIOUS
  <2>2. s = Append(t, r)
    OBVIOUS
  <2>3. t \in P
    BY <1>2, <2>1
  <2> HIDE DEF t, r
  <2>4. Append(t, r) \in P
    BY <2>1, <2>3
  <2> QED
    BY <2>2, <2>4
<1>3. Nat \subseteq T
  <2> HIDE DEF T
  <2> QED BY <1>1, <1>2, InductiveSet
<1> QED
  BY <1>3

-----------------------------------------------------------------------------
(* Selecting from a sequence. *)

(* The partial results of Selected. *)
Partial(g, s, T) ==
  /\ g \in [0 .. Len(s) -> Seq(Record)] /\ g[0] = <<>>
  /\ \A i \in 1 .. Len(s) : g[i] = IF s[i] \in T THEN Append(g[i - 1], s[i]) ELSE g[i - 1]

(* Selected is what its recursive definition says. *)
LEMMA SelectedDef ==
  ASSUME NEW s \in Seq(Record), NEW T
  PROVE  \E g : Partial(g, s, T) /\ Selected(s, T) = g[Len(s)]
<1> DEFINE n == Len(s)
           E(f) == f = [i \in 0 .. n |->
                          IF i = 0 THEN <<>>
                          ELSE IF s[i] \in T THEN Append(f[i - 1], s[i]) ELSE f[i - 1]]
           g == CHOOSE f : E(f)
<1>0. n \in Nat /\ \A i \in 1 .. n : s[i] \in Record
  OBVIOUS
<1>1. PICK f : f \in [0 .. n -> Seq(Record)] /\ E(f)
  <2> DEFINE step == [i \in 1 .. n |-> [x \in Seq(Record) |->
                         IF s[i] \in T THEN Append(x, s[i]) ELSE x]]
  <2>1. step \in [1 .. n -> [Seq(Record) -> Seq(Record)]]
    BY <1>0
  <2>2. \A i \in 1 .. n, x \in Seq(Record) :
            step[i][x] = IF s[i] \in T THEN Append(x, s[i]) ELSE x
    OBVIOUS
  <2>3. <<>> \in Seq(Record)
    OBVIOUS
  <2> HIDE DEF step
  <2>4. Upto(n, Seq(Record), <<>>, step) # {}
    BY <1>0, <2>1, <2>3, Recursion
  <2>5. PICK f : f \in Upto(n, Seq(Record), <<>>, step)
    BY <2>4
  <2>6. f \in [0 .. n -> Seq(Record)] /\ f[0] = <<>> /\ \A i \in 1 .. n : f[i] = step[i][f[i - 1]]
    BY <2>5 DEF Upto
  <2>7. ASSUME NEW i \in 1 .. n
        PROVE  f[i] = IF s[i] \in T THEN Append(f[i - 1], s[i]) ELSE f[i - 1]
    <3>1. i - 1 \in 0 .. n
      BY <1>0
    <3>2. f[i - 1] \in Seq(Record)
      BY <3>1, <2>6
    <3> QED
      BY <3>2, <2>2, <2>6
  <2>8. E(f)
    <3>1. ASSUME NEW i \in 0 .. n
          PROVE  f[i] = IF i = 0 THEN <<>>
                        ELSE IF s[i] \in T THEN Append(f[i - 1], s[i]) ELSE f[i - 1]
      <4>1. i # 0 => i \in 1 .. n
        BY <1>0
      <4> QED
        BY <4>1, <2>6, <2>7
    <3> QED
      BY <3>1, <2>6
  <2> QED
    BY <2>6, <2>8
<1>2. E(g)
  BY <1>1
<1>3. g = f
  <2>0. f \in [0 .. n -> Seq(Record)]
    BY <1>1
  <2>1. DOMAIN g = 0 .. n /\ DOMAIN f = 0 .. n
    BY <1>2, <1>1
  <2>2. ASSUME NEW i \in 0 .. n
        PROVE  g[i] = IF i = 0 THEN <<>> ELSE IF s[i] \in T THEN Append(g[i - 1], s[i]) ELSE g[i - 1]
    BY <1>2
  <2>3. ASSUME NEW i \in 0 .. n
        PROVE  f[i] = IF i = 0 THEN <<>> ELSE IF s[i] \in T THEN Append(f[i - 1], s[i]) ELSE f[i - 1]
    BY <1>1
  <2> HIDE DEF g
  <2> DEFINE U == {i \in Nat : i <= n => g[i] = f[i]}
  <2>4. 0 \in U
    BY <2>2, <2>3, <1>0
  <2>5. ASSUME NEW i \in Nat, i \in U PROVE i + 1 \in U
    <3> SUFFICES ASSUME i + 1 <= n PROVE g[i + 1] = f[i + 1]
      OBVIOUS
    <3>1. i + 1 \in 0 .. n /\ i + 1 # 0 /\ (i + 1) - 1 = i /\ g[i] = f[i]
      BY <1>0, <2>5
    <3> QED
      BY <2>2, <2>3, <3>1
  <2>6. Nat \subseteq U
    <3> HIDE DEF U
    <3> QED BY <2>4, <2>5, InductiveSet
  <2>7. \A i \in 0 .. n : g[i] = f[i]
    BY <2>6, <1>0
  <2>8. g = [i \in 0 .. n |-> g[i]]
    BY <1>2 DEF g
  <2> QED
    BY <2>1, <2>7, <2>8, <2>0
<1>4. Selected(s, T) = g[n]
  BY DEF Selected
<1>5. Partial(f, s, T)
  <2>1. ASSUME NEW i \in 0 .. n
        PROVE  f[i] = IF i = 0 THEN <<>> ELSE IF s[i] \in T THEN Append(f[i - 1], s[i]) ELSE f[i - 1]
    BY <1>1
  <2>2. 0 \in 0 .. n /\ \A i \in 1 .. n : i \in 0 .. n /\ i # 0
    BY <1>0
  <2>3. f[0] = <<>> /\ \A i \in 1 .. n : f[i] = IF s[i] \in T THEN Append(f[i - 1], s[i]) ELSE f[i - 1]
    BY <2>1, <2>2
  <2> QED
    BY <1>1, <2>3 DEF Partial
<1> QED
  BY <1>3, <1>4, <1>5

(* The last element is selected or not. *)
LEMMA SelectedAppend ==
  ASSUME NEW s \in Seq(Record), NEW r \in Record, NEW T
  PROVE  Selected(Append(s, r), T)
            = IF r \in T THEN Append(Selected(s, T), r) ELSE Selected(s, T)
<1> DEFINE n == Len(s)
           t == Append(s, r)
<1>0. n \in Nat /\ t \in Seq(Record) /\ Len(t) = n + 1 /\ t[n + 1] = r /\ \A i \in 1 .. n : t[i] = s[i]
  OBVIOUS
<1>1. PICK g : Partial(g, s, T) /\ Selected(s, T) = g[n]
  BY SelectedDef
<1> HIDE DEF t
<1>2. PICK h : Partial(h, t, T) /\ Selected(t, T) = h[n + 1]
  BY SelectedDef, <1>0
<1> DEFINE U == {i \in Nat : i <= n => h[i] = g[i]}
<1>3. 0 \in U
  BY <1>1, <1>2 DEF Partial
<1>4. ASSUME NEW i \in Nat, i \in U PROVE i + 1 \in U
  <2> SUFFICES ASSUME i + 1 <= n PROVE h[i + 1] = g[i + 1]
    OBVIOUS
  <2>1. i + 1 \in 1 .. n /\ i + 1 \in 1 .. n + 1 /\ (i + 1) - 1 = i /\ h[i] = g[i]
    BY <1>0, <1>4
  <2>2. h[i + 1] = IF t[i + 1] \in T THEN Append(h[(i + 1) - 1], t[i + 1]) ELSE h[(i + 1) - 1]
    BY <1>0, <1>2, <2>1 DEF Partial
  <2>3. g[i + 1] = IF s[i + 1] \in T THEN Append(g[(i + 1) - 1], s[i + 1]) ELSE g[(i + 1) - 1]
    BY <1>1, <2>1 DEF Partial
  <2>4. t[i + 1] = s[i + 1]
    BY <1>0, <2>1
  <2> QED
    BY <2>1, <2>2, <2>3, <2>4
<1>5. h[n] = g[n]
  <2>1. Nat \subseteq U
    <3> HIDE DEF U
    <3> QED BY <1>3, <1>4, InductiveSet
  <2> QED BY <2>1, <1>0
<1>6. n + 1 \in 1 .. Len(t) /\ (n + 1) - 1 = n
  BY <1>0
<1>7. h[n + 1] = IF t[n + 1] \in T THEN Append(h[(n + 1) - 1], t[n + 1]) ELSE h[(n + 1) - 1]
  BY <1>2, <1>6 DEF Partial
<1>8. Selected(t, T) = IF r \in T THEN Append(Selected(s, T), r) ELSE Selected(s, T)
  BY <1>0, <1>1, <1>2, <1>5, <1>6, <1>7
<1> QED
  BY <1>8 DEF t

(* Nothing is selected from nothing. *)
LEMMA SelectedEmpty ==
  ASSUME NEW T
  PROVE  Selected(<<>>, T) = <<>>
<1> DEFINE e == <<>>
<1>1. e \in Seq(Record) /\ Len(e) = 0
  OBVIOUS
<1>2. PICK g : Partial(g, e, T) /\ Selected(e, T) = g[Len(e)]
  BY <1>1, SelectedDef
<1> QED
  BY <1>1, <1>2 DEF Partial

(* What is selected is a sequence of records of the set. *)
LEMMA SelectedType ==
  ASSUME NEW T
  PROVE  \A s \in Seq(Record) :
            Selected(s, T) \in Seq(Record) /\ \A i \in 1 .. Len(Selected(s, T)) : Selected(s, T)[i] \in T
<1> DEFINE P == {s \in Seq(Record) : Selected(s, T) \in Seq(Record)
                    /\ \A i \in 1 .. Len(Selected(s, T)) : Selected(s, T)[i] \in T}
<1>1. <<>> \in P
  <2>1. Selected(<<>>, T) = <<>> /\ <<>> \in Seq(Record)
    BY SelectedEmpty
  <2>2. \A i \in 1 .. Len(<<>>) : <<>>[i] \in T
    OBVIOUS
  <2> QED
    BY <2>1, <2>2, Zenon
<1>2. ASSUME NEW s \in Seq(Record), NEW r \in Record, s \in P PROVE Append(s, r) \in P
  <2>0. Append(s, r) \in Seq(Record)
    OBVIOUS
  <2>1. CASE r \in T
    <3>1. PICK z \in Seq(Record) : z = Selected(s, T) /\ \A i \in 1 .. Len(z) : z[i] \in T
      BY <1>2
    <3>2. Selected(Append(s, r), T) = Append(z, r)
      BY <2>1, <3>1, SelectedAppend
    <3>3. Append(z, r) \in Seq(Record) /\ \A i \in 1 .. Len(Append(z, r)) : Append(z, r)[i] \in T
      BY <3>1, <2>1
    <3> QED
      BY <2>0, <3>2, <3>3
  <2>2. CASE r \notin T
    <3>1. Selected(Append(s, r), T) = Selected(s, T)
      BY <2>2, SelectedAppend
    <3> QED
      BY <1>2, <2>0, <3>1
  <2> QED BY <2>1, <2>2
<1>3. Seq(Record) \subseteq P
  <2> HIDE DEF P
  <2> QED BY <1>1, <1>2, RecordsInduction
<1> QED
  BY <1>3

(* Sets that agree on the sequence select the same. *)
LEMMA SelectedSame ==
  ASSUME NEW T, NEW U
  PROVE  \A s \in Seq(Record) :
            (\A i \in 1 .. Len(s) : (s[i] \in T) <=> (s[i] \in U)) => Selected(s, T) = Selected(s, U)
<1> DEFINE P == {s \in Seq(Record) :
                   (\A i \in 1 .. Len(s) : (s[i] \in T) <=> (s[i] \in U))
                       => Selected(s, T) = Selected(s, U)}
<1>1. <<>> \in P
  BY SelectedEmpty
<1>2. ASSUME NEW s \in Seq(Record), NEW r \in Record, s \in P PROVE Append(s, r) \in P
  <2> DEFINE t == Append(s, r)
  <2>0. t \in Seq(Record)
    OBVIOUS
  <2> SUFFICES ASSUME \A i \in 1 .. Len(t) : (t[i] \in T) <=> (t[i] \in U)
               PROVE  Selected(t, T) = Selected(t, U)
    BY <2>0
  <2>1. t \in Seq(Record) /\ Len(t) = Len(s) + 1 /\ t[Len(s) + 1] = r /\ \A i \in 1 .. Len(s) : t[i] = s[i]
    OBVIOUS
  <2>2. \A i \in 1 .. Len(s) : (s[i] \in T) <=> (s[i] \in U)
    BY <2>1
  <2>3. Selected(s, T) = Selected(s, U)
    BY <1>2, <2>2
  <2>4. (r \in T) <=> (r \in U)
    <3>1. Len(s) + 1 \in 1 .. Len(t)
      BY <2>1
    <3> QED BY <3>1, <2>1
  <2>5. Selected(t, T) = IF r \in T THEN Append(Selected(s, T), r) ELSE Selected(s, T)
    BY SelectedAppend
  <2>6. Selected(t, U) = IF r \in U THEN Append(Selected(s, U), r) ELSE Selected(s, U)
    BY SelectedAppend
  <2> QED
    BY <2>3, <2>4, <2>5, <2>6, Zenon
<1>3. Seq(Record) \subseteq P
  <2> HIDE DEF P
  <2> QED BY <1>1, <1>2, RecordsInduction
<1> QED
  BY <1>3

(* Nothing is selected exactly when no element is in the set. *)
LEMMA SelectedNone ==
  ASSUME NEW T
  PROVE  \A s \in Seq(Record) :
            (Selected(s, T) = <<>>) <=> (\A i \in 1 .. Len(s) : s[i] \notin T)
<1> DEFINE P == {s \in Seq(Record) :
                   (Selected(s, T) = <<>>) <=> (\A i \in 1 .. Len(s) : s[i] \notin T)}
<1>1. <<>> \in P
  BY SelectedEmpty
<1>2. ASSUME NEW s \in Seq(Record), NEW r \in Record, s \in P PROVE Append(s, r) \in P
  <2> DEFINE t == Append(s, r)
  <2>1. t \in Seq(Record) /\ Len(t) = Len(s) + 1 /\ t[Len(s) + 1] = r /\ \A i \in 1 .. Len(s) : t[i] = s[i]
    OBVIOUS
  <2>2. Selected(s, T) \in Seq(Record)
    BY SelectedType
  <2>3. Selected(t, T) = IF r \in T THEN Append(Selected(s, T), r) ELSE Selected(s, T)
    BY SelectedAppend
  <2>4. Append(Selected(s, T), r) # <<>>
    BY <2>2
  <2>5. (\A i \in 1 .. Len(t) : t[i] \notin T)
            <=> (r \notin T /\ \A i \in 1 .. Len(s) : s[i] \notin T)
    BY <2>1
  <2>6. (Selected(t, T) = <<>>) <=> (\A i \in 1 .. Len(t) : t[i] \notin T)
    BY <1>2, <2>3, <2>4, <2>5
  <2> QED
    BY <2>1, <2>6
<1>3. Seq(Record) \subseteq P
  <2> HIDE DEF P
  <2> QED BY <1>1, <1>2, RecordsInduction
<1> QED
  BY <1>3

(* Everything is selected when all elements are in the set. *)
LEMMA SelectedAll ==
  ASSUME NEW T
  PROVE  \A s \in Seq(Record) : (\A i \in 1 .. Len(s) : s[i] \in T) => Selected(s, T) = s
<1> DEFINE P == {s \in Seq(Record) : (\A i \in 1 .. Len(s) : s[i] \in T) => Selected(s, T) = s}
<1>1. <<>> \in P
  BY SelectedEmpty
<1>2. ASSUME NEW s \in Seq(Record), NEW r \in Record, s \in P PROVE Append(s, r) \in P
  <2> DEFINE t == Append(s, r)
  <2>0. t \in Seq(Record)
    OBVIOUS
  <2> SUFFICES ASSUME \A i \in 1 .. Len(t) : t[i] \in T PROVE Selected(t, T) = t
    BY <2>0
  <2>1. t \in Seq(Record) /\ Len(t) = Len(s) + 1 /\ t[Len(s) + 1] = r /\ \A i \in 1 .. Len(s) : t[i] = s[i]
    OBVIOUS
  <2>2. (\A i \in 1 .. Len(s) : s[i] \in T) /\ r \in T
    BY <2>1
  <2>3. Selected(t, T) = IF r \in T THEN Append(Selected(s, T), r) ELSE Selected(s, T)
    BY SelectedAppend
  <2> QED
    BY <1>2, <2>2, <2>3
<1>3. Seq(Record) \subseteq P
  <2> HIDE DEF P
  <2> QED BY <1>1, <1>2, RecordsInduction
<1> QED
  BY <1>3

(* Selecting from parts and joining is selecting from the whole. *)
LEMMA SelectedConcat ==
  ASSUME NEW T, NEW s \in Seq(Record)
  PROVE  \A t \in Seq(Record) : Selected(s \o t, T) = Selected(s, T) \o Selected(t, T)
<1> DEFINE P == {t \in Seq(Record) : Selected(s \o t, T) = Selected(s, T) \o Selected(t, T)}
<1>0. Selected(s, T) \in Seq(Record)
  BY SelectedType
<1>1. <<>> \in P
  <2>1. s \o <<>> = s /\ Selected(s, T) \o <<>> = Selected(s, T) /\ <<>> \in Seq(Record)
    BY <1>0
  <2> QED
    BY <2>1, SelectedEmpty
<1>2. ASSUME NEW t \in Seq(Record), NEW r \in Record, t \in P PROVE Append(t, r) \in P
  <2>1. Append(t, r) \in Seq(Record) /\ s \o t \in Seq(Record) /\ s \o Append(t, r) = Append(s \o t, r)
    OBVIOUS
  <2>2. Selected(t, T) \in Seq(Record)
    BY SelectedType
  <2>3. Selected(Append(t, r), T) = IF r \in T THEN Append(Selected(t, T), r) ELSE Selected(t, T)
    BY SelectedAppend
  <2>4. Selected(Append(s \o t, r), T)
            = IF r \in T THEN Append(Selected(s \o t, T), r) ELSE Selected(s \o t, T)
    BY <2>1, SelectedAppend
  <2>5. Selected(s \o t, T) = Selected(s, T) \o Selected(t, T)
    BY <1>2
  <2>6. Append(Selected(s, T) \o Selected(t, T), r) = Selected(s, T) \o Append(Selected(t, T), r)
    <3>1. ASSUME NEW x \in Seq(Record), NEW y \in Seq(Record)
          PROVE  x \o Append(y, r) = Append(x \o y, r)
      OBVIOUS
    <3> QED
      BY <3>1, <1>0, <2>2
  <2>7. Selected(s \o Append(t, r), T) = Selected(s, T) \o Selected(Append(t, r), T)
    <3>1. CASE r \in T
      BY <3>1, <2>1, <2>3, <2>4, <2>5, <2>6, Zenon
    <3>2. CASE r \notin T
      BY <3>2, <2>1, <2>3, <2>4, <2>5, <2>6, Zenon
    <3> QED BY <3>1, <3>2
  <2> QED
    BY <2>1, <2>7
<1>3. Seq(Record) \subseteq P
  <2> HIDE DEF P
  <2> QED BY <1>1, <1>2, RecordsInduction
<1> QED
  BY <1>3

(* Selecting twice is selecting with the smaller set. *)
LEMMA SelectedTwice ==
  ASSUME NEW T, NEW U, T \subseteq U
  PROVE  \A s \in Seq(Record) : Selected(Selected(s, U), T) = Selected(s, T)
<1> DEFINE P == {s \in Seq(Record) : Selected(Selected(s, U), T) = Selected(s, T)}
<1>1. <<>> \in P
  BY SelectedEmpty
<1>2. ASSUME NEW s \in Seq(Record), NEW r \in Record, s \in P PROVE Append(s, r) \in P
  <2>1. Append(s, r) \in Seq(Record)
    OBVIOUS
  <2>2. Selected(s, U) \in Seq(Record)
    BY SelectedType
  <2>3. Selected(Append(s, r), T) = IF r \in T THEN Append(Selected(s, T), r) ELSE Selected(s, T)
    BY SelectedAppend
  <2>4. Selected(Append(s, r), U) = IF r \in U THEN Append(Selected(s, U), r) ELSE Selected(s, U)
    BY SelectedAppend
  <2>5. Selected(Append(Selected(s, U), r), T)
            = IF r \in T THEN Append(Selected(Selected(s, U), T), r) ELSE Selected(Selected(s, U), T)
    BY <2>2, SelectedAppend
  <2>6. Selected(Selected(s, U), T) = Selected(s, T)
    BY <1>2
  <2>7. Selected(Selected(Append(s, r), U), T) = Selected(Append(s, r), T)
    <3>1. CASE r \in T
      BY <3>1, <2>3, <2>4, <2>5, <2>6, Zenon
    <3>2. CASE r \notin T /\ r \in U
      BY <3>2, <2>3, <2>4, <2>5, <2>6, Zenon
    <3>3. CASE r \notin U /\ r \notin T
      BY <3>3, <2>3, <2>4, <2>5, <2>6, Zenon
    <3> QED BY <3>1, <3>2, <3>3
  <2> QED
    BY <2>1, <2>7
<1>3. Seq(Record) \subseteq P
  <2> HIDE DEF P
  <2> QED BY <1>1, <1>2, RecordsInduction
<1> QED
  BY <1>3

-----------------------------------------------------------------------------
(* Joining stretches of the buffer. *)

(* FlattenSeq is what its recursive definition says. *)
LEMMA FlattenDef ==
  ASSUME NEW ss \in Seq(Seq(Record))
  PROVE  \E g : /\ g \in [0 .. Len(ss) -> Seq(Record)] /\ g[0] = <<>>
                /\ \A i \in 1 .. Len(ss) : g[i] = g[i - 1] \o ss[i]
                /\ FlattenSeq(ss) = g[Len(ss)]
<1> DEFINE n == Len(ss)
           D == 1 .. n
           E(f) == f = [i \in D |-> IF i = 1 THEN ss[i] ELSE f[i - 1] \o ss[i]]
           g == CHOOSE f : E(f)
<1>0. n \in Nat /\ \A i \in D : ss[i] \in Seq(Record)
  OBVIOUS
<1>1. PICK f : /\ f \in [0 .. n -> Seq(Record)] /\ f[0] = <<>>
               /\ \A i \in D : f[i] = f[i - 1] \o ss[i]
  <2> DEFINE step == [i \in D |-> [x \in Seq(Record) |-> x \o ss[i]]]
  <2>1. step \in [D -> [Seq(Record) -> Seq(Record)]]
    BY <1>0
  <2>2. \A i \in D, x \in Seq(Record) : step[i][x] = x \o ss[i]
    OBVIOUS
  <2>3. <<>> \in Seq(Record)
    OBVIOUS
  <2> HIDE DEF step
  <2>4. Upto(n, Seq(Record), <<>>, step) # {}
    BY <1>0, <2>1, <2>3, Recursion
  <2>5. PICK f : f \in Upto(n, Seq(Record), <<>>, step)
    BY <2>4
  <2>6. f \in [0 .. n -> Seq(Record)] /\ f[0] = <<>> /\ \A i \in D : f[i] = step[i][f[i - 1]]
    BY <2>5 DEF Upto
  <2>7. ASSUME NEW i \in D PROVE f[i] = f[i - 1] \o ss[i]
    <3>1. i - 1 \in 0 .. n
      BY <1>0
    <3>2. f[i - 1] \in Seq(Record)
      BY <3>1, <2>6
    <3> QED
      BY <3>2, <2>2, <2>6
  <2> QED
    BY <2>6, <2>7
<1>2. CASE n = 0
  <2>1. ss = <<>>
    BY <1>2
  <2>2. FlattenSeq(ss) = <<>>
    BY <1>2, <2>1 DEF FlattenSeq
  <2> QED
    BY <1>1, <1>2, <2>2
<1>3. CASE n # 0
  <2>1. f[1] = ss[1]
    <3>1. 1 \in D /\ f[1 - 1] = <<>> /\ ss[1] \in Seq(Record)
      BY <1>0, <1>1, <1>3
    <3>2. f[1] = <<>> \o ss[1]
      BY <1>1, <3>1
    <3> QED
      BY <3>1, <3>2
  <2> DEFINE h == [i \in D |-> f[i]]
  <2>2. ASSUME NEW i \in D PROVE h[i] = IF i = 1 THEN ss[i] ELSE h[i - 1] \o ss[i]
    <3>1. i # 1 => i - 1 \in D
      BY <1>0
    <3> QED
      BY <3>1, <1>1, <2>1
  <2>3. E(h)
    BY <2>2
  <2> HIDE DEF h
  <2>4. E(g)
    BY <2>3
  <2>5. \A i \in D : g[i] = IF i = 1 THEN ss[i] ELSE g[i - 1] \o ss[i]
    BY <2>4
  <2>6. FlattenSeq(ss) = g[n]
    BY <1>3 DEF FlattenSeq
  <2> HIDE DEF g
  <2> DEFINE U == {k \in Nat : k + 1 \in D => g[k + 1] = f[k + 1]}
  <2>7. 0 \in U
    BY <1>0, <2>1, <2>5
  <2>8. ASSUME NEW m \in Nat, m \in U PROVE m + 1 \in U
    <3> SUFFICES ASSUME (m + 1) + 1 \in D PROVE g[(m + 1) + 1] = f[(m + 1) + 1]
      OBVIOUS
    <3>1. PICK k \in D : k = (m + 1) + 1 /\ k # 1 /\ k - 1 = m + 1 /\ k - 1 \in D
      BY <1>0
    <3>2. g[k - 1] = f[k - 1]
      BY <2>8, <3>1
    <3>3. g[k] = g[k - 1] \o ss[k] /\ f[k] = f[k - 1] \o ss[k]
      BY <2>5, <1>1, <3>1
    <3> QED
      BY <3>1, <3>2, <3>3
  <2>9. Nat \subseteq U
    <3> HIDE DEF U
    <3> QED BY <2>7, <2>8, InductiveSet
  <2>10. n - 1 \in Nat /\ (n - 1) + 1 = n /\ n \in D
    BY <1>0, <1>3
  <2>11. g[n] = f[n]
    BY <2>9, <2>10
  <2> QED
    BY <1>1, <2>6, <2>11
<1> QED
  BY <1>2, <1>3

(* Past records outside the set, and then records inside it. *)
Stretches(B, T) ==
  \A a, b, c \in Nat :
     (/\ a <= b /\ b <= c /\ c <= Len(B)
      /\ \A p \in a + 1 .. b : B[p] \notin T
      /\ \A p \in b + 1 .. c : B[p] \in T)
     => Selected(SubSeq(B, 1, c), T) = Selected(SubSeq(B, 1, a), T) \o SubSeq(B, b + 1, c)

(* Selecting up to the end of such a stretch appends the stretch. *)
LEMMA Stretch ==
  ASSUME NEW B \in Seq(Record), NEW T
  PROVE  Stretches(B, T)
<1> SUFFICES ASSUME NEW a \in Nat, NEW b \in Nat, NEW c \in Nat, a <= b, b <= c, c <= Len(B),
                    \A p \in a + 1 .. b : B[p] \notin T,
                    \A p \in b + 1 .. c : B[p] \in T
             PROVE  Selected(SubSeq(B, 1, c), T)
                       = Selected(SubSeq(B, 1, a), T) \o SubSeq(B, b + 1, c)
  BY DEF Stretches
<1> DEFINE x == SubSeq(B, 1, a)
           y == SubSeq(B, a + 1, b)
           z == SubSeq(B, b + 1, c)
<1>1. /\ x \in Seq(Record) /\ y \in Seq(Record) /\ z \in Seq(Record)
      /\ Len(y) = b - a /\ Len(z) = c - b
      /\ \A i \in 1 .. Len(y) : y[i] = B[a + i]
      /\ \A i \in 1 .. Len(z) : z[i] = B[b + i]
  OBVIOUS
<1>2. SubSeq(B, 1, c) = (x \o y) \o z
  OBVIOUS
<1>3. \A i \in 1 .. Len(y) : y[i] \notin T
  BY <1>1
<1>4. \A i \in 1 .. Len(z) : z[i] \in T
  BY <1>1
<1> HIDE DEF x, y, z
<1>5. Selected(y, T) = <<>> /\ Selected(z, T) = z /\ Selected(x, T) \in Seq(Record)
  BY <1>1, <1>3, <1>4, SelectedNone, SelectedAll, SelectedType
<1>6. x \o y \in Seq(Record) /\ Selected(x, T) \o <<>> = Selected(x, T)
  BY <1>1, <1>5
<1>7. Selected((x \o y) \o z, T) = Selected(x \o y, T) \o Selected(z, T)
  BY <1>1, <1>6, SelectedConcat
<1>8. Selected(x \o y, T) = Selected(x, T) \o Selected(y, T)
  BY <1>1, SelectedConcat
<1>9. Selected((x \o y) \o z, T) = Selected(x, T) \o z
  BY <1>5, <1>6, <1>7, <1>8, Zenon
<1> QED
  BY <1>2, <1>9 DEF x, z

(* The parts of an entry. *)
LEMMA EntryParts ==
  ASSUME NEW L \in Seq(Entry), NEW i \in 1 .. Len(L)
  PROVE  L[i].num \in Fields /\ L[i].start \in Nat /\ L[i].end \in Nat /\ L[i] \in Entry
<1>1. L[i] \in Entry
  OBVIOUS
<1>2. \A x \in 0 .. MaxRecords : x \in Nat
  BY FieldsAssumption
<1> QED
  BY <1>1, <1>2 DEF Entry

(* Stretches in order that hold the elements of T, all of them and nothing  *)
(* else, join to what T selects.                                            *)
LEMMA Joined ==
  ASSUME NEW B \in Seq(Record), NEW T, NEW L \in Seq(Entry),
         \A i \in 1 .. Len(L) : /\ L[i].start < L[i].end /\ L[i].end <= Len(B)
                                /\ \A p \in L[i].start + 1 .. L[i].end : B[p] \in T,
         \A i, j \in 1 .. Len(L) : i < j => L[i].end <= L[j].start,
         \A p \in 1 .. Len(B) : B[p] \in T => \E i \in 1 .. Len(L) : L[i].start < p /\ p <= L[i].end
  PROVE  FlattenSeq([i \in DOMAIN L |-> SubSeq(B, L[i].start + 1, L[i].end)]) = Selected(B, T)
<1> DEFINE n == Len(L)
           ss == [i \in DOMAIN L |-> SubSeq(B, L[i].start + 1, L[i].end)]
           upto == [k \in 0 .. n |-> IF k = 0 THEN 0 ELSE L[k].end]
<1>0. n \in Nat /\ DOMAIN L = 1 .. n /\ \A i \in 1 .. n : L[i].start \in Nat /\ L[i].end \in Nat
  BY EntryParts
<1>s. Stretches(B, T)
  BY Stretch
<1>1. ss \in Seq(Seq(Record)) /\ Len(ss) = n /\ \A i \in 1 .. n : ss[i] = SubSeq(B, L[i].start + 1, L[i].end)
  <2>1. \A i \in 1 .. n : SubSeq(B, L[i].start + 1, L[i].end) \in Seq(Record)
    BY <1>0
  <2>2. ss = [i \in 1 .. n |-> SubSeq(B, L[i].start + 1, L[i].end)]
    BY <1>0
  <2>3. ss \in [1 .. n -> Seq(Record)]
    BY <2>1, <2>2
  <2> QED
    BY <1>0, <2>2, <2>3, SMTT(60)
<1> HIDE DEF ss
<1>2. PICK g : /\ g \in [0 .. n -> Seq(Record)] /\ g[0] = <<>>
               /\ \A i \in 1 .. n : g[i] = g[i - 1] \o ss[i]
               /\ FlattenSeq(ss) = g[n]
  BY <1>1, FlattenDef
<1>3. /\ upto[0] = 0 /\ \A k \in 1 .. n : upto[k] = L[k].end
      /\ \A k \in 0 .. n : upto[k] \in Nat /\ upto[k] <= Len(B)
      /\ \A k \in 1 .. n : upto[k - 1] <= L[k].start
  <2>1. upto[0] = 0 /\ \A k \in 1 .. n : upto[k] = L[k].end
    BY <1>0
  <2>2. ASSUME NEW k \in 0 .. n PROVE upto[k] \in Nat /\ upto[k] <= Len(B)
    <3>1. CASE k = 0
      BY <3>1, <2>1
    <3>2. CASE k # 0
      <4>1. k \in 1 .. n
        BY <3>2, <1>0
      <4> QED BY <4>1, <2>1, <1>0
    <3> QED BY <3>1, <3>2
  <2>3. ASSUME NEW k \in 1 .. n PROVE upto[k - 1] <= L[k].start
    <3>1. CASE k = 1
      BY <3>1, <2>1, <1>0
    <3>2. CASE k # 1
      <4>1. k - 1 \in 1 .. n /\ k - 1 < k
        BY <3>2, <1>0
      <4> QED BY <4>1, <2>1
    <3> QED BY <3>1, <3>2
  <2> QED
    BY <2>1, <2>2, <2>3
<1> HIDE DEF upto
<1> DEFINE U == {k \in Nat : k <= n => g[k] = Selected(SubSeq(B, 1, upto[k]), T)}
<1>4. 0 \in U
  <2>1. SubSeq(B, 1, 0) = <<>>
    OBVIOUS
  <2>2. g[0] = Selected(SubSeq(B, 1, upto[0]), T)
    BY <1>2, <1>3, <2>1, SelectedEmpty, Zenon
  <2> QED
    BY <2>2
<1>5. ASSUME NEW m \in Nat, m \in U PROVE m + 1 \in U
  <2> SUFFICES ASSUME m + 1 <= n PROVE g[m + 1] = Selected(SubSeq(B, 1, upto[m + 1]), T)
    OBVIOUS
  <2>1. PICK k \in 1 .. n : k = m + 1 /\ k - 1 = m /\ k - 1 \in 0 .. n
    BY <1>0
  <2>2. g[k - 1] = Selected(SubSeq(B, 1, upto[k - 1]), T)
    BY <1>0, <1>5, <2>1
  <2>3. PICK a \in Nat, b \in Nat, c \in Nat : a = upto[k - 1] /\ b = L[k].start /\ c = L[k].end
    BY <1>0, <1>3, <2>1
  <2>4. a <= b /\ b <= c /\ c <= Len(B)
    BY <2>3, <1>3, <1>0
  <2>5. ASSUME NEW p \in a + 1 .. b, B[p] \in T PROVE FALSE
    <3>1. p \in 1 .. Len(B)
      BY <2>3, <2>4
    <3>2. PICK i \in 1 .. n : L[i].start < p /\ p <= L[i].end
      BY <2>5, <3>1
    <3>3. CASE i >= k
      <4>1. b <= L[i].start
        <5>1. CASE i = k
          BY <5>1, <2>3
        <5>2. CASE i > k
          <6>1. L[k].end <= L[i].start
            BY <5>2
          <6> QED BY <6>1, <2>3, <2>4, <1>0, SMTT(60)
        <5> QED BY <5>1, <5>2, <3>3
      <4> QED BY <4>1, <3>2, <2>3, <1>0
    <3>4. CASE i < k
      <4>1. L[i].end <= a
        <5>1. PICK j \in 1 .. n : j = k - 1 /\ (i = j \/ i < j)
          <6>1. k - 1 \in 1 .. n /\ (i = k - 1 \/ i < k - 1)
            BY <3>4, <1>0
          <6> QED BY <6>1
        <5>2. a = L[j].end
          BY <5>1, <2>3, <1>3
        <5>3. CASE i = j
          BY <5>2, <5>3, <1>0
        <5>4. CASE i < j
          <6>1. L[i].end <= L[j].start /\ L[j].start < L[j].end
            BY <5>4
          <6>2. L[i].end \in Nat /\ L[j].start \in Nat /\ L[j].end \in Nat
            BY <1>0
          <6>3. \A u, v, w \in Nat : u <= v /\ v < w => u <= w
            OBVIOUS
          <6>4. L[i].end <= L[j].end
            BY <6>1, <6>2, <6>3, Zenon
          <6> QED BY <6>4, <5>2
        <5> QED BY <5>1, <5>3, <5>4
      <4> QED BY <4>1, <3>2, <2>3, <1>0
    <3> QED BY <3>3, <3>4
  <2>6. \A p \in b + 1 .. c : B[p] \in T
    BY <2>3
  <2>7. Selected(SubSeq(B, 1, c), T) = Selected(SubSeq(B, 1, a), T) \o SubSeq(B, b + 1, c)
    <3>1. \A p \in a + 1 .. b : B[p] \notin T
      BY <2>5
    <3> QED
      BY <1>s, <2>4, <2>6, <3>1 DEF Stretches
  <2>8. g[k] = g[k - 1] \o SubSeq(B, b + 1, c)
    BY <1>1, <1>2, <2>3
  <2>9. c = upto[k]
    BY <1>3, <2>3
  <2> QED
    BY <2>1, <2>2, <2>3, <2>7, <2>8, <2>9
<1>6. g[n] = Selected(SubSeq(B, 1, upto[n]), T)
  <2>1. Nat \subseteq U
    <3> HIDE DEF U
    <3> QED BY <1>4, <1>5, InductiveSet
  <2> QED BY <1>0, <2>1
<1>7. PICK a \in Nat, b \in Nat : a = upto[n] /\ b = Len(B)
  BY <1>0, <1>3
<1>8. ASSUME NEW p \in a + 1 .. b, B[p] \in T PROVE FALSE
  <2>1. p \in 1 .. Len(B)
    BY <1>7
  <2>2. PICK i \in 1 .. n : L[i].start < p /\ p <= L[i].end
    BY <1>8, <2>1
  <2>3. n \in 1 .. n /\ a = L[n].end /\ (i = n \/ i < n)
    <3>1. n \in 1 .. n /\ (i = n \/ i < n)
      BY <1>0
    <3> QED BY <3>1, <1>3, <1>7
  <2>4. L[i].end <= a
    <3>1. CASE i = n
      BY <3>1, <2>3, <1>0
    <3>2. CASE i < n
      <4>1. L[i].end <= L[n].start /\ L[n].start < L[n].end
        BY <2>3, <3>2
      <4>2. PICK u \in Nat, v \in Nat, w \in Nat : u = L[i].end /\ v = L[n].start /\ w = L[n].end
        BY <2>3, <1>0
      <4> QED BY <4>1, <4>2, <2>3
    <3> QED BY <2>3, <3>1, <3>2
  <2> QED BY <2>2, <2>4, <1>7, <1>0
<1>9. a <= b /\ b <= b /\ b <= Len(B) /\ \A p \in b + 1 .. b : B[p] \in T
  BY <1>3, <1>7, <1>0
<1>10. Selected(SubSeq(B, 1, b), T) = Selected(SubSeq(B, 1, a), T) \o SubSeq(B, b + 1, b)
  <2>1. \A p \in a + 1 .. b : B[p] \notin T
    BY <1>8
  <2> QED
    BY <1>s, <1>9, <2>1 DEF Stretches
<1>11. SubSeq(B, 1, b) = B /\ SubSeq(B, b + 1, b) = <<>>
  BY <1>7
<1>12. Selected(SubSeq(B, 1, a), T) \in Seq(Record)
  <2>1. SubSeq(B, 1, a) \in Seq(Record)
    BY <1>9
  <2> QED BY <2>1, SelectedType
<1>13. Selected(SubSeq(B, 1, a), T) \o <<>> = Selected(SubSeq(B, 1, a), T)
  BY <1>12
<1>14. FlattenSeq(ss) = Selected(B, T)
  BY <1>2, <1>6, <1>7, <1>10, <1>11, <1>13, Zenon
<1> QED
  BY <1>14 DEF ss

-----------------------------------------------------------------------------
(* The inductive invariant. *)

OfField(f) == {r \in Record : r.num = f}

(* The number of the i-th record. *)
NumAt(buf, i) == IF i = 0 THEN 0 ELSE buf[i].num

Scanning(lazily) == status = "scan" /\ lazyDecode = lazily

(* The message is as a call left it, or an eager call is adding to it. *)
Settled == status = "ok" \/ Scanning(FALSE)

(* Serial numbers and the buffer do not run ahead of the input. *)
Serials ==
    /\ Len(lazy.buffer) <= records
    /\ \A r \in skipped : r.at <= records
    /\ \A i \in DOMAIN wantUnknown : wantUnknown[i].at <= records

(* Only default options decode lazily, and the flags are those of the call. *)
Flags ==
    /\ lazyDecode => opts.mode = "default"
    /\ lazyDecode /\ status \in {"scan", "ok"} =>
           lazy.checked = ~opts.allowPartial /\ \A f \in Fields : lost[f] = 0

(* A record that cannot be decoded is in the buffer only if its field is    *)
(* postponed; then the reference has failed, and only then.                 *)
Errors ==
    /\ Scanning(FALSE) => ~failed /\ Later = {}
    /\ Scanning(TRUE) =>
           /\ \A i \in DOMAIN lazy.buffer : Bad(lazy.buffer[i]) => lazy.buffer[i].num \in Later
           /\ failed <=> \E i \in DOMAIN lazy.buffer : Bad(lazy.buffer[i])
    /\ status = "invalid" => failed \/ (opts.group /\ Later # {})
    /\ status \in {"ok", "required"} => ~failed

(* The unknown fields are the reference's without the swallowed ones. *)
Unknowns ==
    status \in {"scan", "ok"} /\ ~failed => unknown = Selected(wantUnknown, Record \ skipped)

(* In the first call no partial submessage is taken for initialized. *)
Partials ==
    /\ calls = 0 => want = Empty /\ status # "scan"
    /\ calls <= 1 /\ initialized /\ Later = {} /\ status \in {"scan", "ok"} =>
           \A f \in Fields : \A i \in DOMAIN want[f] : want[f][i].cls # "partial"

(* The entries of X are stretches of records of one field among the first n *)
(* of buf, fields of G only; every record of a field of G is in a stretch.  *)
Indexes(X, buf, n, G) ==
    /\ X \in Seq(Entry)
    /\ \A i \in DOMAIN X : /\ X[i].num \in G /\ X[i].start < X[i].end /\ X[i].end <= n
                           /\ \A p \in X[i].start + 1 .. X[i].end : buf[p].num = X[i].num
    /\ \A p \in 1 .. n : buf[p].num \in G =>
           \E i \in DOMAIN X : X[i].start < p /\ p <= X[i].end

(* The stretches come in the order of the buffer, *)
InBufferOrder(X) == \A i, j \in DOMAIN X : i < j => X[i].end <= X[j].start

(* and the last one reaches the last record if that is of a field of G. *)
ReachesEnd(X, buf, n, G) == n > 0 /\ buf[n].num \in G => X # <<>> /\ X[Len(X)].end = n

(* The index under construction. *)
IndexSoFar ==
    Scanning(TRUE) =>
        LET n == Len(lazy.buffer)
        IN  /\ Indexes(lazyIndex, lazy.buffer, n, LazyFields)
            /\ InBufferOrder(lazyIndex)
            /\ ReachesEnd(lazyIndex, lazy.buffer, n, LazyFields)
            /\ lastNum = NumAt(lazy.buffer, n)
            /\ ~outOfOrder => \A p, q \in 1 .. n : p < q => lazy.buffer[p].num <= lazy.buffer[q].num

(* The stored index finds every record of a lazy field. *)
IndexStored ==
    Settled => \A f \in LazyFields :
                   RawField(lazy.index, lazy.buffer, f) = Selected(lazy.buffer, OfField(f))

(* What a field has while no lazy call is under way: its pointer, or the    *)
(* records that the stored index finds, are what the reference has due.     *)
Held(f) ==
    LET due == SubSeq(want[f], lost[f] + 1, Len(want[f]))
    IN  /\ (f \in present) <=> (want[f] # <<>>)
        /\ f \notin present => ptr[f] = Nil /\ lost[f] = 0
        /\ f \in present => /\ lost[f] < Len(want[f])
                            /\ ptr[f] # Nil => ptr[f] = due
                            /\ ptr[f] = Nil => f \in LazyFields /\ LazyUnmarshal(lazy, f) = due

(* What a field has in the middle of a lazy call. *)
Underway(f) ==
    LET buffered == want[f] = UnmarshalField(lazy.buffer, f)
    IN  IF f \in PlainFields
        THEN ptr[f] = want[f] /\ ((f \in present) <=> (want[f] # <<>>))
        ELSE CASE lazyFields[f] = "validate" ->
                      ptr[f] = Nil /\ buffered /\ ((f \in present) <=> (want[f] # <<>>))
               [] lazyFields[f] = "now"      ->
                      ptr[f] = want[f] /\ f \in present /\ want[f] # <<>>
               [] lazyFields[f] = "later"    ->
                      ptr[f] = Nil /\ buffered /\ f \notin present /\ want[f] # <<>>

FieldsSoFar ==
    /\ Settled => \A f \in Fields : Held(f)
    /\ Scanning(TRUE) /\ ~failed => \A f \in Fields : Underway(f)

Inv == /\ TypeOK /\ Serials /\ Flags /\ Errors /\ Unknowns /\ Partials
       /\ IndexSoFar /\ IndexStored /\ FieldsSoFar

-----------------------------------------------------------------------------
(* Looking a field up in an index. *)

(* The numbers of the entries do not decrease. *)
Ascending(X) == \A i, j \in 1 .. Len(X) : i < j => X[i].num <= X[j].num

(* What LookupField finds are the entries of the field. *)
LEMMA LookupRun ==
  ASSUME NEW X \in Seq(Entry), NEW f \in Nat, Ascending(X)
  PROVE  \E a, b \in Nat : /\ 1 <= a /\ b <= Len(X)
                           /\ LookupField(X, f) = SubSeq(X, a, b)
                           /\ \A k \in 1 .. Len(X) : (X[k].num = f) <=> (a <= k /\ k <= b)
<1> DEFINE n == Len(X)
           I == {k \in 1 .. n : X[k].num >= f}
           i == SelectInSeq(X, LAMBDA e : e.num >= f)
           run == {j \in i .. n : \A k \in i .. j : X[k].num = f}
<1>0. n \in Nat /\ \A k \in 1 .. n : X[k].num \in Nat
  <2>1. \A x \in Fields : x \in Nat
    BY FieldsAssumption DEF Fields
  <2> QED
    BY <2>1, EntryParts
<1>1. i = IF I # {} THEN Min(I) ELSE 0
  BY DEF SelectInSeq
<1>2. LookupField(X, f) = IF i = 0 \/ run = {} THEN <<>> ELSE SubSeq(X, i, Max(run))
  BY DEF LookupField
<1> HIDE DEF i
<1>3. CASE I = {}
  <2>1. LookupField(X, f) = <<>>
    BY <1>1, <1>2, <1>3
  <2>2. \A k \in 1 .. n : X[k].num # f
    BY <1>0, <1>3
  <2>3. SubSeq(X, 1, 0) = <<>>
    OBVIOUS
  <2>4. \A k \in 1 .. n : (X[k].num = f) <=> (1 <= k /\ k <= 0)
    BY <1>0, <2>2
  <2> QED
    BY <1>0, <2>1, <2>3, <2>4
<1>4. CASE I # {}
  <2>1. i \in I /\ \A k \in I : i <= k
    <3>1. \E x \in I : \A y \in I : x <= y
      <4>1. I \subseteq Nat
        OBVIOUS
      <4> HIDE DEF I
      <4> QED BY <4>1, <1>4, SmallestOf
    <3> HIDE DEF I
    <3>2. Min(I) \in I /\ \A k \in I : Min(I) <= k
      BY <3>1 DEF Min
    <3> QED
      BY <1>1, <1>4, <3>2
  <2>2. i \in 1 .. n /\ i # 0 /\ X[i].num >= f
    BY <2>1
  <2>3. \A k \in 1 .. n : k < i => X[k].num < f
    BY <2>1, <2>2, <1>0
  <2>4. \A k \in 1 .. n : i <= k => X[k].num >= X[i].num
    BY <2>2, <1>0 DEF Ascending
  <2>5. CASE X[i].num # f
    <3>1. run = {}
      BY <2>2, <2>5
    <3>2. LookupField(X, f) = <<>>
      BY <1>2, <3>1
    <3>3. \A k \in 1 .. n : X[k].num # f
      <4> TAKE k \in 1 .. n
      <4>1. CASE k < i
        BY <4>1, <2>3, <1>0
      <4>2. CASE i <= k
        <5>1. X[k].num >= X[i].num /\ X[k].num \in Nat /\ X[i].num \in Nat
          BY <4>2, <2>4, <2>2, <1>0
        <5> QED BY <5>1, <2>2, <2>5
      <4> QED BY <4>1, <4>2, <2>2
    <3>4. SubSeq(X, 1, 0) = <<>>
      OBVIOUS
    <3>5. \A k \in 1 .. n : (X[k].num = f) <=> (1 <= k /\ k <= 0)
      BY <1>0, <3>3
    <3> QED
      BY <1>0, <3>2, <3>4, <3>5
  <2>6. CASE X[i].num = f
    <3> DEFINE D == {k \in i .. n + 1 : k = n + 1 \/ X[k].num # f}
    <3>1. PICK d \in D : \A y \in D : d <= y
      <4>1. n + 1 \in D /\ D \subseteq Nat
        BY <1>0, <2>2
      <4> HIDE DEF D
      <4> QED BY <4>1, SmallestOf
    <3>2. d \in i .. n + 1 /\ d > i
      BY <3>1, <2>2, <2>6, <1>0
    <3>3. \A k \in 1 .. n : i <= k /\ k < d => X[k].num = f
      BY <3>1, <3>2, <2>2, <1>0
    <3>4. PICK m \in Nat : m = d - 1 /\ i <= m /\ m <= n
      BY <3>2, <2>2, <1>0
    <3>5. m \in run
      BY <3>3, <3>4, <3>2, <2>2, <1>0
    <3>6. \A j \in run : j <= m
      <4> SUFFICES ASSUME NEW j \in run, m < j PROVE FALSE
        BY <3>4, <2>2, <1>0
      <4>1. d \in i .. j /\ d \in 1 .. n
        BY <3>4, <3>2, <2>2, <1>0
      <4>2. X[d].num = f
        BY <4>1
      <4> QED
        BY <3>1, <4>1, <4>2, <1>0
    <3>7. Max(run) = m
      <4>0. \A j \in run : j \in Nat
        BY <2>2, <1>0
      <4> HIDE DEF run
      <4>1. m \in run /\ \A y \in run : m >= y
        BY <3>4, <3>5, <3>6, <4>0
      <4>2. Max(run) \in run /\ \A y \in run : Max(run) >= y
        BY <4>1 DEF Max
      <4>3. Max(run) \in Nat /\ Max(run) >= m /\ m >= Max(run)
        BY <4>0, <4>1, <4>2
      <4> QED
        BY <4>3
    <3>8. LookupField(X, f) = SubSeq(X, i, m)
      BY <1>2, <2>2, <3>5, <3>7
    <3>9. ASSUME NEW k \in 1 .. n PROVE (X[k].num = f) <=> (i <= k /\ k <= m)
      <4>1. CASE k < i
        BY <4>1, <2>3, <2>2, <1>0
      <4>2. CASE i <= k /\ k < d
        BY <4>2, <3>3, <3>4, <2>2, <1>0
      <4>3. CASE d <= k
        <5>1. d \in 1 .. n /\ X[d].num # f
          BY <4>3, <3>1, <3>2, <2>2, <1>0
        <5>2. X[d].num >= f
          BY <2>4, <2>6, <3>2, <5>1
        <5>3. X[d].num <= X[k].num
          BY <4>3, <5>1, <1>0 DEF Ascending
        <5>4. X[k].num # f
          BY <5>1, <5>2, <5>3, <1>0
        <5> QED
          BY <5>4, <4>3, <3>4, <3>2
      <4> QED
        BY <4>1, <4>2, <4>3, <2>2, <3>2
    <3>10. i \in Nat /\ 1 <= i /\ m <= n
      BY <2>2, <3>4
    <3> QED
      BY <3>8, <3>9, <3>10, Zenon
  <2> QED
    BY <2>5, <2>6
<1> QED
  BY <1>3, <1>4

(* The entries are ordered by number, then by place. *)
Ordered(X) == \A i, j \in 1 .. Len(X) : i < j => Before(X[i], X[j])

(* Stretches do not overlap. *)
Apart(X) == \A i, j \in 1 .. Len(X) : X[i].start < X[j].start => X[i].end <= X[j].start

(* An ordered index finds exactly the records of a field, in order. *)
LEMMA RawFieldFinds ==
  ASSUME NEW B \in Seq(Record), NEW X, NEW G, NEW f \in G, f \in Fields,
         Indexes(X, B, Len(B), G), Ordered(X), Apart(X)
  PROVE  RawField(X, B, f) = Selected(B, OfField(f))
<1> DEFINE T == OfField(f)
           n == Len(X)
<1>0. X \in Seq(Entry) /\ DOMAIN X = 1 .. n /\ n \in Nat
  BY DEF Indexes
<1>1. \A x \in Fields : x \in Nat
  BY FieldsAssumption DEF Fields
<1>2. \A k \in 1 .. n : X[k].num \in Nat /\ X[k].start \in Nat /\ X[k].end \in Nat
  BY <1>0, <1>1, EntryParts
<1>3. Ascending(X)
  BY <1>2 DEF Ascending, Ordered, Before
<1>4. PICK a \in Nat, b \in Nat :
          /\ 1 <= a /\ b <= n /\ LookupField(X, f) = SubSeq(X, a, b)
          /\ \A k \in 1 .. n : (X[k].num = f) <=> (a <= k /\ k <= b)
  BY <1>0, <1>1, <1>3, LookupRun
<1>5. PICK L : L = SubSeq(X, a, b)
  OBVIOUS
<1>6. /\ L \in Seq(Entry) /\ DOMAIN L = 1 .. Len(L)
      /\ Len(L) = IF a <= b THEN b - a + 1 ELSE 0
      /\ \A i \in 1 .. Len(L) : L[i] = X[(a - 1) + i] /\ (a - 1) + i \in 1 .. n
                                /\ a <= (a - 1) + i /\ (a - 1) + i <= b
  BY <1>0, <1>4, <1>5
<1>7. ASSUME NEW i \in 1 .. Len(L)
      PROVE  /\ L[i].start < L[i].end /\ L[i].end <= Len(B)
             /\ \A p \in L[i].start + 1 .. L[i].end : B[p] \in T
  <2>1. PICK k \in 1 .. n : L[i] = X[k] /\ X[k].num = f
    BY <1>4, <1>6
  <2>2. /\ X[k].start < X[k].end /\ X[k].end <= Len(B)
        /\ \A p \in X[k].start + 1 .. X[k].end : B[p].num = X[k].num
    BY <1>0 DEF Indexes
  <2>3. \A p \in X[k].start + 1 .. X[k].end : B[p] \in Record
    BY <2>2, <1>2
  <2> QED
    BY <2>1, <2>2, <2>3 DEF OfField
<1>8. ASSUME NEW i \in 1 .. Len(L), NEW j \in 1 .. Len(L), i < j
      PROVE  L[i].end <= L[j].start
  <2>1. PICK k \in 1 .. n, l \in 1 .. n :
           k < l /\ L[i] = X[k] /\ L[j] = X[l] /\ X[k].num = f /\ X[l].num = f
    <3>1. (a - 1) + i \in 1 .. n /\ (a - 1) + j \in 1 .. n /\ (a - 1) + i < (a - 1) + j
      BY <1>6, <1>8
    <3>2. X[(a - 1) + i].num = f /\ X[(a - 1) + j].num = f
      BY <1>4, <1>6
    <3> QED
      BY <1>6, <3>1, <3>2
  <2>2. Before(X[k], X[l])
    BY <2>1 DEF Ordered
  <2>3. X[k].start < X[l].start
    BY <1>2, <2>1, <2>2 DEF Before
  <2> QED
    BY <2>1, <2>3 DEF Apart
<1>9. ASSUME NEW p \in 1 .. Len(B), B[p] \in T
      PROVE  \E i \in 1 .. Len(L) : L[i].start < p /\ p <= L[i].end
  <2>1. B[p].num = f
    BY <1>9 DEF OfField
  <2>2. PICK k \in 1 .. n : X[k].start < p /\ p <= X[k].end
    BY <1>0, <2>1 DEF Indexes
  <2>3. X[k].num = f
    <3>1. p \in X[k].start + 1 .. X[k].end
      BY <1>2, <2>2
    <3> QED
      BY <1>0, <2>1, <3>1 DEF Indexes
  <2>4. a <= k /\ k <= b
    BY <1>4, <2>3
  <2>5. PICK i \in 1 .. Len(L) : (a - 1) + i = k
    <3>1. k - (a - 1) \in 1 .. Len(L) /\ (a - 1) + (k - (a - 1)) = k
      BY <1>6, <2>4
    <3> QED
      BY <3>1
  <2>6. L[i] = X[k]
    BY <1>6, <2>5
  <2> QED
    BY <2>2, <2>6
<1>10. FlattenSeq([i \in DOMAIN L |-> SubSeq(B, L[i].start + 1, L[i].end)]) = Selected(B, T)
  <2>1. L \in Seq(Entry)
    BY <1>6
  <2> HIDE DEF T
  <2> QED
    BY <2>1, <1>7, <1>8, <1>9, Joined
<1>11. RawField(X, B, f) = FlattenSeq([i \in DOMAIN L |-> SubSeq(B, L[i].start + 1, L[i].end)])
  BY <1>4, <1>5 DEF RawField
<1> QED
  BY <1>10, <1>11

-----------------------------------------------------------------------------
(* Sorting an index. *)

(* Before is a strict order, total for entries that start apart. *)
LEMMA BeforeOrders ==
  /\ \A e, g, h \in Entry : Before(e, g) /\ Before(g, h) => Before(e, h)
  /\ \A e, g \in Entry : e.start # g.start => Before(e, g) \/ Before(g, e)
<1>1. \A x \in Fields : x \in Nat
  BY FieldsAssumption DEF Fields
<1>2. \A x \in 0 .. MaxRecords : x \in Nat
  BY FieldsAssumption
<1>3. \A e \in Entry : e.num \in Nat /\ e.start \in Nat
  BY <1>1, <1>2 DEF Entry
<1> QED
  BY <1>3 DEF Before

Distinct(X) == \A i, j \in 1 .. Len(X) : i # j => X[i].start # X[j].start

SortOf(t, X) ==
  /\ t \in [1 .. Len(X) -> Range(X)] /\ Range(t) = Range(X)
  /\ \A i, j \in 1 .. Len(X) : i < j => Before(t[i], t[j])

(* One more entry has its place among sorted ones. *)
LEMMA Insert ==
  ASSUME NEW X \in Seq(Entry), NEW e \in Entry, NEW s, SortOf(s, X),
         \A i \in 1 .. Len(X) : X[i].start # e.start
  PROVE  \E t : SortOf(t, Append(X, e))
<1> DEFINE n == Len(X)
           Y == Append(X, e)
           D == {k \in 1 .. n + 1 : k = n + 1 \/ Before(e, s[k])}
<1>0. n \in Nat /\ Y \in Seq(Entry) /\ Len(Y) = n + 1 /\ Y[n + 1] = e /\ \A i \in 1 .. n : Y[i] = X[i]
  OBVIOUS
<1>1. \A i \in 1 .. n : s[i] \in Range(X) /\ s[i] \in Entry /\ s[i].start # e.start
  <2>1. \A x \in Range(X) : x \in Entry /\ x.start # e.start
    BY DEF Range
  <2> QED
    BY <2>1 DEF SortOf
<1>2. Range(Y) = Range(X) \cup {e}
  <2>1. DOMAIN Y = 1 .. n + 1 /\ DOMAIN X = 1 .. n
    BY <1>0
  <2>2. ASSUME NEW y \in Range(Y) PROVE y \in Range(X) \cup {e}
    <3>1. PICK i \in 1 .. n + 1 : y = Y[i]
      BY <2>1 DEF Range
    <3>2. i \in 1 .. n \/ i = n + 1
      BY <1>0
    <3> QED
      BY <1>0, <2>1, <3>1, <3>2 DEF Range
  <2>3. ASSUME NEW y \in Range(X) PROVE y \in Range(Y)
    <3>1. PICK i \in 1 .. n : y = X[i]
      BY <2>1 DEF Range
    <3>2. i \in 1 .. n + 1 /\ y = Y[i]
      BY <1>0, <3>1
    <3> QED
      BY <2>1, <3>2 DEF Range
  <2>4. e \in Range(Y)
    <3>1. n + 1 \in 1 .. n + 1 /\ Y[n + 1] = e
      BY <1>0
    <3> QED
      BY <2>1, <3>1 DEF Range
  <2> QED
    BY <2>2, <2>3, <2>4
<1> HIDE DEF Y
<1>3. PICK d \in D : \A y \in D : d <= y
  <2>1. n + 1 \in D /\ D \subseteq Nat
    BY <1>0
  <2> HIDE DEF D
  <2> QED BY <2>1, SmallestOf
<1>4. d \in 1 .. n + 1 /\ (d = n + 1 \/ Before(e, s[d]))
  BY <1>3
<1>5. ASSUME NEW k \in 1 .. n, k < d PROVE Before(s[k], e)
  <2>1. k \notin D
    BY <1>3, <1>4, <1>5
  <2>2. ~Before(e, s[k])
    BY <2>1, <1>0
  <2> QED
    BY <2>2, <1>1, BeforeOrders
<1>6. ASSUME NEW k \in 1 .. n, d <= k PROVE Before(e, s[k])
  <2>1. d \in 1 .. n /\ Before(e, s[d])
    BY <1>4, <1>6, <1>0
  <2>2. CASE d = k
    BY <2>1, <2>2
  <2>3. CASE d < k
    <3>1. Before(s[d], s[k])
      BY <2>1, <2>3 DEF SortOf
    <3> QED
      BY <2>1, <3>1, <1>1, BeforeOrders
  <2> QED
    BY <2>2, <2>3, <1>6, <1>4
<1> DEFINE t == [i \in 1 .. n + 1 |-> IF i < d THEN s[i] ELSE IF i = d THEN e ELSE s[i - 1]]
<1>7. /\ \A i \in 1 .. n + 1 : i < d => i \in 1 .. n /\ t[i] = s[i]
      /\ t[d] = e
      /\ \A i \in 1 .. n + 1 : i > d => i - 1 \in 1 .. n /\ d <= i - 1 /\ t[i] = s[i - 1]
  BY <1>0, <1>4
<1>8. DOMAIN t = 1 .. n + 1
  OBVIOUS
<1>9. ASSUME NEW i \in 1 .. n + 1 PROVE t[i] \in Range(Y)
  <2>1. i < d \/ i = d \/ i > d
    BY <1>4
  <2>2. \A k \in 1 .. n : s[k] \in Range(Y)
    BY <1>1, <1>2
  <2>3. e \in Range(Y)
    BY <1>2
  <2> HIDE DEF t
  <2> QED
    BY <2>1, <2>2, <2>3, <1>7
<1>10. t \in [1 .. n + 1 -> Range(Y)]
  BY <1>9
<1> HIDE DEF t
<1>11. ASSUME NEW y \in Range(Y) PROVE y \in Range(t)
  <2>1. CASE y = e
    BY <2>1, <1>4, <1>7, <1>8 DEF Range
  <2>2. CASE y \in Range(X)
    <3>1. PICK k \in 1 .. n : y = s[k]
      BY <2>2, ZenonT(60) DEF SortOf, Range
    <3>2. CASE k < d
      <4>1. k \in 1 .. n + 1 /\ t[k] = s[k]
        BY <1>0, <1>7, <3>2
      <4> QED BY <3>1, <4>1, <1>8 DEF Range
    <3>3. CASE d <= k
      <4>1. k + 1 \in 1 .. n + 1 /\ k + 1 > d /\ (k + 1) - 1 = k
        BY <1>0, <1>4, <3>3
      <4>2. t[k + 1] = s[k]
        BY <1>7, <4>1
      <4> QED BY <3>1, <4>1, <4>2, <1>8 DEF Range
    <3> QED BY <3>2, <3>3, <1>4
  <2> QED BY <2>1, <2>2, <1>2
<1>12. Range(t) = Range(Y)
  <2>1. \A y \in Range(t) : y \in Range(Y)
    BY <1>8, <1>9 DEF Range
  <2> QED
    BY <2>1, <1>11
<1>13. ASSUME NEW i \in 1 .. n + 1, NEW j \in 1 .. n + 1, i < j PROVE Before(t[i], t[j])
  <2>1. CASE j < d
    <3>1. i < d /\ i \in 1 .. n /\ j \in 1 .. n
      BY <2>1, <1>4, <1>7, <1>13
    <3>2. Before(s[i], s[j])
      BY <3>1, <1>13 DEF SortOf
    <3> QED BY <3>1, <3>2, <2>1, <1>7
  <2>2. CASE j = d
    <3>1. i < d /\ i \in 1 .. n
      BY <2>2, <1>7, <1>13
    <3> QED BY <3>1, <2>2, <1>5, <1>7
  <2>3. CASE j > d /\ i < d
    <3>1. i \in 1 .. n /\ j - 1 \in 1 .. n /\ i < j - 1 /\ t[i] = s[i] /\ t[j] = s[j - 1]
      BY <2>3, <1>4, <1>7
    <3>2. Before(s[i], s[j - 1])
      BY <3>1 DEF SortOf
    <3> QED BY <3>1, <3>2
  <2>4. CASE j > d /\ i = d
    <3>1. j - 1 \in 1 .. n /\ d <= j - 1 /\ t[j] = s[j - 1]
      BY <2>4, <1>7
    <3>2. Before(e, s[j - 1])
      BY <3>1, <1>6
    <3> QED BY <3>1, <3>2, <2>4, <1>7
  <2>5. CASE j > d /\ i > d
    <3>1. i - 1 \in 1 .. n /\ j - 1 \in 1 .. n /\ i - 1 < j - 1 /\ t[i] = s[i - 1] /\ t[j] = s[j - 1]
      BY <2>5, <1>7, <1>13
    <3>2. Before(s[i - 1], s[j - 1])
      BY <3>1 DEF SortOf
    <3> QED BY <3>1, <3>2
  <2> QED BY <2>1, <2>2, <2>3, <2>4, <2>5, <1>4
<1>14. SortOf(t, Y)
  BY <1>0, <1>10, <1>12, <1>13 DEF SortOf
<1> QED
  BY <1>14 DEF Y

(* Entries that start apart can be sorted. *)
LEMMA SortExists ==
  ASSUME NEW X \in Seq(Entry), Distinct(X)
  PROVE  \E t : SortOf(t, X)
<1> DEFINE U == {n \in Nat : \A Y \in Seq(Entry) : Len(Y) = n /\ Distinct(Y) => \E t : SortOf(t, Y)}
<1>1. 0 \in U
  <2> SUFFICES ASSUME NEW Y \in Seq(Entry), Len(Y) = 0 PROVE \E t : SortOf(t, Y)
    OBVIOUS
  <2>1. DOMAIN Y = 1 .. Len(Y) /\ Y \in [1 .. Len(Y) -> Range(Y)]
    BY DEF Range
  <2>2. SortOf(Y, Y)
    BY <2>1 DEF SortOf
  <2> QED BY <2>2
<1>2. ASSUME NEW n \in Nat, n \in U PROVE n + 1 \in U
  <2> SUFFICES ASSUME NEW Y \in Seq(Entry), Len(Y) = n + 1, Distinct(Y) PROVE \E t : SortOf(t, Y)
    OBVIOUS
  <2>1. PICK W : W = SubSeq(Y, 1, n)
    OBVIOUS
  <2>2. PICK e : e = Y[n + 1]
    OBVIOUS
  <2>3. W \in Seq(Entry) /\ Len(W) = n /\ e \in Entry /\ \A i \in 1 .. n : W[i] = Y[i]
    BY <2>1, <2>2
  <2>4. Y = Append(W, e)
    BY <2>1, <2>2
  <2>5. Distinct(W) /\ \A i \in 1 .. Len(W) : W[i].start # e.start
    BY <2>2, <2>3 DEF Distinct
  <2>6. PICK s : SortOf(s, W)
    BY <1>2, <2>3, <2>5
  <2>7. \E t : SortOf(t, Append(W, e))
    BY <2>3, <2>5, <2>6, Insert
  <2> QED
    BY <2>4, <2>7
<1>3. Nat \subseteq U
  <2> HIDE DEF U
  <2> QED BY <1>1, <1>2, InductiveSet
<1> QED
  BY <1>3

(* SortEntries sorts. *)
LEMMA Sorted ==
  ASSUME NEW X \in Seq(Entry), Distinct(X)
  PROVE  SortOf(SortEntries(X), X)
<1> DEFINE Q(s) == /\ Range(s) = Range(X)
                   /\ \A i, j \in DOMAIN X : i < j => Before(s[i], s[j])
<1>1. DOMAIN X = 1 .. Len(X)
  OBVIOUS
<1>2. \E s \in [DOMAIN X -> Range(X)] : Q(s)
  BY <1>1, SortExists DEF SortOf
<1>3. SortEntries(X) = CHOOSE s \in [DOMAIN X -> Range(X)] : Q(s)
  BY DEF SortEntries
<1>4. SortEntries(X) \in [DOMAIN X -> Range(X)] /\ Q(SortEntries(X))
  <2> HIDE DEF Q
  <2> QED BY <1>2, <1>3
<1> QED
  BY <1>1, <1>4 DEF SortOf

-----------------------------------------------------------------------------
(* Building an index. *)

Building(X, B, n, G) == Indexes(X, B, n, G) /\ InBufferOrder(X) /\ ReachesEnd(X, B, n, G)

(* An empty index is right for no records. *)
LEMMA BuildingStarts ==
  ASSUME NEW B, NEW G
  PROVE  Building(<<>>, B, 0, G)
BY DEF Building, Indexes, InBufferOrder, ReachesEnd

(* Only the records that are indexed matter. *)
LEMMA BuildingSame ==
  ASSUME NEW X, NEW B, NEW C, NEW n \in Nat, NEW G, Building(X, B, n, G),
         \A p \in 1 .. n : C[p] = B[p]
  PROVE  Building(X, C, n, G)
<1>0. X \in Seq(Entry) /\ DOMAIN X = 1 .. Len(X)
  BY DEF Building, Indexes
<1>1. \A i \in 1 .. Len(X) : X[i].start \in Nat /\ X[i].end \in Nat
  BY <1>0, EntryParts
<1>2. ASSUME NEW i \in DOMAIN X, NEW p \in X[i].start + 1 .. X[i].end PROVE C[p].num = X[i].num
  <2>1. X[i].end <= n /\ B[p].num = X[i].num
    BY DEF Building, Indexes
  <2>2. p \in 1 .. n
    BY <1>0, <1>1, <2>1
  <2> QED
    BY <2>1, <2>2
<1>3. \A p \in 1 .. n : C[p].num \in G => \E i \in DOMAIN X : X[i].start < p /\ p <= X[i].end
  BY DEF Building, Indexes
<1>4. Indexes(X, C, n, G)
  BY <1>2, <1>3 DEF Building, Indexes
<1>5. ReachesEnd(X, C, n, G)
  <2>1. n > 0 => C[n] = B[n]
    OBVIOUS
  <2> QED
    BY <2>1 DEF Building, ReachesEnd
<1> QED
  BY <1>4, <1>5 DEF Building

(* A record of another field is passed over. *)
LEMMA BuildingSkips ==
  ASSUME NEW X, NEW B, NEW n \in Nat, NEW G, Building(X, B, n, G), B[n + 1].num \notin G
  PROVE  Building(X, B, n + 1, G)
<1>0. X \in Seq(Entry) /\ DOMAIN X = 1 .. Len(X)
  BY DEF Building, Indexes
<1>1. \A i \in 1 .. Len(X) : X[i].start \in Nat /\ X[i].end \in Nat
  BY <1>0, EntryParts
<1>2. ASSUME NEW i \in DOMAIN X PROVE X[i].end <= n + 1
  BY <1>0, <1>1 DEF Building, Indexes
<1>3. ASSUME NEW p \in 1 .. n + 1, B[p].num \in G
      PROVE  \E i \in DOMAIN X : X[i].start < p /\ p <= X[i].end
  <2>1. p \in 1 .. n
    BY <1>3
  <2> QED
    BY <2>1, <1>3 DEF Building, Indexes
<1>4. Indexes(X, B, n + 1, G)
  BY <1>2, <1>3 DEF Building, Indexes
<1> QED
  BY <1>4 DEF Building, ReachesEnd

(* A record of an indexed field makes a new entry or prolongs the last. *)
LEMMA BuildingAdds ==
  ASSUME NEW X, NEW B \in Seq(Record), NEW n \in Nat, NEW G, G \subseteq Fields,
         Building(X, B, n, G), n < Len(B), n < MaxRecords, B[n + 1].num \in G
  PROVE  Building(AddEntry(X, NumAt(B, n), B[n + 1].num, n, n + 1), B, n + 1, G)
<1> DEFINE m == Len(X)
<1>0. X \in Seq(Entry) /\ DOMAIN X = 1 .. m /\ m \in Nat
  BY DEF Building, Indexes
<1>1. \A i \in 1 .. m : X[i].start \in Nat /\ X[i].end \in Nat /\ X[i] \in Entry
  BY <1>0, EntryParts
<1>2. ASSUME NEW i \in 1 .. m
      PROVE  /\ X[i].num \in G /\ X[i].start < X[i].end /\ X[i].end <= n
             /\ \A p \in X[i].start + 1 .. X[i].end : B[p].num = X[i].num
  BY <1>0 DEF Building, Indexes
<1>3. \A p \in 1 .. n : B[p].num \in G => \E i \in 1 .. m : X[i].start < p /\ p <= X[i].end
  BY <1>0 DEF Building, Indexes
<1>4. \A i, j \in 1 .. m : i < j => X[i].end <= X[j].start
  BY <1>0 DEF Building, InBufferOrder
<1>5. PICK num : num = B[n + 1].num
  OBVIOUS
<1>6. num \in G /\ num \in Fields /\ num # 0
  BY <1>5, FieldsAssumption DEF Fields
<1>7. PICK Y : Y = AddEntry(X, NumAt(B, n), num, n, n + 1)
  OBVIOUS
<1>8. CASE num # NumAt(B, n)
  <2>1. PICK e : e = [num |-> num, start |-> n, end |-> n + 1, multi |-> FALSE]
    OBVIOUS
  <2>2. e \in Entry /\ e.num = num /\ e.start = n /\ e.end = n + 1
    BY <2>1, <1>6, FieldsAssumption DEF Entry
  <2>3. Y = Append(X, e)
    BY <1>7, <1>8, <2>1 DEF AddEntry
  <2>4. /\ Y \in Seq(Entry) /\ Len(Y) = m + 1 /\ DOMAIN Y = 1 .. m + 1
        /\ Y[m + 1] = e /\ \A i \in 1 .. m : Y[i] = X[i]
    BY <1>0, <2>2, <2>3
  <2>5. ASSUME NEW i \in 1 .. m + 1
        PROVE  /\ Y[i].num \in G /\ Y[i].start < Y[i].end /\ Y[i].end <= n + 1
               /\ \A p \in Y[i].start + 1 .. Y[i].end : B[p].num = Y[i].num
    <3>1. CASE i = m + 1
      <4>1. \A p \in n + 1 .. n + 1 : B[p].num = num
        BY <1>5
      <4> QED BY <3>1, <4>1, <2>2, <2>4, <1>6
    <3>2. CASE i \in 1 .. m
      BY <3>2, <2>4, <1>1, <1>2
    <3> QED BY <3>1, <3>2, <1>0
  <2>6. ASSUME NEW p \in 1 .. n + 1, B[p].num \in G
        PROVE  \E i \in 1 .. m + 1 : Y[i].start < p /\ p <= Y[i].end
    <3>1. CASE p = n + 1
      <4>1. m + 1 \in 1 .. m + 1 /\ Y[m + 1].start < p /\ p <= Y[m + 1].end
        BY <3>1, <2>2, <2>4, <1>0
      <4> QED BY <4>1
    <3>2. CASE p \in 1 .. n
      <4>1. PICK i \in 1 .. m : X[i].start < p /\ p <= X[i].end
        BY <1>3, <2>6, <3>2
      <4>2. i \in 1 .. m + 1 /\ Y[i] = X[i]
        BY <2>4, <1>0
      <4> QED BY <4>1, <4>2
    <3> QED BY <3>1, <3>2
  <2>7. ASSUME NEW i \in 1 .. m + 1, NEW j \in 1 .. m + 1, i < j PROVE Y[i].end <= Y[j].start
    <3>1. i \in 1 .. m /\ Y[i] = X[i]
      BY <2>4, <2>7, <1>0
    <3>2. CASE j = m + 1
      BY <3>1, <3>2, <1>2, <2>2, <2>4
    <3>3. CASE j \in 1 .. m
      BY <3>1, <3>3, <1>4, <2>4, <2>7
    <3> QED BY <3>2, <3>3, <1>0
  <2>8. Indexes(Y, B, n + 1, G)
    BY <2>4, <2>5, <2>6 DEF Indexes
  <2>9. InBufferOrder(Y)
    BY <2>4, <2>7 DEF InBufferOrder
  <2>10. ReachesEnd(Y, B, n + 1, G)
    BY <2>4, <2>2, <1>0 DEF ReachesEnd
  <2> QED
    BY <1>5, <1>7, <2>8, <2>9, <2>10 DEF Building
<1>9. CASE num = NumAt(B, n)
  <2>1. n > 0 /\ B[n].num = num
    BY <1>6, <1>9 DEF NumAt
  <2>2. X # <<>> /\ X[m].end = n
    BY <2>1, <1>6 DEF Building, ReachesEnd
  <2>3. m \in 1 .. m
    BY <2>2, <1>0
  <2>4. X[m].num = num
    <3>1. n \in X[m].start + 1 .. X[m].end
      BY <2>2, <2>3, <1>1, <1>2
    <3> QED BY <3>1, <2>1, <2>3, <1>2
  <2>5. PICK e : e = [X[m] EXCEPT !.end = n + 1, !.multi = TRUE]
    OBVIOUS
  <2>6. e \in Entry /\ e.num = num /\ e.start = X[m].start /\ e.end = n + 1
    <3>1. X[m] \in Entry /\ n + 1 \in 0 .. MaxRecords
      BY <2>3, <1>1, FieldsAssumption
    <3> QED BY <3>1, <2>4, <2>5 DEF Entry
  <2>7. Y = [X EXCEPT ![m] = e]
    BY <1>0, <1>7, <1>9, <2>3, <2>5 DEF AddEntry
  <2>8. /\ Y \in Seq(Entry) /\ Len(Y) = m /\ DOMAIN Y = 1 .. m
        /\ Y[m] = e /\ \A i \in 1 .. m : i # m => Y[i] = X[i]
    BY <1>0, <2>3, <2>6, <2>7
  <2>9. ASSUME NEW i \in 1 .. m
        PROVE  /\ Y[i].num \in G /\ Y[i].start < Y[i].end /\ Y[i].end <= n + 1
               /\ \A p \in Y[i].start + 1 .. Y[i].end : B[p].num = Y[i].num
    <3>1. CASE i = m
      <4>1. X[m].start < n + 1
        BY <1>1, <1>2, <2>3, SMTT(60)
      <4>2. ASSUME NEW p \in X[m].start + 1 .. n + 1 PROVE B[p].num = num
        <5>1. CASE p = n + 1
          BY <5>1, <1>5
        <5>2. CASE p # n + 1
          <6>1. p \in X[m].start + 1 .. X[m].end
            BY <5>2, <2>2, <2>3, <1>1
          <6> QED BY <6>1, <2>3, <2>4, <1>2
        <5> QED BY <5>1, <5>2
      <4> QED BY <3>1, <4>1, <4>2, <2>6, <2>8, <1>6
    <3>2. CASE i # m
      <4>1. Y[i] = X[i]
        BY <3>2, <2>8
      <4>2. X[i].end <= n + 1
        BY <1>1, <1>2
      <4> QED BY <4>1, <4>2, <1>2
    <3> QED BY <3>1, <3>2
  <2>10. ASSUME NEW p \in 1 .. n + 1, B[p].num \in G
         PROVE  \E i \in 1 .. m : Y[i].start < p /\ p <= Y[i].end
    <3>1. CASE p = n + 1
      <4>1. X[m].start < n + 1
        BY <1>1, <1>2, <2>3
      <4>2. Y[m].start = X[m].start /\ Y[m].end = n + 1
        BY <2>6, <2>8, Zenon
      <4>3. Y[m].start < p /\ p <= Y[m].end
        BY <3>1, <4>1, <4>2
      <4> QED BY <4>3, <2>3
    <3>2. CASE p \in 1 .. n
      <4>1. PICK i \in 1 .. m : X[i].start < p /\ p <= X[i].end
        BY <1>3, <2>10, <3>2
      <4>2. CASE i = m
        BY <4>1, <4>2, <3>2, <2>3, <2>6, <2>8
      <4>3. CASE i # m
        BY <4>1, <4>3, <2>8
      <4> QED BY <4>2, <4>3
    <3> QED BY <3>1, <3>2
  <2>11. ASSUME NEW i \in 1 .. m, NEW j \in 1 .. m, i < j PROVE Y[i].end <= Y[j].start
    <3>1. i # m /\ Y[i] = X[i] /\ X[i].end <= X[j].start
      <4>0. \A k \in Nat : \A u, v \in 1 .. k : u < v => u # k
        OBVIOUS
      <4>1. i # m
        BY <4>0, <2>11, <1>0, Zenon
      <4> QED BY <4>1, <2>8, <2>11, <1>4
    <3>2. Y[j].start = X[j].start
      BY <2>6, <2>8
    <3> QED BY <3>1, <3>2
  <2>12. Indexes(Y, B, n + 1, G)
    BY <2>8, <2>9, <2>10 DEF Indexes
  <2>13. InBufferOrder(Y)
    BY <2>8, <2>11 DEF InBufferOrder
  <2>14. ReachesEnd(Y, B, n + 1, G)
    <3>1. Y # <<>> /\ Y[Len(Y)].end = n + 1
      <4>1. Len(Y) # 0 /\ Y[Len(Y)] = e
        <5>1. \A k \in Nat : k \in 1 .. k => k # 0
          OBVIOUS
        <5> QED BY <5>1, <1>0, <2>3, <2>8, Zenon
      <4>2. \A s : s = <<>> => Len(s) = 0
        OBVIOUS
      <4> QED BY <4>1, <4>2, <2>6, Zenon
    <3> QED BY <3>1 DEF ReachesEnd
  <2> QED
    BY <1>5, <1>7, <2>12, <2>13, <2>14 DEF Building
<1> QED BY <1>8, <1>9

(* Stretches in buffer order start apart and do not overlap. *)
LEMMA BuiltApart ==
  ASSUME NEW X, NEW B, NEW n \in Nat, NEW G, Building(X, B, n, G)
  PROVE  Distinct(X) /\ Apart(X)
<1>0. X \in Seq(Entry) /\ DOMAIN X = 1 .. Len(X)
  BY DEF Building, Indexes
<1>1. \A i \in 1 .. Len(X) : X[i].start \in Nat /\ X[i].end \in Nat /\ X[i].start < X[i].end
  BY <1>0, EntryParts DEF Building, Indexes
<1>2. \A i, j \in 1 .. Len(X) : i < j => X[i].end <= X[j].start
  BY <1>0 DEF Building, InBufferOrder
<1>3. ASSUME NEW i \in 1 .. Len(X), NEW j \in 1 .. Len(X), i # j PROVE X[i].start # X[j].start
  <2>1. i < j \/ j < i
    BY <1>3
  <2> QED
    BY <2>1, <1>1, <1>2
<1>4. ASSUME NEW i \in 1 .. Len(X), NEW j \in 1 .. Len(X), X[i].start < X[j].start
      PROVE  X[i].end <= X[j].start
  <2>1. i < j \/ j < i \/ i = j
    OBVIOUS
  <2>2. ~(j < i)
    BY <1>1, <1>2, <1>4
  <2>3. i # j
    BY <1>1, <1>4
  <2> QED
    BY <2>1, <2>2, <2>3, <1>2
<1> QED
  BY <1>3, <1>4 DEF Distinct, Apart

(* A sorted index finds the records of a field, *)
LEMMA SortedFinds ==
  ASSUME NEW X, NEW B \in Seq(Record), NEW G, G \subseteq Fields, Building(X, B, Len(B), G)
  PROVE  /\ SortEntries(X) \in Seq(Entry)
         /\ \A f \in G : RawField(SortEntries(X), B, f) = Selected(B, OfField(f))
<1>0. X \in Seq(Entry) /\ DOMAIN X = 1 .. Len(X) /\ Len(B) \in Nat /\ Len(X) \in Nat
  BY DEF Building, Indexes
<1>1. Distinct(X) /\ Apart(X)
  BY <1>0, BuiltApart
<1>2. PICK t : t = SortEntries(X)
  OBVIOUS
<1>3. SortOf(t, X)
  BY <1>0, <1>1, <1>2, Sorted
<1>4. PICK m \in Nat : m = Len(X)
  BY <1>0
<1>5. \A x : x \in Range(X) <=> \E k \in 1 .. m : x = X[k]
  BY <1>0, <1>4 DEF Range
<1>6. \A k \in 1 .. m : X[k] \in Entry
  BY <1>0, <1>4
<1>7. t \in [1 .. m -> Entry]
  <2>1. t \in [1 .. m -> Range(X)]
    BY <1>3, <1>4 DEF SortOf
  <2>2. \A x \in Range(X) : x \in Entry
    BY <1>5, <1>6
  <2> QED
    BY <2>1, <2>2
<1>8. t \in Seq(Entry) /\ Len(t) = m /\ DOMAIN t = 1 .. m
  BY <1>7
<1>9. ASSUME NEW i \in 1 .. m PROVE \E k \in 1 .. m : t[i] = X[k]
  <2>1. t[i] \in Range(X)
    BY <1>3, <1>4 DEF SortOf
  <2> QED
    BY <2>1, <1>5
<1>10. ASSUME NEW k \in 1 .. m PROVE \E i \in 1 .. m : t[i] = X[k]
  <2>1. X[k] \in Range(t)
    BY <1>3, <1>5 DEF SortOf
  <2> QED
    BY <2>1, <1>8 DEF Range
<1>11. Ordered(t)
  BY <1>3, <1>4, <1>8 DEF SortOf, Ordered
<1>12. Apart(t)
  <2> SUFFICES ASSUME NEW i \in 1 .. m, NEW j \in 1 .. m, t[i].start < t[j].start
               PROVE  t[i].end <= t[j].start
    BY <1>8 DEF Apart
  <2>1. PICK k \in 1 .. m, l \in 1 .. m : t[i] = X[k] /\ t[j] = X[l]
    BY <1>9
  <2> QED
    BY <2>1, <1>1, <1>4 DEF Apart
<1>13. Indexes(t, B, Len(B), G)
  <2>1. ASSUME NEW i \in 1 .. m
        PROVE  /\ t[i].num \in G /\ t[i].start < t[i].end /\ t[i].end <= Len(B)
               /\ \A p \in t[i].start + 1 .. t[i].end : B[p].num = t[i].num
    <3>1. PICK k \in 1 .. m : t[i] = X[k]
      BY <1>9
    <3>2. /\ X[k].num \in G /\ X[k].start < X[k].end /\ X[k].end <= Len(B)
          /\ \A p \in X[k].start + 1 .. X[k].end : B[p].num = X[k].num
      BY <1>0, <1>4 DEF Building, Indexes
    <3> QED
      BY <3>1, <3>2
  <2>2. ASSUME NEW p \in 1 .. Len(B), B[p].num \in G
        PROVE  \E i \in 1 .. m : t[i].start < p /\ p <= t[i].end
    <3>1. PICK k \in 1 .. m : X[k].start < p /\ p <= X[k].end
      BY <2>2, <1>0, <1>4 DEF Building, Indexes
    <3>2. PICK i \in 1 .. m : t[i] = X[k]
      BY <1>10
    <3> QED
      BY <3>1, <3>2
  <2> QED
    BY <1>8, <2>1, <2>2 DEF Indexes
<1>14. ASSUME NEW f \in G PROVE RawField(t, B, f) = Selected(B, OfField(f))
  <2>1. f \in Fields
    OBVIOUS
  <2> QED
    BY <2>1, <1>11, <1>12, <1>13, RawFieldFinds
<1> QED
  BY <1>2, <1>8, <1>14

(* and so does one that was built from a buffer in order. *)
LEMMA InOrderFinds ==
  ASSUME NEW X, NEW B \in Seq(Record), NEW G, G \subseteq Fields, Building(X, B, Len(B), G),
         \A p, q \in 1 .. Len(B) : p < q => B[p].num <= B[q].num
  PROVE  \A f \in G : RawField(X, B, f) = Selected(B, OfField(f))
<1>0. X \in Seq(Entry) /\ DOMAIN X = 1 .. Len(X) /\ Len(B) \in Nat /\ Len(X) \in Nat
  BY DEF Building, Indexes
<1>1. Distinct(X) /\ Apart(X) /\ Indexes(X, B, Len(B), G)
  BY <1>0, BuiltApart DEF Building
<1>2. Ordered(X)
  <2> SUFFICES ASSUME NEW i \in 1 .. Len(X), NEW j \in 1 .. Len(X), i < j PROVE Before(X[i], X[j])
    BY DEF Ordered
  <2>1. X[i].start \in Nat /\ X[i].end \in Nat /\ X[j].start \in Nat /\ X[j].end \in Nat
    BY <1>0, EntryParts
  <2>2. X[i].num \in Nat /\ X[j].num \in Nat
    <3>1. \A x \in Fields : x \in Nat
      BY FieldsAssumption DEF Fields
    <3> QED BY <3>1, <1>0, EntryParts
  <2>3. /\ X[i].start < X[i].end /\ X[i].end <= Len(B)
        /\ \A p \in X[i].start + 1 .. X[i].end : B[p].num = X[i].num
    BY <1>0, <1>1 DEF Indexes
  <2>4. /\ X[j].start < X[j].end /\ X[j].end <= Len(B)
        /\ \A p \in X[j].start + 1 .. X[j].end : B[p].num = X[j].num
    BY <1>0, <1>1 DEF Indexes
  <2>5. X[i].end <= X[j].start
    BY <1>0 DEF Building, InBufferOrder
  <2>6. PICK p \in 1 .. Len(B), q \in 1 .. Len(B) : p = X[i].start + 1 /\ q = X[j].start + 1
    <3>1. X[i].start + 1 \in 1 .. Len(B) /\ X[j].start + 1 \in 1 .. Len(B)
      BY <1>0, <2>1, <2>3, <2>4
    <3> QED BY <3>1
  <2>7. B[p].num = X[i].num /\ B[q].num = X[j].num /\ p < q /\ X[i].start < X[j].start
    <3>1. p \in X[i].start + 1 .. X[i].end /\ q \in X[j].start + 1 .. X[j].end
      BY <2>1, <2>3, <2>4, <2>6
    <3>2. p < q /\ X[i].start < X[j].start
      BY <2>1, <2>3, <2>5, <2>6
    <3> QED BY <2>3, <2>4, <3>1, <3>2
  <2>8. X[i].num <= X[j].num
    BY <2>7
  <2> QED
    BY <2>2, <2>7, <2>8 DEF Before
<1>3. ASSUME NEW f \in G PROVE RawField(X, B, f) = Selected(B, OfField(f))
  <2>1. f \in Fields
    OBVIOUS
  <2> QED
    BY <2>1, <1>1, <1>2, RawFieldFinds
<1> QED
  BY <1>3

(* The parts of a record. *)
LEMMA RecordParts ==
  ASSUME NEW B \in Seq(Record), NEW i \in 1 .. Len(B)
  PROVE  /\ B[i] \in Record /\ B[i].num \in Fields /\ B[i].num \in Nat
         /\ B[i].cls \in AllClasses /\ B[i].at \in 1 .. MaxRecords
<1>1. B[i] \in Record
  OBVIOUS
<1>2. \A x \in Fields : x \in Nat
  BY FieldsAssumption DEF Fields
<1>3. \A r \in Record : r.num \in Fields /\ r.cls \in AllClasses /\ r.at \in 1 .. MaxRecords
  BY DEF Record
<1> QED
  BY <1>1, <1>2, <1>3, Zenon

-----------------------------------------------------------------------------
(* What the steps have in common. *)

(* The parts of the type invariant that most steps use. *)
LEMMA Types ==
  ASSUME TypeOK
  PROVE  /\ lazy.buffer \in Seq(Record) /\ lazy.index \in Seq(Entry) /\ lazy.checked \in BOOLEAN
         /\ lazy = [buffer |-> lazy.buffer, index |-> lazy.index, checked |-> lazy.checked]
         /\ \A f \in Fields : ptr[f] \in Seq(Record) /\ want[f] \in Seq(Record) /\ lost[f] \in Nat
         /\ opts.mode \in Modes /\ opts.allowPartial \in BOOLEAN /\ opts.group \in BOOLEAN
         /\ opts.group => opts.mode = "default"
         /\ DOMAIN lazy.buffer = 1 .. Len(lazy.buffer) /\ Len(lazy.buffer) \in Nat
         /\ records \in Nat /\ calls \in Nat /\ records <= MaxRecords
BY FieldsAssumption DEF TypeOK, Options

(* Constants. *)
LEMMA Constants ==
  /\ LazyFields \subseteq Fields /\ PlainFields \subseteq Fields /\ MaxRecords \in Nat /\ MaxCalls \in Nat
  /\ \A f \in Fields : f \in Nat /\ f # 0 /\ (f \in PlainFields <=> f \notin LazyFields)
BY FieldsAssumption DEF Fields

(* Decoding a field of a buffer. *)
LEMMA FieldDecoded ==
  ASSUME NEW B \in Seq(Record), NEW f
  PROVE  /\ UnmarshalField(B, f) \in Seq(Record)
         /\ UnmarshalField(Selected(B, OfField(f)), f) = UnmarshalField(B, f)
<1> DEFINE T == {r \in Record : r.num = f /\ r.cls # "wrongtype"}
<1>1. T \subseteq OfField(f)
  BY DEF OfField
<1>2. Selected(B, T) \in Seq(Record)
  BY SelectedType
<1>3. Selected(Selected(B, OfField(f)), T) = Selected(B, T)
  <2> HIDE DEF T
  <2> QED BY <1>1, SelectedTwice
<1> QED
  BY <1>2, <1>3 DEF UnmarshalField

(* Decoding a field of a buffer with one more record. *)
LEMMA FieldDecodedMore ==
  ASSUME NEW B \in Seq(Record), NEW f, NEW r \in Record
  PROVE  UnmarshalField(Append(B, r), f)
            = IF r.num = f /\ r.cls # "wrongtype"
              THEN Append(UnmarshalField(B, f), r) ELSE UnmarshalField(B, f)
<1> DEFINE T == {x \in Record : x.num = f /\ x.cls # "wrongtype"}
<1>1. Selected(Append(B, r), T) = IF r \in T THEN Append(Selected(B, T), r) ELSE Selected(B, T)
  <2> HIDE DEF T
  <2> QED BY SelectedAppend
<1> QED
  BY <1>1 DEF UnmarshalField

(* A settled message decodes a lazy field from the whole buffer. *)
LEMMA SettledDecode ==
  ASSUME TypeOK, IndexStored, Settled, NEW f \in LazyFields
  PROVE  LazyUnmarshal(lazy, f) = UnmarshalField(lazy.buffer, f) /\ LazyUnmarshal(lazy, f) \in Seq(Record)
<1>1. RawField(lazy.index, lazy.buffer, f) = Selected(lazy.buffer, OfField(f))
  BY DEF IndexStored
<1> QED
  BY <1>1, Types, FieldDecoded DEF LazyUnmarshal

(* The index that the end of a lazy call stores finds every record. *)
LEMMA StoredFinds ==
  ASSUME TypeOK, IndexSoFar, Scanning(TRUE)
  PROVE  /\ StoredIndex \in Seq(Entry)
         /\ \A f \in LazyFields : RawField(StoredIndex, lazy.buffer, f) = Selected(lazy.buffer, OfField(f))
<1>0. PICK B \in Seq(Record) : B = lazy.buffer
  BY Types
<1>1. PICK X : B = lazy.buffer /\ X = lazyIndex
  BY <1>0
<1>2. Building(X, B, Len(B), LazyFields)
  BY <1>1 DEF IndexSoFar, Building
<1>3. LazyFields \subseteq Fields
  BY Constants
<1>4. X \in Seq(Entry)
  BY <1>1 DEF TypeOK
<1>5. CASE outOfOrder
  <2>1. StoredIndex = SortEntries(X)
    BY <1>1, <1>5 DEF StoredIndex
  <2>2. /\ SortEntries(X) \in Seq(Entry)
        /\ \A f \in LazyFields : RawField(SortEntries(X), B, f) = Selected(B, OfField(f))
    BY <1>2, <1>3, SortedFinds
  <2> QED
    BY <1>1, <2>1, <2>2
<1>6. CASE ~outOfOrder
  <2>1. StoredIndex = X
    BY <1>1, <1>6 DEF StoredIndex
  <2>2. \A p, q \in 1 .. Len(B) : p < q => B[p].num <= B[q].num
    BY <1>1, <1>6 DEF IndexSoFar
  <2>3. \A f \in LazyFields : RawField(X, B, f) = Selected(B, OfField(f))
    BY <1>2, <1>3, <2>2, InOrderFinds
  <2> QED
    BY <1>1, <1>4, <2>1, <2>3
<1> QED BY <1>5, <1>6

(* The record of a step is new. *)
LEMMA NewRecord ==
  ASSUME TypeOK, NEW f \in Fields, NEW c \in Classes, NEW r,
         r = [num |-> f, cls |-> c, at |-> records + 1], Step(r)
  PROVE  /\ r \in Record /\ r.num \in Fields /\ r.num \in Nat /\ r.cls \in AllClasses
         /\ r.at = records + 1 /\ records < MaxRecords /\ status = "scan"
<1>1. records \in Nat /\ records < MaxRecords /\ MaxRecords \in Nat /\ status = "scan"
  BY Types, FieldsAssumption DEF Step
<1>2. c \in AllClasses /\ f \in Nat
  BY ClassesAssumption, Constants
<1>3. records + 1 \in 1 .. MaxRecords
  BY <1>1
<1> QED
  BY <1>1, <1>2, <1>3 DEF Record

(* The buffer after a record. *)
LEMMA AdvanceBuffer ==
  ASSUME TypeOK, Serials, NEW r \in Record, Advance(r), records < MaxRecords
  PROVE  /\ lazyDecode => lazy'.buffer = Append(lazy.buffer, r)
         /\ ~lazyDecode => lazy'.buffer = lazy.buffer
         /\ lazy'.index = lazy.index /\ lazy'.checked = lazy.checked
         /\ lazy' \in [buffer : Seq(Record), index : Seq(Entry), checked : BOOLEAN]
         /\ lazy'.buffer \in Seq(Record) /\ Len(lazy'.buffer) <= records + 1
         /\ ~lazyDecode => lazy' = lazy /\ lazyIndex' = lazyIndex
<1>1. CASE lazyDecode
  <2>1. lazy' = [lazy EXCEPT !.buffer = Append(@, r)]
    BY <1>1 DEF Advance
  <2>2. PICK b : b = Append(lazy.buffer, r)
    OBVIOUS
  <2>3. b \in Seq(Record) /\ Len(b) = Len(lazy.buffer) + 1
    BY <2>2, Types
  <2>4. lazy' = [buffer |-> b, index |-> lazy.index, checked |-> lazy.checked]
    BY <2>1, <2>2, Types
  <2>5. Len(b) <= records + 1
    BY <2>3, Types DEF Serials
  <2> QED
    BY <1>1, <2>2, <2>3, <2>4, <2>5, Types
<1>2. CASE ~lazyDecode
  <2>1. lazy' = lazy /\ lazyIndex' = lazyIndex
    BY <1>2 DEF Advance
  <2> QED
    BY <1>2, <2>1, Types DEF Serials, TypeOK
<1> QED BY <1>1, <1>2

(* The index under construction after a record. *)
LEMMA AdvanceIndex ==
  ASSUME TypeOK, Serials, IndexSoFar, Scanning(TRUE), NEW r \in Record, Advance(r), records < MaxRecords
  PROVE  /\ Building(lazyIndex', lazy'.buffer, Len(lazy'.buffer), LazyFields)
         /\ lastNum' = NumAt(lazy'.buffer, Len(lazy'.buffer)) /\ lastNum' = r.num
         /\ outOfOrder' \in BOOLEAN
         /\ ~outOfOrder' => \A p, q \in 1 .. Len(lazy'.buffer) :
                                p < q => lazy'.buffer[p].num <= lazy'.buffer[q].num
<1>0. PICK B \in Seq(Record), n \in Nat : B = lazy.buffer /\ n = Len(B)
  BY Types
<1>1. PICK X : B = lazy.buffer /\ X = lazyIndex /\ n = Len(B)
  BY <1>0
<1>2. Building(X, B, n, LazyFields) /\ lastNum = NumAt(B, n)
  BY <1>1 DEF IndexSoFar, Building
<1>3. PICK C : C = Append(B, r)
  OBVIOUS
<1>4. /\ C \in Seq(Record) /\ Len(C) = n + 1 /\ C[n + 1] = r /\ \A p \in 1 .. n : C[p] = B[p]
  BY <1>1, <1>3
<1>5. lazy'.buffer = C
  BY <1>1, <1>3, AdvanceBuffer DEF Scanning
<1>6. Building(X, C, n, LazyFields)
  BY <1>2, <1>4, BuildingSame
<1>7. n <= records /\ n < MaxRecords /\ n < Len(C) /\ r.num \in Fields /\ r.num \in Nat
  <2>1. r.num \in Fields
    BY DEF Record
  <2>2. n <= records
    BY <1>1 DEF Serials
  <2> QED
    BY <1>4, <2>1, <2>2, Types, Constants
<1>8. NumAt(C, n) = lastNum /\ NumAt(C, n + 1) = r.num
  <2>1. n # 0 => C[n] = B[n]
    BY <1>4
  <2> QED
    BY <1>2, <1>4, <2>1 DEF NumAt
<1>9. Building(lazyIndex', C, n + 1, LazyFields)
  <2>1. CASE r.num \in LazyFields
    <3>1. lazyIndex' = AddEntry(X, lastNum, r.num, n, n + 1)
      BY <2>1, <1>1 DEF Advance, Scanning
    <3>2. C[n + 1].num = r.num /\ LazyFields \subseteq Fields
      BY <1>4, Constants
    <3>3. Building(AddEntry(X, NumAt(C, n), C[n + 1].num, n, n + 1), C, n + 1, LazyFields)
      BY <2>1, <3>2, <1>4, <1>6, <1>7, BuildingAdds
    <3> QED
      BY <3>1, <3>2, <3>3, <1>8
  <2>2. CASE r.num \notin LazyFields
    <3>1. lazyIndex' = X
      BY <2>2, <1>1 DEF Advance
    <3>2. C[n + 1].num \notin LazyFields
      BY <2>2, <1>4
    <3> QED
      BY <3>1, <3>2, <1>6, BuildingSkips
  <2> QED BY <2>1, <2>2
<1>10. lastNum' = r.num /\ outOfOrder' = (outOfOrder \/ r.num < lastNum)
  BY DEF Advance
<1>11. ASSUME ~outOfOrder', NEW p \in 1 .. n + 1, NEW q \in 1 .. n + 1, p < q
       PROVE  C[p].num <= C[q].num
  <2>1. ~outOfOrder /\ ~(r.num < lastNum)
    BY <1>10, <1>11
  <2>2. \A i, j \in 1 .. n : i < j => B[i].num <= B[j].num
    BY <2>1, <1>1 DEF IndexSoFar
  <2>3. CASE q <= n
    BY <2>2, <2>3, <1>4, <1>11
  <2>4. CASE q = n + 1
    <3>1. p \in 1 .. n /\ n \in 1 .. n /\ (p = n \/ p < n)
      BY <2>4, <1>11
    <3>2. B[p].num <= B[n].num
      <4>1. B[n].num \in Nat
        BY <1>1, <3>1, RecordParts
      <4> QED
        BY <4>1, <3>1, <2>2
    <3>3. B[n].num = lastNum /\ B[n].num \in Nat /\ B[p].num \in Nat
      BY <1>1, <1>2, <3>1, RecordParts DEF NumAt
    <3>4. B[p].num <= r.num
      BY <3>2, <3>3, <2>1, <1>7
    <3> QED
      BY <3>1, <3>4, <2>4, <1>4
  <2> QED BY <2>3, <2>4
<1>12. outOfOrder' \in BOOLEAN
  BY <1>10
<1> QED
  BY <1>4, <1>5, <1>8, <1>9, <1>10, <1>11, <1>12

(* What the records of an eager call are decoded into. *)
LEMMA ExistingType ==
  ASSUME TypeOK, IndexStored, status = "scan", NEW f \in Fields
  PROVE  Existing(f) \in Seq(Record)
<1>1. CASE f \in LazyFields /\ ~lazyDecode
  <2>1. Settled
    BY <1>1 DEF Settled, Scanning, TypeOK
  <2> QED
    BY <1>1, <2>1, SettledDecode, Types DEF Existing
<1>2. CASE ~(f \in LazyFields /\ ~lazyDecode)
  BY <1>2, Types DEF Existing
<1> QED BY <1>1, <1>2

(* What the reference does with a record. *)
LEMMA ReferenceTypes ==
  ASSUME TypeOK, Serials, NEW r \in Record, Reference(r), r.num \in Fields, r.at = records + 1
  PROVE  /\ want' \in [Fields -> Seq(Record)] /\ wantUnknown' \in Seq(Record) /\ failed' \in BOOLEAN
         /\ lost' \in [Fields -> Nat] /\ skipped' \subseteq Record
         /\ \A x \in skipped' : x.at <= records + 1
         /\ \A i \in DOMAIN wantUnknown' : wantUnknown'[i].at <= records + 1
<1>0. /\ want \in [Fields -> Seq(Record)] /\ wantUnknown \in Seq(Record) /\ failed \in BOOLEAN
      /\ lost \in [Fields -> Nat] /\ skipped \subseteq Record /\ records \in Nat
  BY Types DEF TypeOK
<1>1. want' \in [Fields -> Seq(Record)]
  <2>1. Append(want[r.num], r) \in Seq(Record)
    BY <1>0
  <2>2. [want EXCEPT ![r.num] = Append(@, r)] \in [Fields -> Seq(Record)]
    BY <1>0, <2>1
  <2> QED
    BY <1>0, <2>2 DEF Reference
<1>2. failed' \in BOOLEAN
  BY DEF Reference
<1>3. lost' \in [Fields -> Nat]
  <2>1. Len(want[r.num]) \in Nat
    BY <1>0
  <2>2. [lost EXCEPT ![r.num] = Len(want[r.num])] \in [Fields -> Nat]
    BY <1>0, <2>1
  <2> QED
    BY <1>0, <2>2 DEF Reference
<1>4. skipped' \subseteq Record /\ \A x \in skipped' : x.at <= records + 1
  <2>1. skipped' \subseteq skipped \cup {r}
    BY DEF Reference
  <2>2. ASSUME NEW x \in skipped PROVE x.at <= records + 1
    <3>1. x.at <= records /\ x.at \in 1 .. MaxRecords
      BY <1>0 DEF Serials, Record
    <3> QED BY <3>1, <1>0, Constants
  <2>3. r.at <= records + 1
    BY <1>0
  <2> QED
    BY <1>0, <2>1, <2>2, <2>3
<1>5. wantUnknown' \in Seq(Record) /\ \A i \in DOMAIN wantUnknown' : wantUnknown'[i].at <= records + 1
  <2>1. \A i \in 1 .. Len(wantUnknown) : wantUnknown[i].at <= records + 1
    <3> TAKE i \in 1 .. Len(wantUnknown)
    <3>1. wantUnknown[i].at <= records /\ wantUnknown[i].at \in 1 .. MaxRecords
      BY <1>0, RecordParts DEF Serials
    <3> QED BY <3>1, <1>0, Constants
  <2>2. PICK w : w = Append(wantUnknown, r)
    OBVIOUS
  <2>3. w \in Seq(Record) /\ DOMAIN w = 1 .. Len(wantUnknown) + 1
        /\ w[Len(wantUnknown) + 1] = r /\ \A i \in 1 .. Len(wantUnknown) : w[i] = wantUnknown[i]
    BY <1>0, <2>2
  <2>4. ASSUME NEW i \in DOMAIN w PROVE w[i].at <= records + 1
    <3>1. i \in 1 .. Len(wantUnknown) \/ i = Len(wantUnknown) + 1
      BY <2>3, <1>0
    <3>2. r.at <= records + 1
      BY <1>0
    <3> QED BY <2>1, <2>3, <3>1, <3>2
  <2>5. wantUnknown' = wantUnknown \/ wantUnknown' = w
    BY <2>2 DEF Reference
  <2>6. DOMAIN wantUnknown = 1 .. Len(wantUnknown)
    BY <1>0
  <2> QED
    BY <1>0, <2>1, <2>3, <2>4, <2>5, <2>6
<1> QED
  BY <1>1, <1>2, <1>3, <1>4, <1>5

-----------------------------------------------------------------------------
(* A record: types, serial numbers and the index. *)

Moves(r) == SkipValid(r) \/ Postpone(r) \/ SkipDeferred(r) \/ DecodeNow(r) \/ KeepUnknown(r)

(* The types of what a record that is taken changes. *)
LEMMA MovesTypes ==
  ASSUME TypeOK, IndexStored, status = "scan", NEW r \in Record, r.num \in Fields, Moves(r)
  PROVE  /\ present' \subseteq Fields /\ ptr' \in [Fields -> Seq(Record)] /\ unknown' \in Seq(Record)
         /\ lazyFields' \in [LazyFields -> {"validate", "now", "later"}]
         /\ initialized' \in BOOLEAN /\ status' = "scan" /\ Advance(r)
<1>0. /\ present \subseteq Fields /\ ptr \in [Fields -> Seq(Record)] /\ unknown \in Seq(Record)
      /\ lazyFields \in [LazyFields -> {"validate", "now", "later"}] /\ initialized \in BOOLEAN
  BY DEF TypeOK
<1>1. Existing(r.num) \in Seq(Record)
  BY ExistingType
<1>2. CASE SkipValid(r)
  BY <1>0, <1>2 DEF SkipValid
<1>3. CASE Postpone(r)
  BY <1>0, <1>3 DEF Postpone
<1>4. CASE SkipDeferred(r)
  BY <1>0, <1>4 DEF SkipDeferred, message
<1>5. CASE DecodeNow(r)
  <2>1. PICK c : c = Append(Existing(r.num), r)
    OBVIOUS
  <2>2. c \in Seq(Record)
    BY <1>1, <2>1
  <2>3. ptr' = [ptr EXCEPT ![r.num] = c]
    BY <1>5, <2>1 DEF DecodeNow
  <2>4. ptr' \in [Fields -> Seq(Record)]
    BY <1>0, <2>2, <2>3
  <2>5. /\ present' \subseteq Fields /\ unknown' = unknown /\ initialized' \in BOOLEAN
        /\ status' = "scan" /\ Advance(r)
    BY <1>0, <1>5 DEF DecodeNow
  <2>6. lazyFields' \in [LazyFields -> {"validate", "now", "later"}]
    <3>1. lazyFields' = lazyFields \/ lazyFields' = [lazyFields EXCEPT ![r.num] = "now"]
      BY <1>5 DEF DecodeNow
    <3> QED BY <1>0, <3>1
  <2> QED
    BY <1>0, <2>4, <2>5, <2>6
<1>6. CASE KeepUnknown(r)
  <2>1. ptr' = [ptr EXCEPT ![r.num] = Existing(r.num)]
    BY <1>6 DEF KeepUnknown
  <2>2. ptr' \in [Fields -> Seq(Record)]
    BY <1>0, <1>1, <2>1
  <2>3. unknown' \in Seq(Record)
    <3>1. unknown' = unknown \/ unknown' = Append(unknown, r)
      BY <1>6 DEF KeepUnknown
    <3> QED BY <1>0, <3>1
  <2>4. present' = present /\ lazyFields' = lazyFields /\ initialized' = initialized
        /\ status' = "scan" /\ Advance(r)
    BY <1>6 DEF KeepUnknown
  <2> QED
    BY <1>0, <2>2, <2>3, <2>4
<1> QED
  BY <1>2, <1>3, <1>4, <1>5, <1>6 DEF Moves

(* What every record does. *)
LEMMA StepParts ==
  ASSUME NEW r, Step(r)
  PROVE  /\ Reference(r) /\ records' = records + 1 /\ opts' = opts /\ calls' = calls
         /\ lazyDecode' = lazyDecode /\ status = "scan" /\ (Moves(r) \/ Reject(r))
BY DEF Step, Moves

(* The index of a record's call. *)
LEMMA IndexStep ==
  ASSUME TypeOK, Serials, IndexSoFar, IndexStored, NEW r \in Record, r.num \in Fields,
         records < MaxRecords, Step(r)
  PROVE  IndexSoFar' /\ IndexStored'
<1>0. status = "scan" /\ lazyDecode' = lazyDecode /\ lazyDecode \in BOOLEAN
  BY StepParts DEF TypeOK
<1>1. CASE Reject(r)
  <2>1. status' = "invalid"
    BY <1>1 DEF Reject
  <2> QED
    BY <2>1 DEF IndexSoFar, IndexStored, Settled, Scanning
<1>2. CASE Moves(r)
  <2>1. Advance(r) /\ status' = "scan"
    BY <1>0, <1>2, MovesTypes
  <2>2. CASE lazyDecode
    <3>1. Scanning(TRUE)
      BY <1>0, <2>2 DEF Scanning
    <3>2. /\ Building(lazyIndex', lazy'.buffer, Len(lazy'.buffer), LazyFields)
          /\ lastNum' = NumAt(lazy'.buffer, Len(lazy'.buffer))
          /\ ~outOfOrder' => \A p, q \in 1 .. Len(lazy'.buffer) :
                                p < q => lazy'.buffer[p].num <= lazy'.buffer[q].num
      BY <2>1, <3>1, AdvanceIndex
    <3>3. IndexSoFar'
      BY <3>2 DEF IndexSoFar, Building
    <3>4. IndexStored'
      BY <1>0, <2>1, <2>2 DEF IndexStored, Settled, Scanning
    <3> QED BY <3>3, <3>4
  <2>3. CASE ~lazyDecode
    <3>1. lazy' = lazy
      BY <2>1, <2>3, AdvanceBuffer
    <3>2. IndexSoFar'
      BY <1>0, <2>3 DEF IndexSoFar, Scanning
    <3>3. Settled
      BY <1>0, <2>3 DEF Settled, Scanning
    <3>4. IndexStored'
      BY <3>1, <3>3 DEF IndexStored
    <3> QED BY <3>2, <3>4
  <2> QED BY <2>2, <2>3
<1> QED
  BY <1>1, <1>2, StepParts

(* The types after a record. *)
LEMMA TypeStep ==
  ASSUME TypeOK, Serials, IndexSoFar, IndexStored, NEW r \in Record, r.num \in Fields,
         r.at = records + 1, records < MaxRecords, Step(r)
  PROVE  TypeOK' /\ Serials'
<1>0. /\ status = "scan" /\ lazyDecode' = lazyDecode /\ lazyDecode \in BOOLEAN /\ opts' = opts
      /\ opts \in Options /\ calls' = calls /\ calls \in 0 .. MaxCalls /\ records' = records + 1
      /\ Reference(r)
  BY StepParts DEF TypeOK
<1>1. records' \in 0 .. MaxRecords /\ records \in Nat
  BY <1>0, Types, Constants
<1>2. /\ want' \in [Fields -> Seq(Record)] /\ wantUnknown' \in Seq(Record) /\ failed' \in BOOLEAN
      /\ lost' \in [Fields -> Nat] /\ skipped' \subseteq Record
      /\ \A x \in skipped' : x.at <= records + 1
      /\ \A i \in DOMAIN wantUnknown' : wantUnknown'[i].at <= records + 1
  BY <1>0, ReferenceTypes
<1>3. CASE Reject(r)
  <2>1. /\ status' = "invalid" /\ present' = present /\ ptr' = ptr /\ unknown' = unknown
        /\ lazy' = lazy /\ lazyFields' = lazyFields /\ lazyIndex' = lazyIndex /\ lastNum' = lastNum
        /\ outOfOrder' = outOfOrder /\ initialized' = initialized
    BY <1>3 DEF Reject, message, locals
  <2>2. Len(lazy.buffer) <= records + 1
    BY <1>1, Types DEF Serials
  <2>3. Serials'
    BY <1>0, <1>2, <2>1, <2>2 DEF Serials
  <2>4. TypeOK'
    BY <1>0, <1>1, <1>2, <2>1 DEF TypeOK
  <2> QED BY <2>3, <2>4
<1>4. CASE Moves(r)
  <2>1. /\ present' \subseteq Fields /\ ptr' \in [Fields -> Seq(Record)] /\ unknown' \in Seq(Record)
        /\ lazyFields' \in [LazyFields -> {"validate", "now", "later"}]
        /\ initialized' \in BOOLEAN /\ status' = "scan" /\ Advance(r)
    BY <1>0, <1>4, MovesTypes
  <2>2. /\ lazy' \in [buffer : Seq(Record), index : Seq(Entry), checked : BOOLEAN]
        /\ Len(lazy'.buffer) <= records + 1
        /\ ~lazyDecode => lazy' = lazy /\ lazyIndex' = lazyIndex
    BY <2>1, AdvanceBuffer
  <2>3. Serials'
    BY <1>0, <1>2, <2>2 DEF Serials
  <2>4. lastNum' \in Fields \cup {0} /\ outOfOrder' \in BOOLEAN
    BY <2>1 DEF Advance
  <2>5. /\ lazyIndex' \in Seq(Entry)
        /\ \A i \in DOMAIN lazyIndex' : lazyIndex'[i].start < lazyIndex'[i].end
                                        /\ lazyIndex'[i].end <= Len(lazy'.buffer)
    <3>1. CASE lazyDecode
      <4>1. Scanning(TRUE)
        BY <1>0, <3>1 DEF Scanning
      <4>2. Building(lazyIndex', lazy'.buffer, Len(lazy'.buffer), LazyFields)
        BY <2>1, <4>1, AdvanceIndex
      <4> QED
        BY <4>2 DEF Building, Indexes
    <3>2. CASE ~lazyDecode
      BY <2>2, <3>2 DEF TypeOK
    <3> QED BY <3>1, <3>2
  <2>6. TypeOK'
    BY <1>0, <1>1, <1>2, <2>1, <2>2, <2>4, <2>5 DEF TypeOK
  <2> QED BY <2>3, <2>6
<1> QED
  BY <1>3, <1>4, StepParts

-----------------------------------------------------------------------------
(* A record: errors, required fields and unknown fields. *)

(* Postponed fields stay postponed; a record that cannot be decoded and is  *)
(* not refused is of a postponed field; a partial one clears initialized.   *)
LEMMA MovesFacts ==
  ASSUME TypeOK, NEW r \in Record, r.num \in Fields, Moves(r)
  PROVE  /\ Later \subseteq Later' /\ (initialized' => initialized)
         /\ Bad(r) => lazyDecode /\ r.num \in Later'
         /\ ~lazyDecode => lazyFields' = lazyFields
         /\ r.cls = "partial" /\ initialized' => Later' # {}
<1>0. lazyFields \in [LazyFields -> {"validate", "now", "later"}] /\ initialized \in BOOLEAN
  BY DEF TypeOK
<1>1. CASE SkipValid(r)
  BY <1>0, <1>1 DEF SkipValid, Later, Bad
<1>2. CASE Postpone(r)
  <2>1. /\ r.num \in LazyFields /\ lazyDecode /\ r.cls \in {"unsure", "unsurebad"}
        /\ lazyFields' = [lazyFields EXCEPT ![r.num] = "later"] /\ initialized' = initialized
    BY <1>2 DEF Postpone, Validating, Unsure
  <2>2. r.num \in Later' /\ Later \subseteq Later'
    BY <1>0, <2>1 DEF Later
  <2> QED
    BY <2>1, <2>2
<1>3. CASE SkipDeferred(r)
  <2>1. /\ r.num \in LazyFields /\ lazyDecode /\ lazyFields[r.num] = "later"
        /\ lazyFields' = lazyFields /\ initialized' = initialized
    BY <1>3 DEF SkipDeferred, Deferred
  <2>2. r.num \in Later' /\ Later \subseteq Later'
    BY <1>0, <2>1 DEF Later
  <2> QED
    BY <2>1, <2>2
<1>4. CASE DecodeNow(r)
  <2>1. ~Bad(r) /\ (initialized' => initialized /\ r.cls # "partial")
    BY <1>4 DEF DecodeNow, Decodes, Bad
  <2>2. CASE Validating(r)
    <3>1. /\ r.num \in LazyFields /\ lazyDecode /\ lazyFields[r.num] = "validate"
          /\ lazyFields' = [lazyFields EXCEPT ![r.num] = "now"]
      BY <1>4, <2>2 DEF DecodeNow, Validating
    <3>2. Later \subseteq Later'
      BY <1>0, <3>1 DEF Later
    <3> QED BY <2>1, <3>1, <3>2
  <2>3. CASE ~Validating(r)
    <3>1. lazyFields' = lazyFields
      BY <1>4, <2>3 DEF DecodeNow
    <3> QED BY <2>1, <3>1 DEF Later
  <2> QED BY <2>2, <2>3
<1>5. CASE KeepUnknown(r)
  BY <1>5 DEF KeepUnknown, Later, Bad
<1> QED
  BY <1>1, <1>2, <1>3, <1>4, <1>5 DEF Moves

(* The flags of the call do not change. *)
LEMMA FlagsStep ==
  ASSUME TypeOK, Serials, Flags, IndexStored, NEW r \in Record, r.num \in Fields,
         records < MaxRecords, Step(r)
  PROVE  Flags'
<1>0. /\ status = "scan" /\ lazyDecode' = lazyDecode /\ opts' = opts /\ Reference(r)
  BY StepParts
<1>1. lazyDecode => opts.mode = "default"
  BY DEF Flags
<1>2. lazyDecode => lost' = lost
  BY <1>0, <1>1 DEF Reference
<1>3. lazy'.checked = lazy.checked
  <2>1. CASE Reject(r)
    BY <2>1 DEF Reject
  <2>2. CASE Moves(r)
    <3>1. Advance(r)
      BY <1>0, <2>2, MovesTypes
    <3> QED BY <3>1, AdvanceBuffer
  <2> QED BY <2>1, <2>2, StepParts
<1> QED
  BY <1>0, <1>1, <1>2, <1>3 DEF Flags

(* A record that cannot be decoded is refused or left to the end. *)
LEMMA ErrorsStep ==
  ASSUME TypeOK, Serials, Errors, IndexStored, NEW r \in Record, r.num \in Fields,
         records < MaxRecords, Step(r)
  PROVE  Errors'
<1>0. /\ status = "scan" /\ lazyDecode' = lazyDecode /\ lazyDecode \in BOOLEAN /\ Reference(r)
  BY StepParts DEF TypeOK
<1>1. failed' = (failed \/ Bad(r))
  BY <1>0 DEF Reference, Bad
<1>2. CASE Reject(r)
  <2>1. status' = "invalid" /\ Bad(r)
    BY <1>2 DEF Reject, Bad
  <2> QED
    BY <1>1, <2>1 DEF Errors, Scanning
<1>3. CASE Moves(r)
  <2>1. Advance(r) /\ status' = "scan"
    BY <1>0, <1>3, MovesTypes
  <2>2. /\ Later \subseteq Later'
        /\ Bad(r) => lazyDecode /\ r.num \in Later'
        /\ ~lazyDecode => lazyFields' = lazyFields
    BY <1>3, MovesFacts
  <2>3. CASE ~lazyDecode
    <3>1. ~failed /\ Later = {} /\ Later' = Later
      BY <1>0, <2>2, <2>3 DEF Errors, Scanning, Later
    <3> QED
      BY <1>0, <1>1, <2>1, <2>2, <2>3, <3>1 DEF Errors, Scanning
  <2>4. CASE lazyDecode
    <3>1. PICK B \in Seq(Record) : B = lazy.buffer
      BY Types
    <3>2. PICK C : C = Append(B, r) /\ C = lazy'.buffer
      BY <2>1, <2>4, <3>1, AdvanceBuffer
    <3>3. /\ C \in Seq(Record) /\ DOMAIN C = 1 .. Len(B) + 1 /\ C[Len(B) + 1] = r /\ Len(B) \in Nat
          /\ DOMAIN B = 1 .. Len(B) /\ \A i \in 1 .. Len(B) : C[i] = B[i]
      <4>1. C = Append(B, r)
        BY <3>2
      <4> QED BY <4>1
    <3>4. /\ \A i \in DOMAIN B : Bad(B[i]) => B[i].num \in Later
          /\ failed <=> \E i \in DOMAIN B : Bad(B[i])
      BY <1>0, <2>4, <3>1 DEF Errors, Scanning
    <3>5. \A i \in DOMAIN C : i \in DOMAIN B \/ i = Len(B) + 1
      BY <3>3
    <3>6. \A i \in DOMAIN B : i \in DOMAIN C /\ C[i] = B[i]
      BY <3>3
    <3>7. Len(B) + 1 \in DOMAIN C
      BY <3>3
    <3>8. \A i \in DOMAIN C : Bad(C[i]) => C[i].num \in Later'
      BY <2>2, <3>3, <3>4, <3>5, <3>6
    <3>9. failed' <=> \E i \in DOMAIN C : Bad(C[i])
      BY <1>1, <3>3, <3>4, <3>5, <3>6, <3>7
    <3> QED
      BY <1>0, <2>1, <2>4, <3>2, <3>8, <3>9 DEF Errors, Scanning
  <2> QED BY <2>3, <2>4
<1> QED
  BY <1>2, <1>3, StepParts

(* A partial record is noticed. *)
LEMMA PartialsStep ==
  ASSUME TypeOK, Partials, IndexStored, NEW r \in Record, r.num \in Fields, Step(r)
  PROVE  Partials'
<1>0. /\ status = "scan" /\ calls' = calls /\ calls \in Nat /\ Reference(r)
      /\ want \in [Fields -> Seq(Record)]
  BY StepParts, Types DEF TypeOK
<1>1. calls # 0
  BY <1>0 DEF Partials
<1>2. SUFFICES ASSUME calls <= 1, initialized', Later' = {}, status' \in {"scan", "ok"},
                      NEW f \in Fields, NEW i \in DOMAIN want'[f]
               PROVE  want'[f][i].cls # "partial"
  BY <1>0, <1>1 DEF Partials
<1>3. Moves(r)
  <2>1. ~Reject(r)
    BY <1>2 DEF Reject
  <2> QED BY <2>1, StepParts
<1>4. initialized /\ Later = {} /\ r.cls # "partial"
  BY <1>2, <1>3, MovesFacts
<1>5. \A g \in Fields : \A j \in DOMAIN want[g] : want[g][j].cls # "partial"
  BY <1>0, <1>2, <1>4 DEF Partials
<1>6. CASE want'[f] = want[f]
  BY <1>2, <1>5, <1>6
<1>7. CASE want'[f] # want[f]
  <2>1. want' = [want EXCEPT ![r.num] = Append(@, r)] /\ f = r.num
    BY <1>0, <1>7 DEF Reference
  <2>2. PICK w \in Seq(Record) : w = want[f] /\ want'[f] = Append(w, r)
    BY <1>0, <2>1
  <2>3. i \in 1 .. Len(w) + 1 /\ Append(w, r)[Len(w) + 1] = r /\ \A j \in 1 .. Len(w) : Append(w, r)[j] = w[j]
    BY <1>2, <2>2
  <2>4. i \in DOMAIN w \/ i = Len(w) + 1
    BY <2>3
  <2>5. \A j \in DOMAIN w : j \in 1 .. Len(w) /\ w[j].cls # "partial"
    BY <1>5, <2>2
  <2> QED
    BY <1>4, <2>2, <2>3, <2>4, <2>5
<1> QED BY <1>6, <1>7

(* The unknown fields grow with the reference's. *)
LEMMA UnknownsStep ==
  ASSUME TypeOK, Serials, Flags, Unknowns, NEW r \in Record, r.num \in Fields,
         r.at = records + 1, Step(r)
  PROVE  Unknowns'
<1>0. /\ status = "scan" /\ Reference(r) /\ wantUnknown \in Seq(Record) /\ skipped \subseteq Record
      /\ records \in Nat
  BY StepParts, Types DEF TypeOK
<1>1. SUFFICES ASSUME status' \in {"scan", "ok"}, ~failed'
               PROVE  unknown' = Selected(wantUnknown', Record \ skipped')
  BY DEF Unknowns
<1>2. ~failed /\ Moves(r)
  <2>1. ~Reject(r)
    BY <1>1 DEF Reject
  <2>2. ~failed
    BY <1>0, <1>1 DEF Reference
  <2> QED BY <2>1, <2>2, StepParts
<1>3. unknown = Selected(wantUnknown, Record \ skipped)
  BY <1>0, <1>2 DEF Unknowns
<1>4. r \notin skipped
  BY <1>0 DEF Serials
<1>5. \A i \in 1 .. Len(wantUnknown) : wantUnknown[i] # r
  BY <1>0 DEF Serials
<1>6. CASE r.cls # "wrongtype"
  <2>1. wantUnknown' = wantUnknown /\ skipped' = skipped
    BY <1>0, <1>6 DEF Reference
  <2>2. unknown' = unknown
    BY <1>2, <1>6 DEF Moves, SkipValid, Postpone, SkipDeferred, DecodeNow, KeepUnknown, message
  <2> QED
    BY <1>3, <2>1, <2>2
<1>7. CASE r.cls = "wrongtype" /\ Deferred(r)
  <2>1. opts.mode = "default"
    BY <1>7 DEF Deferred, Flags
  <2>2. wantUnknown' = Append(wantUnknown, r) /\ skipped' = skipped \cup {r}
    BY <1>0, <1>2, <1>7, <2>1 DEF Reference
  <2>3. unknown' = unknown
    BY <1>2, <1>7 DEF Moves, SkipValid, Postpone, SkipDeferred, DecodeNow, KeepUnknown, message, Decodes
  <2>4. PICK T, U : T = Record \ skipped /\ U = Record \ (skipped \cup {r})
    OBVIOUS
  <2>5. r \notin U /\ \A i \in 1 .. Len(wantUnknown) : (wantUnknown[i] \in U) <=> (wantUnknown[i] \in T)
    BY <1>0, <1>5, <2>4
  <2>6. Selected(wantUnknown, U) = Selected(wantUnknown, T)
    BY <1>0, <2>5, SelectedSame
  <2>7. Selected(Append(wantUnknown, r), U) = Selected(wantUnknown, U)
    BY <1>0, <2>5, SelectedAppend
  <2> QED
    BY <1>3, <2>2, <2>3, <2>4, <2>6, <2>7
<1>8. CASE r.cls = "wrongtype" /\ ~Deferred(r)
  <2>1. skipped' = skipped
    BY <1>0, <1>8 DEF Reference
  <2>2. KeepUnknown(r)
    BY <1>2, <1>8 DEF Moves, SkipValid, Postpone, SkipDeferred, DecodeNow, Decodes, Unsure
  <2>3. CASE opts.mode = "discard"
    <3>1. unknown' = unknown /\ wantUnknown' = wantUnknown
      BY <1>0, <2>2, <2>3 DEF KeepUnknown, Reference
    <3> QED BY <1>3, <2>1, <3>1
  <2>4. CASE opts.mode # "discard"
    <3>1. unknown' = Append(unknown, r) /\ wantUnknown' = Append(wantUnknown, r)
      BY <1>0, <1>2, <1>8, <2>2, <2>4 DEF KeepUnknown, Reference
    <3>2. PICK T : T = Record \ skipped
      OBVIOUS
    <3>3. r \in T
      BY <1>4, <3>2
    <3>4. Selected(Append(wantUnknown, r), T) = Append(Selected(wantUnknown, T), r)
      BY <1>0, <3>3, SelectedAppend
    <3> QED
      BY <1>3, <2>1, <3>1, <3>2, <3>4
  <2> QED BY <2>3, <2>4
<1> QED BY <1>6, <1>7, <1>8

-----------------------------------------------------------------------------
(* A record: the fields. *)

(* The part of a sequence from a place on. *)
LEMMA TailParts ==
  ASSUME NEW z \in Seq(Record), NEW l \in Nat, l <= Len(z)
  PROVE  /\ SubSeq(z, l + 1, Len(z)) \in Seq(Record) /\ Len(SubSeq(z, l + 1, Len(z))) = Len(z) - l
         /\ \A i \in 1 .. Len(z) - l : SubSeq(z, l + 1, Len(z))[i] = z[l + i]
OBVIOUS

(* With one more record. *)
LEMMA TailAppend ==
  ASSUME NEW w \in Seq(Record), NEW r \in Record, NEW l \in Nat, l <= Len(w)
  PROVE  /\ Append(SubSeq(w, l + 1, Len(w)), r) = SubSeq(Append(w, r), l + 1, Len(Append(w, r)))
         /\ Append(w, r) \in Seq(Record) /\ Len(Append(w, r)) = Len(w) + 1 /\ Append(w, r) # <<>>
<1>1. PICK x : x = Append(SubSeq(w, l + 1, Len(w)), r)
  OBVIOUS
<1>2. PICK y : y = SubSeq(Append(w, r), l + 1, Len(w) + 1)
  OBVIOUS
<1>3. /\ x \in Seq(Record) /\ Len(x) = (Len(w) - l) + 1 /\ x[(Len(w) - l) + 1] = r
      /\ \A i \in 1 .. Len(w) - l : x[i] = w[l + i]
  BY <1>1
<1>4. /\ y \in Seq(Record) /\ Len(y) = (Len(w) - l) + 1
      /\ \A i \in 1 .. (Len(w) - l) + 1 : y[i] = Append(w, r)[l + i]
  <2>0. Append(w, r) \in Seq(Record) /\ Len(Append(w, r)) = Len(w) + 1
    OBVIOUS
  <2>1. PICK z \in Seq(Record) : z = Append(w, r) /\ Len(z) = Len(w) + 1
    BY <2>0
  <2>2. y = SubSeq(z, l + 1, Len(z))
    BY <1>2, <2>1
  <2>3. /\ y \in Seq(Record) /\ Len(y) = Len(z) - l
        /\ \A i \in 1 .. Len(z) - l : y[i] = z[l + i]
    <3>1. l <= Len(z)
      BY <2>1
    <3> QED BY <2>2, <3>1, TailParts
  <2>4. Len(z) - l = (Len(w) - l) + 1
    BY <2>1
  <2> QED BY <2>1, <2>3, <2>4
<1>5. ASSUME NEW i \in 1 .. (Len(w) - l) + 1 PROVE x[i] = y[i]
  <2>1. CASE i = (Len(w) - l) + 1
    <3>1. l + i = Len(w) + 1
      BY <2>1
    <3>2. Append(w, r)[l + i] = r
      BY <3>1
    <3> QED BY <2>1, <3>2, <1>3, <1>4
  <2>2. CASE i \in 1 .. Len(w) - l
    <3>1. l + i \in 1 .. Len(w)
      BY <2>2
    <3>2. Append(w, r)[l + i] = w[l + i]
      BY <3>1
    <3> QED BY <2>2, <3>2, <1>3, <1>4
  <2> QED BY <2>1, <2>2
<1>6. x = y
  BY <1>3, <1>4, <1>5, SeqEqual
<1>7. Append(w, r) \in Seq(Record) /\ Len(Append(w, r)) = Len(w) + 1 /\ Append(w, r) # <<>>
  OBVIOUS
<1> QED
  BY <1>1, <1>2, <1>6, <1>7

(* In an eager call every field keeps what the reference has. *)
LEMMA EagerStep ==
  ASSUME TypeOK, Serials, Errors, IndexStored, FieldsSoFar, NEW r \in Record, r.num \in Fields,
         records < MaxRecords, Step(r), Moves(r), ~lazyDecode, NEW f \in Fields
  PROVE  Held(f)'
<1>0. /\ status = "scan" /\ Reference(r) /\ Settled /\ ~failed
      /\ want \in [Fields -> Seq(Record)] /\ ptr \in [Fields -> Seq(Record)] /\ lost \in [Fields -> Nat]
  BY StepParts DEF Settled, Scanning, TypeOK, Errors
<1>1. lazy' = lazy
  <2>1. Advance(r)
    BY <1>0, MovesTypes
  <2> QED BY <2>1, AdvanceBuffer
<1>2. DecodeNow(r) \/ KeepUnknown(r)
  BY DEF Moves, SkipValid, Postpone, SkipDeferred, Validating, Deferred
<1>3. Held(f) /\ Held(r.num)
  BY <1>0 DEF FieldsSoFar
<1>4. CASE f # r.num
  <2>1. want'[f] = want[f] /\ lost'[f] = lost[f]
    BY <1>0, <1>4 DEF Reference
  <2>2. ptr'[f] = ptr[f] /\ (f \in present' <=> f \in present)
    BY <1>0, <1>2, <1>4 DEF DecodeNow, KeepUnknown
  <2> QED
    BY <1>1, <1>3, <2>1, <2>2 DEF Held
<1>5. CASE f = r.num
  <2>0. PICK w \in Seq(Record), l \in Nat : w = want[f] /\ l = lost[f]
    BY <1>0
  <2>1. PICK due : due = SubSeq(w, l + 1, Len(w))
    OBVIOUS
  <2>2. /\ (f \in present) <=> (w # <<>>)
        /\ f \notin present => ptr[f] = Nil /\ l = 0
        /\ f \in present => /\ l < Len(w)
                            /\ ptr[f] # Nil => ptr[f] = due
                            /\ ptr[f] = Nil => f \in LazyFields /\ LazyUnmarshal(lazy, f) = due
    BY <1>3, <2>0, <2>1 DEF Held
  <2>3. PICK e : e = Existing(f)
    OBVIOUS
  <2>4. e = IF f \in LazyFields /\ f \in present /\ ptr[f] = Nil /\ opts.mode # "nolazy"
            THEN LazyUnmarshal(lazy, f) ELSE ptr[f]
    BY <2>3 DEF Existing
  <2>5. CASE DecodeNow(r)
    <3>1. /\ ptr'[f] = Append(e, r) /\ f \in present' /\ r.cls \in Decodes
      BY <1>0, <1>5, <2>3, <2>5 DEF DecodeNow
    <3>2. want'[f] = Append(w, r)
      BY <1>0, <1>5, <2>0, <3>1 DEF Reference
    <3>3. PICK m \in Nat : m = lost'[f] /\ m <= Len(w) /\ e = SubSeq(w, m + 1, Len(w))
      <4>1. CASE f \in LazyFields /\ f \in present /\ ptr[f] = Nil /\ opts.mode = "nolazy"
        <5>1. lost'[f] = Len(w)
          BY <1>0, <1>5, <2>0, <3>1, <4>1 DEF Reference
        <5>2. e = <<>> /\ SubSeq(w, Len(w) + 1, Len(w)) = <<>> /\ Len(w) \in Nat
          BY <2>4, <4>1 DEF Nil
        <5> QED BY <5>1, <5>2
      <4>2. CASE ~(f \in LazyFields /\ f \in present /\ ptr[f] = Nil /\ opts.mode = "nolazy")
        <5>1. lost'[f] = l
          BY <1>0, <1>5, <2>0, <4>2 DEF Reference
        <5>2. CASE f \notin present
          <6>1. w = <<>> /\ l = 0 /\ e = <<>>
            BY <2>2, <2>4, <5>2 DEF Nil
          <6>2. SubSeq(w, l + 1, Len(w)) = <<>>
            BY <6>1
          <6> QED BY <5>1, <6>1, <6>2
        <5>3. CASE f \in present
          <6>1. e = due /\ l < Len(w)
            BY <2>2, <2>4, <4>2, <5>3
          <6> QED BY <5>1, <6>1, <2>1
        <5> QED BY <5>2, <5>3
      <4> QED BY <4>1, <4>2
    <3>4. /\ Append(SubSeq(w, m + 1, Len(w)), r) = SubSeq(Append(w, r), m + 1, Len(Append(w, r)))
          /\ Len(Append(w, r)) = Len(w) + 1 /\ Append(w, r) # <<>>
      BY <3>3, TailAppend
    <3>5. /\ ptr'[f] = SubSeq(want'[f], lost'[f] + 1, Len(want'[f])) /\ want'[f] # <<>>
          /\ lost'[f] < Len(want'[f])
      <4>1. ptr'[f] = SubSeq(want'[f], lost'[f] + 1, Len(want'[f])) /\ want'[f] # <<>>
        BY <3>1, <3>2, <3>3, <3>4, Zenon
      <4>2. m < Len(w) + 1
        BY <3>3
      <4>3. lost'[f] < Len(want'[f])
        BY <4>2, <3>2, <3>3, <3>4, Zenon
      <4> QED BY <4>1, <4>3
    <3>6. ptr'[f] # Nil
      <4>1. e \in Seq(Record)
        BY <1>0, <2>3, ExistingType
      <4> QED BY <3>1, <4>1 DEF Nil
    <3> QED
      BY <3>1, <3>5, <3>6 DEF Held
  <2>6. CASE KeepUnknown(r)
    <3>1. /\ ptr'[f] = e /\ present' = present /\ r.cls = "wrongtype"
      BY <1>0, <1>5, <2>3, <2>6 DEF KeepUnknown
    <3>2. want'[f] = w /\ lost'[f] = l
      BY <1>0, <2>0, <3>1 DEF Reference, Decodes
    <3>3. e = ptr[f] \/ (f \in present /\ e = due)
      BY <2>2, <2>4
    <3>4. f \in present => due # Nil
      <4>1. f \in present => l < Len(w)
        BY <2>2
      <4>2. l < Len(w) => Len(due) = Len(w) - l
        BY <2>1
      <4> QED BY <4>1, <4>2 DEF Nil
    <3> QED
      BY <1>1, <2>1, <2>2, <3>1, <3>2, <3>3, <3>4 DEF Held
  <2> QED BY <1>2, <2>5, <2>6
<1> QED BY <1>4, <1>5

(* In a lazy call a field is validated, decoded or left to the end. *)
LEMMA LazyStep ==
  ASSUME TypeOK, Serials, Errors, IndexStored, FieldsSoFar, NEW r \in Record, r.num \in Fields,
         records < MaxRecords, Step(r), Moves(r), lazyDecode, ~failed', NEW f \in Fields
  PROVE  Underway(f)'
<1>0. /\ status = "scan" /\ Reference(r) /\ Scanning(TRUE) /\ ~failed /\ ~Bad(r)
      /\ want \in [Fields -> Seq(Record)] /\ ptr \in [Fields -> Seq(Record)]
      /\ lazyFields \in [LazyFields -> {"validate", "now", "later"}] /\ r.cls \in AllClasses
  <2>1. status = "scan" /\ Reference(r)
    BY StepParts
  <2> QED BY <2>1 DEF Scanning, TypeOK, Reference, Bad, Record
<1>1. PICK B \in Seq(Record) : B = lazy.buffer
  BY Types
<1>2. PICK C : C = lazy'.buffer /\ C = Append(B, r)
  <2>1. Advance(r)
    BY <1>0, MovesTypes
  <2> QED BY <1>1, <2>1, AdvanceBuffer
<1>3. UnmarshalField(C, f) = IF r.num = f /\ r.cls # "wrongtype"
                             THEN Append(UnmarshalField(B, f), r) ELSE UnmarshalField(B, f)
  BY <1>2, FieldDecodedMore
<1>4. Underway(f) /\ Existing(r.num) = ptr[r.num]
  BY <1>0 DEF FieldsSoFar, Existing
<1>5. f \in PlainFields <=> f \notin LazyFields
  BY Constants
<1>6. r.cls \in Decodes <=> r.cls # "wrongtype"
  BY <1>0 DEF Decodes, Bad, AllClasses
<1>7. CASE f # r.num
  <2>1. want'[f] = want[f]
    BY <1>0, <1>7 DEF Reference
  <2>2. ptr'[f] = ptr[f] /\ (f \in present' <=> f \in present) /\ lazyFields'[f] = lazyFields[f]
    <3>1. CASE SkipValid(r)
      BY <3>1, <1>0, <1>7 DEF SkipValid
    <3>2. CASE Postpone(r)
      BY <3>2, <1>0, <1>7 DEF Postpone
    <3>3. CASE SkipDeferred(r)
      BY <3>3 DEF SkipDeferred, message
    <3>4. CASE DecodeNow(r)
      BY <3>4, <1>0, <1>7 DEF DecodeNow
    <3>5. CASE KeepUnknown(r)
      BY <3>5, <1>0, <1>7 DEF KeepUnknown
    <3> QED BY <3>1, <3>2, <3>3, <3>4, <3>5 DEF Moves
  <2>3. UnmarshalField(lazy'.buffer, f) = UnmarshalField(lazy.buffer, f)
    BY <1>1, <1>2, <1>3, <1>7
  <2> QED
    BY <1>4, <2>1, <2>2, <2>3 DEF Underway
<1>8. CASE f = r.num
  <2>w. PICK w \in Seq(Record) : w = want[f]
    BY <1>0
  <2>0. PICK u : w = want[f] /\ u = UnmarshalField(B, f)
    BY <2>w
  <2>1. Append(w, r) # <<>>
    OBVIOUS
  <2>2. want'[f] = IF r.cls = "wrongtype" THEN w ELSE Append(w, r)
    BY <1>0, <1>6, <1>8, <2>0 DEF Reference
  <2>3. UnmarshalField(lazy'.buffer, f) = IF r.cls = "wrongtype" THEN u ELSE Append(u, r)
    BY <1>2, <1>3, <1>8, <2>0
  <2>4. u = UnmarshalField(lazy.buffer, f)
    BY <1>1, <2>0
  <2>5. CASE SkipValid(r)
    <3>1. /\ f \in LazyFields /\ lazyFields[f] = "validate" /\ r.cls # "wrongtype"
          /\ f \in present' /\ ptr'[f] = ptr[f] /\ lazyFields'[f] = "validate"
      BY <2>5, <1>8 DEF SkipValid, Validating
    <3>2. ptr[f] = Nil /\ w = u
      BY <1>4, <1>5, <2>0, <2>4, <3>1 DEF Underway
    <3> QED
      BY <1>5, <2>1, <2>2, <2>3, <3>1, <3>2 DEF Underway
  <2>6. CASE Postpone(r)
    <3>1. /\ f \in LazyFields /\ lazyFields[f] = "validate" /\ r.cls # "wrongtype"
          /\ f \notin present' /\ ptr'[f] = ptr[f] /\ lazyFields'[f] = "later"
      BY <2>6, <1>0, <1>8 DEF Postpone, Validating, Unsure
    <3>2. ptr[f] = Nil /\ w = u
      BY <1>4, <1>5, <2>0, <2>4, <3>1 DEF Underway
    <3> QED
      BY <1>5, <2>1, <2>2, <2>3, <3>1, <3>2 DEF Underway
  <2>7. CASE SkipDeferred(r)
    <3>1. /\ f \in LazyFields /\ lazyFields[f] = "later"
          /\ present' = present /\ ptr'[f] = ptr[f] /\ lazyFields'[f] = "later"
      BY <2>7, <1>8 DEF SkipDeferred, Deferred, message
    <3>2. ptr[f] = Nil /\ w = u /\ f \notin present /\ w # <<>>
      BY <1>4, <1>5, <2>0, <2>4, <3>1 DEF Underway
    <3> QED
      BY <1>5, <2>1, <2>2, <2>3, <3>1, <3>2 DEF Underway
  <2>8. CASE DecodeNow(r)
    <3>1. /\ AtOnce(r) /\ ptr'[f] = Append(ptr[f], r) /\ f \in present' /\ r.cls # "wrongtype"
      BY <2>8, <1>0, <1>4, <1>6, <1>8 DEF DecodeNow
    <3>2. CASE Validating(r)
      <4>1. f \in LazyFields /\ lazyFields[f] = "validate" /\ lazyFields'[f] = "now" /\ f \notin present
        BY <2>8, <3>1, <3>2, <1>0, <1>8 DEF DecodeNow, Validating, AtOnce
      <4>2. ptr[f] = Nil /\ w = <<>>
        BY <1>4, <1>5, <2>0, <4>1 DEF Underway
      <4>3. ptr'[f] = want'[f] /\ want'[f] # <<>>
        BY <2>1, <2>2, <3>1, <4>2 DEF Nil
      <4> QED
        BY <1>5, <3>1, <4>1, <4>3 DEF Underway
    <3>3. CASE ~Validating(r)
      <4>1. lazyFields' = lazyFields /\ (f \in LazyFields => lazyFields[f] = "now")
        BY <2>8, <3>1, <3>3, <1>0, <1>8 DEF DecodeNow, Validating, AtOnce, Deferred
      <4>2. ptr[f] = w
        BY <1>4, <1>5, <2>0, <4>1 DEF Underway
      <4>3. ptr'[f] = want'[f] /\ want'[f] # <<>>
        BY <2>1, <2>2, <3>1, <4>2
      <4> QED
        BY <1>5, <3>1, <4>1, <4>3 DEF Underway
    <3> QED BY <3>2, <3>3
  <2>9. CASE KeepUnknown(r)
    <3>1. /\ r.cls = "wrongtype" /\ ptr'[f] = ptr[f] /\ present' = present /\ lazyFields' = lazyFields
      BY <2>9, <1>0, <1>4, <1>8 DEF KeepUnknown
    <3>2. want'[f] = want[f] /\ UnmarshalField(lazy'.buffer, f) = UnmarshalField(lazy.buffer, f)
      BY <2>0, <2>2, <2>3, <2>4, <3>1
    <3> QED
      BY <1>4, <3>1, <3>2 DEF Underway
  <2> QED BY <2>5, <2>6, <2>7, <2>8, <2>9 DEF Moves
<1> QED BY <1>7, <1>8

(* The fields after a record. *)
LEMMA FieldsStep ==
  ASSUME TypeOK, Serials, Errors, IndexStored, FieldsSoFar, NEW r \in Record, r.num \in Fields,
         records < MaxRecords, Step(r)
  PROVE  FieldsSoFar'
<1>0. status = "scan" /\ lazyDecode' = lazyDecode /\ lazyDecode \in BOOLEAN
  BY StepParts DEF TypeOK
<1>1. CASE Reject(r)
  <2>1. status' = "invalid"
    BY <1>1 DEF Reject
  <2> QED BY <2>1 DEF FieldsSoFar, Settled, Scanning
<1>2. CASE Moves(r)
  <2>1. status' = "scan"
    BY <1>0, <1>2, MovesTypes
  <2>2. CASE lazyDecode
    <3>1. ~failed' => \A f \in Fields : Underway(f)'
      BY <1>2, <2>2, LazyStep
    <3> QED BY <1>0, <2>1, <2>2, <3>1 DEF FieldsSoFar, Settled, Scanning
  <2>3. CASE ~lazyDecode
    <3>1. \A f \in Fields : Held(f)'
      BY <1>2, <2>3, EagerStep
    <3> QED BY <1>0, <2>1, <2>3, <3>1 DEF FieldsSoFar, Settled, Scanning
  <2> QED BY <2>2, <2>3
<1> QED BY <1>1, <1>2, StepParts

-----------------------------------------------------------------------------
(* The initial state and the beginning of a call. *)

LazyInfo == [buffer : Seq(Record), index : Seq(Entry), checked : BOOLEAN]

(* Nothing is found in an empty buffer. *)
LEMMA EmptyFinds ==
  /\ \A f \in LazyFields : RawField(<<>>, <<>>, f) = Selected(<<>>, OfField(f))
  /\ \A f : UnmarshalField(<<>>, f) = <<>>
  /\ NoLazy \in LazyInfo /\ <<>> \in Seq(Record) /\ <<>> \in Seq(Entry)
<1>1. PICK e : e = <<>>
  OBVIOUS
<1>2. e \in Seq(Record) /\ e \in Seq(Entry) /\ Len(e) = 0
  BY <1>1
<1>3. Building(e, e, Len(e), LazyFields)
  BY <1>1, <1>2, BuildingStarts
<1>4. LazyFields \subseteq Fields /\ \A p, q \in 1 .. Len(e) : p < q => e[p].num <= e[q].num
  BY <1>2, Constants
<1>5. \A f \in LazyFields : RawField(e, e, f) = Selected(e, OfField(f))
  BY <1>2, <1>3, <1>4, InOrderFinds
<1>6. \A f : UnmarshalField(<<>>, f) = <<>>
  BY SelectedEmpty DEF UnmarshalField
<1> QED
  BY <1>1, <1>2, <1>5, <1>6 DEF NoLazy, LazyInfo

(* The invariant holds initially. *)
LEMMA InitInv == Init => Inv
<1> SUFFICES ASSUME Init PROVE Inv
  OBVIOUS
<1>0. MaxRecords \in Nat /\ MaxCalls \in Nat
  BY FieldsAssumption
<1>1. /\ present = {} /\ ptr = [f \in Fields |-> <<>>] /\ unknown = <<>> /\ lazy = NoLazy
      /\ opts \in Options /\ lazyDecode = FALSE /\ lazyFields = [f \in LazyFields |-> "validate"]
      /\ lazyIndex = <<>> /\ lastNum = 0 /\ outOfOrder = FALSE /\ initialized = TRUE
      /\ status = "ok" /\ records = 0 /\ calls = 0
      /\ want = [f \in Fields |-> <<>>] /\ wantUnknown = <<>> /\ failed = FALSE
      /\ lost = [f \in Fields |-> 0] /\ skipped = {}
  BY DEF Init, Empty, Nil
<1>2. lazy.buffer = <<>> /\ lazy.index = <<>> /\ lazy \in LazyInfo /\ Len(lazy.buffer) = 0
  BY <1>1, EmptyFinds DEF NoLazy
<1>3. TypeOK
  <2>1. ptr \in [Fields -> Seq(Record)] /\ want \in [Fields -> Seq(Record)] /\ lost \in [Fields -> Nat]
    BY <1>1
  <2>2. lazyFields \in [LazyFields -> {"validate", "now", "later"}]
    BY <1>1
  <2>3. records \in 0 .. MaxRecords /\ calls \in 0 .. MaxCalls
    BY <1>0, <1>1
  <2>4. unknown \in Seq(Record) /\ wantUnknown \in Seq(Record) /\ lazyIndex \in Seq(Entry) /\ DOMAIN lazyIndex = {}
    BY <1>1
  <2> QED
    BY <1>1, <1>2, <2>1, <2>2, <2>3, <2>4 DEF TypeOK, LazyInfo
<1>4. Serials
  <2>1. DOMAIN wantUnknown = {}
    BY <1>1
  <2> QED BY <1>1, <1>2, <2>1 DEF Serials
<1>5. Flags /\ Errors
  BY <1>1 DEF Flags, Errors, Scanning
<1>6. Unknowns
  BY <1>1, SelectedEmpty DEF Unknowns
<1>7. Partials
  <2>1. want = Empty /\ \A f \in Fields : DOMAIN want[f] = {}
    BY <1>1 DEF Empty
  <2> QED BY <1>1, <2>1 DEF Partials
<1>8. IndexSoFar
  BY <1>1 DEF IndexSoFar, Scanning
<1>9. IndexStored
  BY <1>2, EmptyFinds DEF IndexStored
<1>10. FieldsSoFar
  <2>1. \A f \in Fields : Held(f)
    BY <1>1 DEF Held, Nil
  <2> QED BY <1>1, <2>1 DEF FieldsSoFar, Scanning
<1> QED
  BY <1>3, <1>4, <1>5, <1>6, <1>7, <1>8, <1>9, <1>10 DEF Inv

(* What every call does when it begins. *)
LEMMA BeginFacts ==
  ASSUME TypeOK, NEW o \in Options, NEW pr, NEW lz \in LazyInfo, Begin(o, pr, lz), calls < MaxCalls
  PROVE  /\ opts' = o /\ status' = "scan" /\ calls' = calls + 1 /\ calls' \in 0 .. MaxCalls
         /\ records' = records /\ failed' = FALSE /\ Later' = {} /\ lazyIndex' = <<>> /\ lastNum' = 0
         /\ outOfOrder' = FALSE /\ initialized' = TRUE
         /\ lazyFields' = [f \in LazyFields |-> "validate"]
         /\ lazyDecode' = (o.mode = "default" /\ pr = {})
         /\ lazy' \in LazyInfo /\ lazy'.index = lz.index
         /\ lazyDecode' => lazy'.buffer = <<>> /\ lazy'.checked = ~o.allowPartial
         /\ ~lazyDecode' => lazy' = lz
         /\ Errors' /\ IndexSoFar'
<1>0. o.allowPartial \in BOOLEAN /\ o.mode \in Modes
  BY DEF Options
<1>1. /\ opts' = o /\ status' = "scan" /\ calls' = calls + 1
      /\ records' = records /\ failed' = FALSE /\ lazyIndex' = <<>> /\ lastNum' = 0
      /\ outOfOrder' = FALSE /\ initialized' = TRUE
      /\ lazyFields' = [f \in LazyFields |-> "validate"]
      /\ lazyDecode' = (o.mode = "default" /\ pr = {})
      /\ lazy' = IF o.mode = "default" /\ pr = {}
                 THEN [lz EXCEPT !.buffer = <<>>, !.checked = ~o.allowPartial] ELSE lz
  BY DEF Begin
<1>2. calls' \in 0 .. MaxCalls
  BY <1>1, Types, Constants
<1>3. Later' = {}
  BY <1>1 DEF Later
<1>7. /\ lazy' \in LazyInfo /\ lazy'.index = lz.index
      /\ lazyDecode' => lazy'.buffer = <<>> /\ lazy'.checked = ~o.allowPartial
      /\ ~lazyDecode' => lazy' = lz
  <2>1. CASE o.mode = "default" /\ pr = {}
    <3>1. PICK e \in Seq(Record), k \in BOOLEAN : e = <<>> /\ k = ~o.allowPartial
      BY EmptyFinds
    <3>2. PICK z : z = [lz EXCEPT !.buffer = e, !.checked = k]
      OBVIOUS
    <3>3. z \in LazyInfo /\ z.index = lz.index /\ z.buffer = e /\ z.checked = k
      BY <3>2 DEF LazyInfo
    <3>4. lazy' = z
      BY <1>1, <2>1, <3>1, <3>2, Zenon
    <3> QED BY <1>1, <2>1, <3>1, <3>3, <3>4
  <2>2. CASE ~(o.mode = "default" /\ pr = {})
    BY <1>1, <2>2
  <2> QED BY <2>1, <2>2
<1>8. Errors'
  <2>1. CASE lazyDecode'
    <3>1. DOMAIN lazy'.buffer = {}
      BY <1>7, <2>1
    <3> QED
      BY <1>1, <1>3, <2>1, <3>1 DEF Errors, Scanning
  <2>2. CASE ~lazyDecode'
    BY <1>1, <1>3, <2>2 DEF Errors, Scanning
  <2> QED BY <2>1, <2>2
<1>9. IndexSoFar'
  <2> SUFFICES ASSUME lazyDecode' PROVE IndexSoFar'
    BY <1>1 DEF IndexSoFar, Scanning
  <2>1. PICK e : e = <<>>
    OBVIOUS
  <2>2. lazy'.buffer = e /\ Len(e) = 0 /\ lazyIndex' = e
    BY <1>1, <1>7, <2>1
  <2>3. Building(e, e, 0, LazyFields)
    BY <2>1, BuildingStarts
  <2>4. NumAt(e, 0) = 0
    BY DEF NumAt
  <2> QED
    BY <1>1, <2>2, <2>3, <2>4 DEF IndexSoFar, Building
<1> QED
  BY <1>1, <1>2, <1>3, <1>7, <1>8, <1>9

(* The types when a call begins. *)
LEMMA BeginTypes ==
  ASSUME TypeOK, NEW o \in Options, NEW pr, NEW lz \in LazyInfo, Begin(o, pr, lz), calls < MaxCalls,
         present' \subseteq Fields, ptr' \in [Fields -> Seq(Record)], unknown' \in Seq(Record),
         want' \in [Fields -> Seq(Record)], wantUnknown' \in Seq(Record),
         lost' \in [Fields -> Nat], skipped' \subseteq Record
  PROVE  TypeOK'
<1>1. /\ opts' = o /\ status' = "scan" /\ calls' \in 0 .. MaxCalls
      /\ records' = records /\ failed' = FALSE /\ lazyIndex' = <<>> /\ lastNum' = 0
      /\ outOfOrder' = FALSE /\ initialized' = TRUE
      /\ lazyFields' = [f \in LazyFields |-> "validate"]
      /\ lazyDecode' = (o.mode = "default" /\ pr = {}) /\ lazy' \in LazyInfo
  BY BeginFacts
<1>2. lazyIndex' \in Seq(Entry) /\ DOMAIN lazyIndex' = {}
  BY <1>1
<1>3. lazyFields' \in [LazyFields -> {"validate", "now", "later"}]
  BY <1>1
<1>4. records' \in 0 .. MaxRecords
  BY <1>1 DEF TypeOK
<1>5. lazyDecode' \in BOOLEAN
  BY <1>1
<1> QED
  BY <1>1, <1>2, <1>3, <1>4, <1>5 DEF TypeOK, LazyInfo

(* Unmarshal of a message that is reset first. *)
LEMMA ResetStep ==
  ASSUME Inv, NEW o \in Options, UnmarshalReset(o)
  PROVE  Inv'
<1>0. /\ TypeOK /\ calls < MaxCalls /\ Begin(o, {}, NoLazy) /\ NoLazy \in LazyInfo
      /\ present' = {} /\ ptr' = [f \in Fields |-> <<>>] /\ unknown' = <<>>
      /\ want' = [f \in Fields |-> <<>>] /\ wantUnknown' = <<>>
      /\ lost' = [f \in Fields |-> 0] /\ skipped' = {}
  BY EmptyFinds DEF Inv, UnmarshalReset, Nil, Empty
<1>1. /\ opts' = o /\ status' = "scan" /\ calls' = calls + 1 /\ failed' = FALSE /\ records' = records
      /\ lazyDecode' = (o.mode = "default" /\ {} = {})
      /\ lazyFields' = [f \in LazyFields |-> "validate"]
      /\ lazyDecode' => lazy'.buffer = <<>> /\ lazy'.checked = ~o.allowPartial
      /\ ~lazyDecode' => lazy' = NoLazy
      /\ Errors' /\ IndexSoFar'
  BY <1>0, BeginFacts
<1>2. TypeOK'
  <2>1. /\ present' \subseteq Fields /\ ptr' \in [Fields -> Seq(Record)] /\ unknown' \in Seq(Record)
        /\ want' \in [Fields -> Seq(Record)] /\ wantUnknown' \in Seq(Record)
        /\ lost' \in [Fields -> Nat] /\ skipped' \subseteq Record
    BY <1>0
  <2> QED BY <1>0, <2>1, BeginTypes
<1>3. lazy'.buffer = <<>> /\ (~lazyDecode' => lazy'.index = <<>>)
  BY <1>1 DEF NoLazy
<1>4. Serials'
  <2>1. Len(lazy'.buffer) = 0 /\ DOMAIN wantUnknown' = {} /\ records' \in Nat
    BY <1>0, <1>1, <1>3, Types
  <2> QED BY <1>0, <2>1 DEF Serials
<1>5. Flags'
  BY <1>0, <1>1 DEF Flags
<1>6. Unknowns'
  BY <1>0, SelectedEmpty DEF Unknowns
<1>7. Partials'
  <2>1. calls' # 0
    BY <1>0, <1>1, Types
  <2>2. \A f \in Fields : DOMAIN want'[f] = {}
    BY <1>0
  <2> QED BY <2>1, <2>2 DEF Partials
<1>8. IndexStored'
  BY <1>1, <1>3, EmptyFinds DEF IndexStored, Settled, Scanning
<1>9. FieldsSoFar'
  <2>1. \A f \in Fields : Held(f)'
    BY <1>0 DEF Held, Nil
  <2>2. ASSUME NEW f \in Fields PROVE Underway(f)'
    <3>1. UnmarshalField(lazy'.buffer, f) = <<>>
      BY <1>3, EmptyFinds
    <3>2. f \in PlainFields <=> f \notin LazyFields
      BY Constants
    <3> QED BY <1>0, <1>1, <3>1, <3>2 DEF Underway, Nil
  <2> QED BY <2>1, <2>2 DEF FieldsSoFar
<1> QED
  BY <1>1, <1>2, <1>4, <1>5, <1>6, <1>7, <1>8, <1>9 DEF Inv

(* Unmarshal with Merge. *)
LEMMA MergeStep ==
  ASSUME Inv, NEW o \in Options, UnmarshalMerge(o)
  PROVE  Inv'
<1>0. /\ TypeOK /\ calls < MaxCalls /\ Begin(o, present, lazy) /\ lazy \in LazyInfo /\ status = "ok"
      /\ present' = present /\ ptr' = ptr /\ unknown' = unknown
      /\ want' = want /\ wantUnknown' = wantUnknown /\ lost' = lost /\ skipped' = skipped /\ Settled
  BY DEF Inv, UnmarshalMerge, message, TypeOK, LazyInfo, Settled
<1>1. /\ opts' = o /\ status' = "scan" /\ calls' = calls + 1 /\ failed' = FALSE /\ records' = records
      /\ lazyDecode' = (o.mode = "default" /\ present = {})
      /\ lazyFields' = [f \in LazyFields |-> "validate"]
      /\ lazyDecode' => lazy'.buffer = <<>> /\ lazy'.checked = ~o.allowPartial
      /\ ~lazyDecode' => lazy' = lazy
      /\ Errors' /\ IndexSoFar'
  BY <1>0, BeginFacts
<1>2. TypeOK'
  <2>1. /\ present' \subseteq Fields /\ ptr' \in [Fields -> Seq(Record)] /\ unknown' \in Seq(Record)
        /\ want' \in [Fields -> Seq(Record)] /\ wantUnknown' \in Seq(Record)
        /\ lost' \in [Fields -> Nat] /\ skipped' \subseteq Record
    BY <1>0 DEF TypeOK
  <2> QED BY <1>0, <2>1, BeginTypes
<1>3. \A f \in Fields : Held(f)
  BY <1>0 DEF Inv, FieldsSoFar
<1>4. lazyDecode' => \A f \in Fields : want[f] = <<>> /\ ptr[f] = <<>> /\ lost[f] = 0 /\ f \notin present
  <2> SUFFICES ASSUME present = {}, NEW f \in Fields
               PROVE  want[f] = <<>> /\ ptr[f] = <<>> /\ lost[f] = 0 /\ f \notin present
    BY <1>1
  <2>1. Held(f)
    BY <1>3
  <2> QED BY <2>1 DEF Held, Nil
<1>5. Serials'
  <2>1. Len(lazy'.buffer) <= records
    <3>1. CASE lazyDecode'
      <4>1. Len(lazy'.buffer) = 0
        BY <1>1, <3>1
      <4> QED BY <4>1, <1>0, Types
    <3>2. CASE ~lazyDecode'
      BY <3>2, <1>1 DEF Inv, Serials
    <3> QED BY <3>1, <3>2
  <2> QED BY <1>0, <1>1, <2>1 DEF Inv, Serials
<1>6. Flags'
  BY <1>0, <1>1, <1>4 DEF Flags
<1>7. Unknowns'
  <2>1. ~failed
    BY <1>0 DEF Inv, Errors
  <2>2. unknown = Selected(wantUnknown, Record \ skipped)
    BY <1>0, <2>1 DEF Inv, Unknowns
  <2> QED BY <1>0, <2>2 DEF Unknowns
<1>8. Partials'
  <2>1. calls' # 0 /\ (calls' <= 1 => calls = 0)
    BY <1>0, <1>1, Types
  <2>2. calls = 0 => \A f \in Fields : DOMAIN want[f] = {}
    BY DEF Inv, Partials, Empty
  <2> QED BY <1>0, <2>1, <2>2 DEF Partials
<1>9. IndexStored'
  BY <1>0, <1>1 DEF Inv, IndexStored, Settled, Scanning
<1>10. FieldsSoFar'
  <2>1. ASSUME ~lazyDecode', NEW f \in Fields PROVE Held(f)'
    <3>1. lazy' = lazy /\ Held(f)
      BY <1>1, <1>3, <2>1
    <3> QED BY <1>0, <3>1 DEF Held
  <2>2. ASSUME lazyDecode', NEW f \in Fields PROVE Underway(f)'
    <3>1. UnmarshalField(lazy'.buffer, f) = <<>>
      BY <1>1, <2>2, EmptyFinds
    <3>2. f \in PlainFields <=> f \notin LazyFields
      BY Constants
    <3>3. want[f] = <<>> /\ ptr[f] = <<>> /\ f \notin present
      BY <1>4, <2>2
    <3> QED BY <1>0, <1>1, <3>1, <3>2, <3>3 DEF Underway, Nil
  <2> QED BY <1>1, <2>1, <2>2 DEF FieldsSoFar, Settled, Scanning
<1> QED
  BY <1>1, <1>2, <1>5, <1>6, <1>7, <1>8, <1>9, <1>10 DEF Inv

-----------------------------------------------------------------------------
(* The end of a call. *)

(* Held, of a presence set, pointers and lazy information. *)
HeldBy(f, pr, p, lz) ==
  LET due == SubSeq(want[f], lost[f] + 1, Len(want[f]))
  IN  /\ (f \in pr) <=> (want[f] # <<>>)
      /\ f \notin pr => p[f] = Nil /\ lost[f] = 0
      /\ f \in pr => /\ lost[f] < Len(want[f])
                     /\ p[f] # Nil => p[f] = due
                     /\ p[f] = Nil => f \in LazyFields /\ LazyUnmarshal(lz, f) = due

(* The end fails exactly when the reference has failed, groups apart. *)
LEMMA EndErrors ==
  ASSUME TypeOK, Errors, status = "scan"
  PROVE  /\ (\E f \in Later : DecodeFails(f)) => failed \/ (opts.group /\ Later # {})
         /\ (\A f \in Later : ~DecodeFails(f)) => ~failed
<1>1. CASE lazyDecode
  <2>1. /\ \A i \in DOMAIN lazy.buffer : Bad(lazy.buffer[i]) => lazy.buffer[i].num \in Later
        /\ failed <=> \E i \in DOMAIN lazy.buffer : Bad(lazy.buffer[i])
    BY <1>1 DEF Errors, Scanning, TypeOK
  <2>2. ASSUME NEW f \in Later, DecodeFails(f) PROVE failed \/ (opts.group /\ Later # {})
    BY <2>1, <2>2 DEF DecodeFails
  <2>3. ASSUME failed PROVE \E f \in Later : DecodeFails(f)
    <3>1. PICK i \in DOMAIN lazy.buffer : Bad(lazy.buffer[i])
      BY <2>1, <2>3
    <3> QED BY <2>1, <3>1 DEF DecodeFails
  <2> QED
    BY <2>2, <2>3
<1>2. CASE ~lazyDecode
  <2>1. ~failed /\ Later = {}
    BY <1>2 DEF Errors, Scanning, TypeOK
  <2> QED
    BY <2>1
<1> QED BY <1>1, <1>2

(* The first record at which decoding a field fails is one. *)
LEMMA FailsThen ==
  ASSUME lazy.buffer \in Seq(Record), NEW f, NEW n \in 0..Len(lazy.buffer), FailsAfter(f, n)
  PROVE  DecodeFails(f)
<1>1. CASE n < Len(lazy.buffer)
  <2>1. n + 1 \in DOMAIN lazy.buffer
    BY <1>1
  <2> QED
    BY <1>1, <2>1 DEF FailsAfter, DecodeFails
<1>2. CASE ~(n < Len(lazy.buffer))
  BY <1>2 DEF FailsAfter, DecodeFails
<1> QED
  BY <1>1, <1>2

(* What the end of a call makes of the presence bits, the pointers and the  *)
(* lazy information.                                                        *)
EndPresent == present \cup Later
EndPtr     == [f \in Fields |-> IF f \in Later THEN UnmarshalField(lazy.buffer, f) ELSE ptr[f]]
EndLazy    == IF lazyDecode THEN [lazy EXCEPT !.index = StoredIndex] ELSE lazy

EndsWell(pr, p, lz) ==
  /\ pr \subseteq Fields /\ p \in [Fields -> Seq(Record)] /\ lz \in LazyInfo
  /\ lz.buffer = lazy.buffer /\ lz.checked = lazy.checked
  /\ \A f \in LazyFields : RawField(lz.index, lz.buffer, f) = Selected(lz.buffer, OfField(f))
  /\ \A f \in Fields : HeldBy(f, pr, p, lz)

(* At the end every field has what the reference has. *)
LEMMA EndFields ==
  ASSUME TypeOK, Flags, Errors, IndexSoFar, IndexStored, FieldsSoFar, status = "scan",
         \A f \in Later : ~DecodeFails(f)
  PROVE  EndsWell(EndPresent, EndPtr, EndLazy)
<1>a. PICK pr, p, lz : pr = EndPresent /\ p = EndPtr /\ lz = EndLazy
  OBVIOUS
<1>b. /\ pr = present \cup Later
      /\ p = [f \in Fields |-> IF f \in Later THEN UnmarshalField(lazy.buffer, f) ELSE ptr[f]]
      /\ lz = IF lazyDecode THEN [lazy EXCEPT !.index = StoredIndex] ELSE lazy
  BY <1>a DEF EndPresent, EndPtr, EndLazy
<1> SUFFICES EndsWell(pr, p, lz)
  BY <1>a
<1>0. /\ present \subseteq Fields /\ ptr \in [Fields -> Seq(Record)] /\ lazy \in LazyInfo
      /\ want \in [Fields -> Seq(Record)] /\ lost \in [Fields -> Nat]
      /\ lazyFields \in [LazyFields -> {"validate", "now", "later"}] /\ lazyDecode \in BOOLEAN
  BY DEF TypeOK, LazyInfo
<1>1. ~failed
  BY EndErrors
<1>2. pr \subseteq Fields
  BY <1>b, <1>0, Constants DEF Later
<1>3. p \in [Fields -> Seq(Record)]
  <2>1. PICK B \in Seq(Record) : B = lazy.buffer
    BY Types
  <2>2. \A f \in Fields : UnmarshalField(B, f) \in Seq(Record) /\ ptr[f] \in Seq(Record)
    BY <1>0, FieldDecoded
  <2> QED BY <1>b, <2>1, <2>2
<1>4. CASE ~lazyDecode
  <2>1. Later = {} /\ Settled
    BY <1>4, <1>0 DEF Errors, Scanning, Settled
  <2>2. lz = lazy /\ pr = present /\ \A f \in Fields : p[f] = ptr[f]
    BY <1>b, <1>4, <2>1
  <2>3. \A f \in LazyFields : RawField(lz.index, lz.buffer, f) = Selected(lz.buffer, OfField(f))
    BY <2>1, <2>2 DEF IndexStored
  <2>4. ASSUME NEW f \in Fields PROVE HeldBy(f, pr, p, lz)
    <3>1. Held(f)
      BY <2>1 DEF FieldsSoFar
    <3> QED BY <2>2, <3>1 DEF Held, HeldBy
  <2> QED
    BY <1>0, <1>2, <1>3, <2>2, <2>3, <2>4 DEF EndsWell
<1>5. CASE lazyDecode
  <2>1. Scanning(TRUE)
    BY <1>0, <1>5 DEF Scanning
  <2>2. PICK X \in Seq(Entry) : X = StoredIndex
    BY <2>1, StoredFinds
  <2>3. lz = [lazy EXCEPT !.index = X]
    BY <1>b, <1>5, <2>2
  <2>4. lz \in LazyInfo /\ lz.buffer = lazy.buffer /\ lz.checked = lazy.checked /\ lz.index = X
    BY <1>0, <2>3 DEF LazyInfo
  <2>5. \A f \in LazyFields : RawField(lz.index, lz.buffer, f) = Selected(lz.buffer, OfField(f))
    BY <2>1, <2>2, <2>4, StoredFinds
  <2>6. ASSUME NEW f \in Fields PROVE HeldBy(f, pr, p, lz)
    <3>1. Underway(f) /\ lost[f] = 0
      BY <1>1, <1>5, <2>1 DEF FieldsSoFar, Flags, Scanning
    <3>2. f \in PlainFields <=> f \notin LazyFields
      BY Constants
    <3>3. PICK w \in Seq(Record) : w = want[f]
      BY <1>0
    <3>4. SubSeq(w, lost[f] + 1, Len(w)) = w /\ (w # <<>> => 0 < Len(w))
      <4>1. SubSeq(w, 0 + 1, Len(w)) = w /\ (w # <<>> => 0 < Len(w))
        OBVIOUS
      <4> QED BY <4>1, <3>1
    <3>5. ASSUME f \in LazyFields PROVE LazyUnmarshal(lz, f) = UnmarshalField(lazy.buffer, f)
      <4>1. RawField(lz.index, lz.buffer, f) = Selected(lazy.buffer, OfField(f))
        BY <2>4, <2>5, <3>5
      <4>2. UnmarshalField(Selected(lazy.buffer, OfField(f)), f) = UnmarshalField(lazy.buffer, f)
        BY Types, FieldDecoded
      <4> QED BY <4>1, <4>2 DEF LazyUnmarshal
    <3>6. p[f] = IF f \in Later THEN UnmarshalField(lazy.buffer, f) ELSE ptr[f]
      BY <1>b
    <3>7. CASE f \in PlainFields
      <4>1. f \notin Later /\ ptr[f] = w /\ (f \in present <=> w # <<>>)
        BY <3>1, <3>2, <3>3, <3>7 DEF Later, Underway
      <4>2. (f \in pr <=> w # <<>>) /\ p[f] = w
        BY <1>b, <3>6, <4>1
      <4> QED BY <3>1, <3>3, <3>4, <4>2 DEF HeldBy, Nil
    <3>8. CASE f \in LazyFields /\ lazyFields[f] = "validate"
      <4>1. f \notin Later /\ ptr[f] = Nil /\ w = UnmarshalField(lazy.buffer, f) /\ (f \in present <=> w # <<>>)
        BY <3>1, <3>2, <3>3, <3>8 DEF Later, Underway
      <4>2. (f \in pr <=> w # <<>>) /\ p[f] = Nil /\ LazyUnmarshal(lz, f) = w
        BY <1>b, <3>5, <3>6, <3>8, <4>1
      <4> QED BY <3>1, <3>3, <3>4, <3>8, <4>2 DEF HeldBy
    <3>9. CASE f \in LazyFields /\ lazyFields[f] = "now"
      <4>1. f \notin Later /\ ptr[f] = w /\ f \in present /\ w # <<>>
        BY <3>1, <3>2, <3>3, <3>9 DEF Later, Underway
      <4>2. f \in pr /\ w # <<>> /\ p[f] = w
        BY <1>b, <3>6, <4>1
      <4> QED BY <3>1, <3>3, <3>4, <4>2 DEF HeldBy, Nil
    <3>10. CASE f \in LazyFields /\ lazyFields[f] = "later"
      <4>1. f \in Later /\ w = UnmarshalField(lazy.buffer, f) /\ w # <<>>
        BY <3>1, <3>2, <3>3, <3>10 DEF Later, Underway
      <4>2. f \in pr /\ w # <<>> /\ p[f] = w
        BY <1>b, <3>6, <4>1
      <4> QED BY <3>1, <3>3, <3>4, <4>2 DEF HeldBy, Nil
    <3> QED
      BY <1>0, <3>2, <3>7, <3>8, <3>9, <3>10
  <2> QED
    BY <1>2, <1>3, <2>4, <2>5, <2>6 DEF EndsWell
<1> QED BY <1>0, <1>4, <1>5

(* The end of a call. *)
LEMMA EndStep ==
  ASSUME Inv, EndOfInput
  PROVE  Inv'
<1>0. /\ TypeOK /\ Serials /\ Flags /\ Errors /\ Unknowns /\ Partials
      /\ IndexSoFar /\ IndexStored /\ FieldsSoFar
  BY DEF Inv
<1>1. /\ status = "scan" /\ opts' = opts /\ records' = records /\ calls' = calls
      /\ lazyDecode' = lazyDecode /\ lazyFields' = lazyFields /\ lazyIndex' = lazyIndex
      /\ lastNum' = lastNum /\ outOfOrder' = outOfOrder /\ initialized' = initialized
      /\ want' = want /\ wantUnknown' = wantUnknown /\ failed' = failed /\ lost' = lost /\ skipped' = skipped
  BY DEF EndOfInput, locals, history
<1>2. Later' = Later
  BY <1>1 DEF Later
<1>3. \A f \in Later : ~DecodeFails(f)
  BY DEF EndOfInput
<1>4. QED
  <2>0. PICK pr, p, lz :
          /\ pr = present \cup Later
          /\ p = [f \in Fields |-> IF f \in Later THEN UnmarshalField(lazy.buffer, f) ELSE ptr[f]]
          /\ lz = IF lazyDecode THEN [lazy EXCEPT !.index = StoredIndex] ELSE lazy
          /\ pr = EndPresent /\ p = EndPtr /\ lz = EndLazy
    BY DEF EndPresent, EndPtr, EndLazy
  <2>1. /\ present' = pr /\ lazy' = lz /\ unknown' = unknown
        /\ status' \in {"ok", "required"}
        /\ ptr' = p \/ ptr' = Checked(pr, p, lz)
    BY <2>0 DEF EndOfInput, Decoded
  <2>2. /\ pr \subseteq Fields /\ p \in [Fields -> Seq(Record)] /\ lz \in LazyInfo
        /\ lz.buffer = lazy.buffer /\ lz.checked = lazy.checked
        /\ \A f \in LazyFields : RawField(lz.index, lz.buffer, f) = Selected(lz.buffer, OfField(f))
        /\ \A f \in Fields : HeldBy(f, pr, p, lz)
    <3>1. EndsWell(EndPresent, EndPtr, EndLazy)
      BY <1>0, <1>1, <1>3, EndFields
    <3>2. EndsWell(pr, p, lz)
      BY <2>0, <3>1
    <3> QED BY <3>2 DEF EndsWell
  <2>3. ASSUME NEW f \in LazyFields PROVE LazyUnmarshal(lz, f) \in Seq(Record)
    <3>1. RawField(lz.index, lz.buffer, f) \in Seq(Record)
      <4>1. lz.buffer \in Seq(Record)
        BY <2>2 DEF LazyInfo
      <4>2. Selected(lz.buffer, OfField(f)) \in Seq(Record)
        BY <4>1, SelectedType
      <4> QED BY <2>2, <4>2
    <3> QED BY <3>1, FieldDecoded DEF LazyUnmarshal
  <2>4. /\ ptr' \in [Fields -> Seq(Record)]
        /\ \A f \in Fields : \/ ptr'[f] = p[f]
                             \/ f \in pr /\ f \in LazyFields /\ p[f] = Nil /\ ptr'[f] = LazyUnmarshal(lz, f)
    <3>1. CASE ptr' = p
      BY <2>2, <3>1
    <3>2. CASE ptr' = Checked(pr, p, lz)
      <4>1. \A f \in Fields : ptr'[f] = IF f \in pr \cap LazyFields /\ p[f] = Nil /\ ~lz.checked
                                        THEN LazyUnmarshal(lz, f) ELSE p[f]
        BY <3>2 DEF Checked
      <4>2. ptr' = [f \in Fields |-> IF f \in pr \cap LazyFields /\ p[f] = Nil /\ ~lz.checked
                                     THEN LazyUnmarshal(lz, f) ELSE p[f]]
        BY <3>2 DEF Checked
      <4>3. ptr' \in [Fields -> Seq(Record)]
        BY <2>2, <2>3, <4>2
      <4> QED BY <4>1, <4>3
    <3> QED BY <2>1, <3>1, <3>2
  <2>5. TypeOK'
    <3>1. lazy' \in [buffer : Seq(Record), index : Seq(Entry), checked : BOOLEAN]
          /\ lazy'.buffer = lazy.buffer
      BY <2>1, <2>2 DEF LazyInfo
    <3> QED
      BY <1>0, <1>1, <2>1, <2>2, <2>4, <3>1 DEF TypeOK
  <2>6. Serials' /\ Flags'
    BY <1>0, <1>1, <2>1, <2>2 DEF Serials, Flags
  <2>7. ~failed
    BY <1>0, <1>1, <1>3, EndErrors
  <2>8. Errors'
    BY <1>1, <2>1, <2>7 DEF Errors, Scanning
  <2>9. Unknowns' /\ Partials'
    BY <1>0, <1>1, <1>2, <2>1, <2>7 DEF Unknowns, Partials
  <2>10. IndexSoFar' /\ IndexStored'
    BY <2>1, <2>2 DEF IndexSoFar, IndexStored, Scanning
  <2>11. FieldsSoFar'
    <3> SUFFICES ASSUME NEW f \in Fields PROVE Held(f)'
      BY <2>1 DEF FieldsSoFar, Scanning
    <3>1. PICK w \in Seq(Record), l \in Nat : w = want[f] /\ l = lost[f]
      BY <1>0 DEF TypeOK
    <3>2. PICK due : due = SubSeq(w, l + 1, Len(w))
      OBVIOUS
    <3>3. HeldBy(f, pr, p, lz)
      BY <2>2
    <3>4. l < Len(w) => due # Nil
      <4>1. l < Len(w) => Len(due) = Len(w) - l
        BY <3>2
      <4> QED BY <4>1 DEF Nil
    <3>5. \/ ptr'[f] = p[f]
          \/ f \in pr /\ f \in LazyFields /\ p[f] = Nil /\ ptr'[f] = LazyUnmarshal(lz, f)
      BY <2>4
    <3>6. CASE ptr'[f] = p[f]
      BY <1>1, <2>1, <3>3, <3>6 DEF Held, HeldBy
    <3>7. CASE f \in pr /\ f \in LazyFields /\ p[f] = Nil /\ ptr'[f] = LazyUnmarshal(lz, f)
      <4>1. ptr'[f] = due /\ l < Len(w) /\ w # <<>>
        BY <3>1, <3>2, <3>3, <3>7 DEF HeldBy
      <4>2. ptr'[f] # Nil
        BY <3>4, <4>1
      <4> QED BY <1>1, <2>1, <3>1, <3>2, <3>7, <4>1, <4>2 DEF Held
    <3> QED BY <3>5, <3>6, <3>7
  <2> QED
    BY <2>5, <2>6, <2>8, <2>9, <2>10, <2>11 DEF Inv

(* A call ends with the error of a postponed field. *)
LEMMA LaterFailsStep ==
  ASSUME Inv, LaterFails
  PROVE  Inv'
<1>0. /\ TypeOK /\ Serials /\ Flags /\ Errors /\ Unknowns /\ Partials
      /\ IndexSoFar /\ IndexStored /\ FieldsSoFar
  BY DEF Inv
<1>1. /\ status = "scan" /\ status' = "invalid" /\ opts' = opts /\ records' = records /\ calls' = calls
      /\ lazyDecode' = lazyDecode /\ lazyFields' = lazyFields /\ lazyIndex' = lazyIndex
      /\ lastNum' = lastNum /\ outOfOrder' = outOfOrder /\ initialized' = initialized
      /\ want' = want /\ wantUnknown' = wantUnknown /\ failed' = failed /\ lost' = lost /\ skipped' = skipped
      /\ unknown' = unknown /\ lazy' = lazy
  BY DEF LaterFails, locals, history
<1>2. Later' = Later
  BY <1>1 DEF Later
<1>3. PICK f \in Later, n \in 0..Len(lazy.buffer), done \in SUBSET Later :
        /\ FailsAfter(f, n) /\ present' = present \cup done
        /\ ptr' = [Decoded(done) EXCEPT ![f] = UnmarshalField(SubSeq(lazy.buffer, 1, n), f)]
  BY DEF LaterFails
<1>4. PICK B \in Seq(Record) : B = lazy.buffer
  BY <1>0, Types
<1>5. DecodeFails(f)
  BY <1>3, <1>4, FailsThen
<1>6. /\ ptr \in [Fields -> Seq(Record)] /\ present \subseteq Fields /\ Later \subseteq Fields
  BY <1>0, Constants DEF TypeOK, Later
<1>7. ptr' \in [Fields -> Seq(Record)]
  <2>1. \A g \in Fields : UnmarshalField(B, g) \in Seq(Record)
    BY <1>4, FieldDecoded
  <2>2. Decoded(done) = [g \in Fields |-> IF g \in done THEN UnmarshalField(B, g) ELSE ptr[g]]
    BY <1>4 DEF Decoded
  <2>3. Decoded(done) \in [Fields -> Seq(Record)]
    BY <1>6, <2>1, <2>2
  <2>4. SubSeq(B, 1, n) \in Seq(Record)
    BY <1>3, <1>4
  <2>5. PICK s \in Seq(Record) : s = UnmarshalField(SubSeq(lazy.buffer, 1, n), f)
    BY <1>4, <1>6, <2>4, FieldDecoded
  <2> QED
    BY <1>3, <2>3, <2>5
<1>8. TypeOK' /\ Serials'
  BY <1>0, <1>1, <1>3, <1>6, <1>7 DEF TypeOK, Serials
<1>9. failed \/ (opts.group /\ Later # {})
  BY <1>0, <1>1, <1>5, EndErrors
<1>10. Errors'
  BY <1>1, <1>2, <1>9 DEF Errors, Scanning
<1>11. Flags' /\ Unknowns' /\ Partials' /\ IndexSoFar' /\ IndexStored' /\ FieldsSoFar'
  BY <1>0, <1>1 DEF Flags, Unknowns, Partials, IndexSoFar, IndexStored, FieldsSoFar, Settled, Scanning
<1> QED
  BY <1>8, <1>10, <1>11 DEF Inv

-----------------------------------------------------------------------------
(* The application, and the theorems. *)

(* A getter of an undecoded field. *)
LEMMA GetStep ==
  ASSUME Inv, NEW f \in Fields, Get(f)
  PROVE  Inv'
<1>0. /\ TypeOK /\ Serials /\ Flags /\ Errors /\ Unknowns /\ Partials
      /\ IndexSoFar /\ IndexStored /\ FieldsSoFar
  BY DEF Inv
<1>1. /\ status = "ok" /\ status' = status /\ f \in LazyFields /\ f \in present /\ ptr[f] = Nil
      /\ present' = present /\ unknown' = unknown /\ lazy' = lazy
      /\ opts' = opts /\ records' = records /\ calls' = calls
      /\ lazyDecode' = lazyDecode /\ lazyFields' = lazyFields /\ lazyIndex' = lazyIndex
      /\ lastNum' = lastNum /\ outOfOrder' = outOfOrder /\ initialized' = initialized
      /\ want' = want /\ wantUnknown' = wantUnknown /\ failed' = failed /\ lost' = lost /\ skipped' = skipped
      /\ ptr' = [ptr EXCEPT ![f] = LazyUnmarshal(lazy, f)]
  BY DEF Get, locals, history
<1>2. Settled /\ LazyUnmarshal(lazy, f) \in Seq(Record)
  BY <1>0, <1>1, SettledDecode DEF Settled
<1>3. /\ ptr' \in [Fields -> Seq(Record)] /\ ptr'[f] = LazyUnmarshal(lazy, f)
      /\ \A g \in Fields : g # f => ptr'[g] = ptr[g]
  BY <1>0, <1>1, <1>2 DEF TypeOK
<1>4. TypeOK' /\ Serials'
  BY <1>0, <1>1, <1>3 DEF TypeOK, Serials
<1>5. Flags' /\ Errors' /\ Unknowns' /\ Partials' /\ IndexSoFar' /\ IndexStored'
  BY <1>0, <1>1
     DEF Flags, Errors, Unknowns, Partials, IndexSoFar, IndexStored, Settled, Scanning, Later
<1>6. FieldsSoFar'
  <2> SUFFICES ASSUME NEW g \in Fields PROVE Held(g)'
    BY <1>1 DEF FieldsSoFar, Scanning
  <2>1. Held(g)
    BY <1>0, <1>2 DEF FieldsSoFar
  <2>2. CASE g # f
    BY <1>1, <1>3, <2>1, <2>2 DEF Held
  <2>3. CASE g = f
    <3>1. PICK w \in Seq(Record), l \in Nat : w = want[f] /\ l = lost[f]
      BY <1>0 DEF TypeOK
    <3>2. PICK due : due = SubSeq(w, l + 1, Len(w))
      OBVIOUS
    <3>3. l < Len(w) => due # Nil
      <4>1. l < Len(w) => Len(due) = Len(w) - l
        BY <3>2
      <4> QED BY <4>1 DEF Nil
    <3>4. l < Len(w) /\ w # <<>> /\ ptr'[f] = due
      BY <1>1, <1>3, <2>1, <2>3, <3>1, <3>2 DEF Held
    <3> QED
      BY <1>1, <2>3, <3>1, <3>2, <3>3, <3>4 DEF Held
  <2> QED BY <2>2, <2>3
<1> QED
  BY <1>4, <1>5, <1>6 DEF Inv

(* A field is cleared. *)
LEMMA ClearStep ==
  ASSUME Inv, NEW f \in Fields, ClearField(f)
  PROVE  Inv'
<1>0. /\ TypeOK /\ Serials /\ Flags /\ Errors /\ Unknowns /\ Partials
      /\ IndexSoFar /\ IndexStored /\ FieldsSoFar
  BY DEF Inv
<1>1. /\ status = "ok" /\ status' = status /\ f \in present
      /\ present' = present \ {f} /\ unknown' = unknown /\ lazy' = lazy
      /\ opts' = opts /\ records' = records /\ calls' = calls
      /\ lazyDecode' = lazyDecode /\ lazyFields' = lazyFields /\ lazyIndex' = lazyIndex
      /\ lastNum' = lastNum /\ outOfOrder' = outOfOrder /\ initialized' = initialized
      /\ wantUnknown' = wantUnknown /\ failed' = failed /\ skipped' = skipped
      /\ ptr' = [ptr EXCEPT ![f] = <<>>] /\ want' = [want EXCEPT ![f] = <<>>]
      /\ lost' = [lost EXCEPT ![f] = 0]
  BY DEF ClearField, locals, Nil
<1>2. /\ ptr \in [Fields -> Seq(Record)] /\ want \in [Fields -> Seq(Record)] /\ lost \in [Fields -> Nat]
  BY <1>0 DEF TypeOK
<1>3. /\ ptr' \in [Fields -> Seq(Record)] /\ want' \in [Fields -> Seq(Record)] /\ lost' \in [Fields -> Nat]
      /\ ptr'[f] = <<>> /\ want'[f] = <<>> /\ lost'[f] = 0
      /\ \A g \in Fields : g # f => ptr'[g] = ptr[g] /\ want'[g] = want[g] /\ lost'[g] = lost[g]
  BY <1>1, <1>2
<1>4. TypeOK' /\ Serials'
  BY <1>0, <1>1, <1>3 DEF TypeOK, Serials
<1>5. Flags'
  <2>1. ASSUME \A g \in Fields : lost[g] = 0 PROVE \A g \in Fields : lost'[g] = 0
    BY <1>3, <2>1
  <2> QED
    BY <1>0, <1>1, <2>1 DEF Flags
<1>6. Errors' /\ Unknowns' /\ IndexSoFar' /\ IndexStored'
  BY <1>0, <1>1 DEF Errors, Unknowns, IndexSoFar, IndexStored, Settled, Scanning, Later
<1>7. Partials'
  <2>1. want = Empty => want' = Empty
    BY <1>1 DEF Empty
  <2>2. DOMAIN want'[f] = {}
    BY <1>3
  <2>3. ASSUME \A g \in Fields : \A i \in DOMAIN want[g] : want[g][i].cls # "partial",
               NEW g \in Fields, NEW i \in DOMAIN want'[g]
        PROVE  want'[g][i].cls # "partial"
    BY <1>3, <2>2, <2>3, ZenonT(60)
  <2>4. Later' = Later
    BY <1>1 DEF Later
  <2> QED
    BY <1>0, <1>1, <2>1, <2>3, <2>4 DEF Partials
<1>8. FieldsSoFar'
  <2> SUFFICES ASSUME NEW g \in Fields PROVE Held(g)'
    BY <1>1 DEF FieldsSoFar, Scanning
  <2>1. Held(g)
    BY <1>0, <1>1 DEF FieldsSoFar, Settled
  <2>2. CASE g # f
    <3>1. ptr'[g] = ptr[g] /\ want'[g] = want[g] /\ lost'[g] = lost[g] /\ (g \in present' <=> g \in present)
      BY <1>1, <1>3, <2>2
    <3> QED BY <1>1, <2>1, <3>1 DEF Held
  <2>3. CASE g = f
    BY <1>1, <1>3, <2>3 DEF Held, Nil
  <2> QED BY <2>2, <2>3
<1> QED
  BY <1>4, <1>5, <1>6, <1>7, <1>8 DEF Inv

(* The invariant is inductive. *)
LEMMA Inductive == Inv /\ [Next]_vars => Inv'
<1> SUFFICES ASSUME Inv, [Next]_vars PROVE Inv'
  OBVIOUS
<1>1. ASSUME NEW o \in Options, UnmarshalReset(o) PROVE Inv'
  BY <1>1, ResetStep
<1>2. ASSUME NEW o \in Options, UnmarshalMerge(o) PROVE Inv'
  BY <1>2, MergeStep
<1>3. ASSUME NEW f \in Fields, NEW c \in Classes, Step([num |-> f, cls |-> c, at |-> records + 1])
      PROVE  Inv'
  <2>0. /\ TypeOK /\ Serials /\ Flags /\ Errors /\ Unknowns /\ Partials
        /\ IndexSoFar /\ IndexStored /\ FieldsSoFar
    BY DEF Inv
  <2>1. PICK r : r = [num |-> f, cls |-> c, at |-> records + 1]
    OBVIOUS
  <2>2. Step(r)
    BY <1>3, <2>1
  <2>3. r \in Record /\ r.num \in Fields /\ r.at = records + 1 /\ records < MaxRecords
    BY <2>0, <2>1, <2>2, NewRecord
  <2>4. TypeOK' /\ Serials'
    BY <2>0, <2>2, <2>3, TypeStep
  <2>5. IndexSoFar' /\ IndexStored'
    BY <2>0, <2>2, <2>3, IndexStep
  <2>6. Flags' /\ Errors'
    BY <2>0, <2>2, <2>3, FlagsStep, ErrorsStep
  <2>7. Unknowns' /\ Partials'
    BY <2>0, <2>2, <2>3, UnknownsStep, PartialsStep
  <2>8. FieldsSoFar'
    BY <2>0, <2>2, <2>3, FieldsStep
  <2> QED
    BY <2>4, <2>5, <2>6, <2>7, <2>8 DEF Inv
<1>4. ASSUME EndOfInput PROVE Inv'
  BY <1>4, EndStep
<1>8. ASSUME LaterFails PROVE Inv'
  BY <1>8, LaterFailsStep
<1>5. ASSUME NEW f \in Fields, Get(f) PROVE Inv'
  BY <1>5, GetStep
<1>6. ASSUME NEW f \in Fields, ClearField(f) PROVE Inv'
  BY <1>6, ClearStep
<1>7. ASSUME UNCHANGED vars PROVE Inv'
  <2>1. /\ status' = status /\ present' = present /\ ptr' = ptr /\ unknown' = unknown /\ lazy' = lazy
        /\ opts' = opts /\ records' = records /\ calls' = calls
        /\ lazyDecode' = lazyDecode /\ lazyFields' = lazyFields /\ lazyIndex' = lazyIndex
        /\ lastNum' = lastNum /\ outOfOrder' = outOfOrder /\ initialized' = initialized
        /\ want' = want /\ wantUnknown' = wantUnknown /\ failed' = failed /\ lost' = lost /\ skipped' = skipped
    BY <1>7 DEF vars, message, locals, history
  <2>2. TypeOK' /\ Serials' /\ Flags' /\ Errors' /\ Unknowns' /\ Partials'
    BY <2>1, SMTT(60) DEF Inv, TypeOK, Serials, Flags, Errors, Unknowns, Partials, Scanning, Later
  <2>3. IndexSoFar' /\ IndexStored'
    BY <2>1 DEF Inv, IndexSoFar, IndexStored, Settled, Scanning
  <2>4. FieldsSoFar'
    BY <2>1 DEF Inv, FieldsSoFar, Settled, Scanning, Held, Underway
  <2> QED
    BY <2>2, <2>3, <2>4 DEF Inv
<1> QED
  BY <1>1, <1>2, <1>3, <1>4, <1>5, <1>6, <1>7, <1>8 DEF Next

(* The invariant holds in every reachable state. *)
THEOREM Invariant == Spec => []Inv
BY InitInv, Inductive, PTL DEF Spec

-----------------------------------------------------------------------------
(* The properties of the runs, for every value of the constants. *)

(* What Held says, without SubSeq when nothing was lost. *)
LEMMA HeldWhole ==
  ASSUME TypeOK, NEW f \in Fields, Held(f), lost[f] = 0
  PROVE  /\ (f \in present) <=> (want[f] # <<>>)
         /\ f \in present /\ ptr[f] # Nil => ptr[f] = want[f]
         /\ f \in present /\ ptr[f] = Nil => f \in LazyFields /\ LazyUnmarshal(lazy, f) = want[f]
<1>1. PICK w \in Seq(Record) : w = want[f]
  BY Types
<1>2. SubSeq(w, 0 + 1, Len(w)) = w
  OBVIOUS
<1> QED
  BY <1>1, <1>2 DEF Held

(* Every pointer, index entry, flag and local of unmarshalPointerLazy and   *)
(* unmarshalPointerEager keeps its type, and the entries under construction *)
(* stay inside the retained buffer.                                         *)
THEOREM TypeCorrect == Spec => []TypeOK
<1>1. Inv => TypeOK
  BY DEF Inv
<1> QED
  BY <1>1, Invariant, PTL

(* Unmarshal reports a parse error exactly when some record cannot be       *)
(* decoded, whether the record was validated, decoded when it was met, or   *)
(* postponed to the end of unmarshalPointerLazy; and, the one exception,    *)
(* when a postponed field belongs to a message encoded as a group.          *)
THEOREM ErrorsAgree == Spec => []ErrorsAsEager
<1>1. Inv => ErrorsAsEager
  BY DEF Inv, Errors, ErrorsAsEager
<1> QED
  BY <1>1, Invariant, PTL

(* After a successful Unmarshal every getter returns what decoding each     *)
(* record when it was met would have given: lazyUnmarshal finds, through    *)
(* the stored index, all records of its field and in order.                 *)
THEOREM FieldsAgree == Spec => []FieldsAsEager
<1>1. ASSUME Inv, status = "ok", NEW f \in Fields
      PROVE  /\ (f \in present) <=> (want[f] # <<>>)
             /\ f \in present => Contents(f) = SubSeq(want[f], lost[f] + 1, Len(want[f]))
  <2>1. Held(f)
    BY <1>1 DEF Inv, FieldsSoFar, Settled
  <2> QED
    BY <2>1 DEF Held, Contents
<1>2. Inv => FieldsAsEager
  BY <1>1 DEF FieldsAsEager
<1> QED
  BY <1>2, Invariant, PTL

(* Records of the wrong wire type are among the unknown fields once each    *)
(* and in order, but for those that a postponed field passed over.          *)
THEOREM UnknownsAgree == Spec => []UnknownAsEager
<1>1. Inv => UnknownAsEager
  BY DEF Inv, Unknowns, Errors, UnknownAsEager
<1> QED
  BY <1>1, Invariant, PTL

(* In the middle of a call no postponed field is present. *)
LaterAbsent == (status = "scan" => Later \cap present = {}) /\ NothingHalfDecoded

(* A record keeps it so: the presence bit of a field is cleared when it is  *)
(* postponed, and is not set again while it is.                             *)
LEMMA MovesAbsent ==
  ASSUME TypeOK, Errors, NEW r \in Record, r.num \in Fields, Moves(r), status = "scan",
         Later \cap present = {}
  PROVE  (Later \cap present)' = {}
<1>0. /\ lazyFields \in [LazyFields -> {"validate", "now", "later"}] /\ lazyDecode \in BOOLEAN
      /\ ~lazyDecode => Later = {}
  BY DEF TypeOK, Errors, Scanning
<1>1. CASE SkipValid(r)
  BY <1>0, <1>1 DEF SkipValid, Validating, Later
<1>2. CASE Postpone(r)
  <2>1. lazyFields' = [lazyFields EXCEPT ![r.num] = "later"] /\ present' = present \ {r.num}
    BY <1>2 DEF Postpone
  <2>2. Later' \subseteq Later \cup {r.num}
    BY <1>0, <2>1 DEF Later
  <2> QED
    BY <2>1, <2>2
<1>3. CASE SkipDeferred(r)
  BY <1>3 DEF SkipDeferred, message, Later
<1>4. CASE DecodeNow(r)
  <2>1. present' = present \cup {r.num} /\ AtOnce(r)
    BY <1>4 DEF DecodeNow
  <2>2. CASE Validating(r)
    <3>1. r.num \in LazyFields /\ lazyFields' = [lazyFields EXCEPT ![r.num] = "now"]
      BY <1>4, <2>2 DEF DecodeNow, Validating
    <3>2. Later' \subseteq Later \ {r.num}
      BY <1>0, <3>1 DEF Later
    <3> QED
      BY <2>1, <3>2
  <2>3. CASE ~Validating(r)
    <3>1. lazyFields' = lazyFields /\ ~Deferred(r)
      BY <1>4, <2>1, <2>3 DEF DecodeNow, AtOnce
    <3>2. Later' = Later /\ r.num \notin Later
      BY <1>0, <3>1 DEF Later, Deferred
    <3> QED
      BY <2>1, <3>2
  <2> QED
    BY <2>2, <2>3
<1>5. CASE KeepUnknown(r)
  BY <1>5 DEF KeepUnknown, Later
<1> QED
  BY <1>1, <1>2, <1>3, <1>4, <1>5 DEF Moves

(* A postponed field that a failed call left present was decoded in full.   *)
LEMMA LaterFailsAbsent ==
  ASSUME TypeOK, LaterFails, LaterAbsent
  PROVE  NothingHalfDecoded'
<1>1. /\ status = "scan" /\ Later \cap present = {} /\ lazy' = lazy /\ opts' = opts /\ Later' = Later
  BY DEF LaterFails, LaterAbsent, locals, Later
<1>2. PICK f \in Later, n \in 0..Len(lazy.buffer), done \in SUBSET Later :
        /\ FailsAfter(f, n) /\ (\A g \in done : ~DecodeFails(g)) /\ present' = present \cup done
        /\ ptr' = [Decoded(done) EXCEPT ![f] = UnmarshalField(SubSeq(lazy.buffer, 1, n), f)]
  BY DEF LaterFails
<1>3. lazy.buffer \in Seq(Record) /\ Later \subseteq Fields
  BY Types, Constants DEF Later
<1>4. ASSUME NEW g \in Later', g \in present'
      PROVE  ~DecodeFails(g)' /\ ptr'[g] = UnmarshalField(lazy'.buffer, g)
  <2>1. g \in done /\ g # f
    BY <1>1, <1>2, <1>3, <1>4, FailsThen
  <2>2. ptr'[g] = UnmarshalField(lazy.buffer, g)
    BY <1>1, <1>2, <1>3, <2>1 DEF Decoded
  <2>3. ~DecodeFails(g)
    BY <1>2, <2>1
  <2> QED
    BY <1>1, <2>2, <2>3 DEF DecodeFails
<1> QED
  BY <1>4 DEF NothingHalfDecoded

(* A call that fails leaves no postponed field half decoded: it clears the  *)
(* presence bit when it postpones a field and sets it when all the field's  *)
(* records are decoded (lazy.go:285-292, 398-410).                          *)
THEOREM NothingLeftHalfDecoded == Spec => []NothingHalfDecoded
<1>1. Init => LaterAbsent
  BY DEF Init, LaterAbsent, NothingHalfDecoded
<1>2. ASSUME Inv, LaterAbsent, [Next]_vars PROVE LaterAbsent'
  <2>0. TypeOK /\ Errors /\ Serials /\ IndexStored
    BY <1>2 DEF Inv
  <2>1. ASSUME NEW o \in Options, UnmarshalReset(o) \/ UnmarshalMerge(o) PROVE LaterAbsent'
    <3>1. status' = "scan" /\ lazyFields' = [f \in LazyFields |-> "validate"]
      BY <2>1 DEF UnmarshalReset, UnmarshalMerge, Begin
    <3>2. Later' = {}
      BY <3>1 DEF Later
    <3> QED
      BY <3>1, <3>2 DEF LaterAbsent, NothingHalfDecoded
  <2>2. ASSUME NEW f \in Fields, NEW c \in Classes, Step([num |-> f, cls |-> c, at |-> records + 1])
        PROVE  LaterAbsent'
    <3>1. PICK r : r = [num |-> f, cls |-> c, at |-> records + 1]
      OBVIOUS
    <3>2. Step(r)
      BY <2>2, <3>1
    <3>3. r \in Record /\ r.num \in Fields /\ status = "scan" /\ (Moves(r) \/ Reject(r))
      BY <2>0, <3>1, <3>2, NewRecord, StepParts
    <3>4. CASE Moves(r)
      <4>1. status' = "scan"
        BY <2>0, <3>3, <3>4, MovesTypes
      <4>2. (Later \cap present)' = {}
        BY <1>2, <2>0, <3>3, <3>4, MovesAbsent DEF LaterAbsent
      <4> QED
        BY <4>1, <4>2 DEF LaterAbsent, NothingHalfDecoded
    <3>5. CASE Reject(r)
      <4>1. status' = "invalid" /\ present' = present /\ lazyFields' = lazyFields
        BY <3>5 DEF Reject, message, locals
      <4> QED
        BY <1>2, <3>3, <4>1 DEF LaterAbsent, NothingHalfDecoded, Later
    <3> QED
      BY <3>3, <3>4, <3>5
  <2>3. ASSUME EndOfInput PROVE LaterAbsent'
    <3>1. status' \in {"ok", "required"}
      BY <2>3 DEF EndOfInput
    <3> QED
      BY <3>1 DEF LaterAbsent, NothingHalfDecoded
  <2>4. ASSUME LaterFails PROVE LaterAbsent'
    <3>1. status' = "invalid" /\ NothingHalfDecoded'
      BY <1>2, <2>0, <2>4, LaterFailsAbsent DEF LaterFails
    <3> QED
      BY <3>1 DEF LaterAbsent
  <2>5. ASSUME NEW f \in Fields, Get(f) \/ ClearField(f) PROVE LaterAbsent'
    BY <2>5 DEF Get, ClearField, LaterAbsent, NothingHalfDecoded
  <2>6. ASSUME UNCHANGED vars PROVE LaterAbsent'
    BY <1>2, <2>6
       DEF vars, message, locals, LaterAbsent, NothingHalfDecoded, Later, DecodeFails
  <2> QED
    BY <1>2, <2>1, <2>2, <2>3, <2>4, <2>5, <2>6 DEF Next
<1>3. LaterAbsent => NothingHalfDecoded
  BY DEF LaterAbsent
<1> QED
  BY <1>1, <1>2, <1>3, Invariant, PTL DEF Spec

(* After a lazy Unmarshal with AllowPartial, checkInitializedPointer finds  *)
(* every missing required field of the message, decoded or not: the flags   *)
(* it reads are those of the call that retained the buffer.                 *)
THEOREM PartialsRechecked == Spec => []PartialIsRechecked
<1>1. ASSUME Inv, status = "ok", lazyDecode, opts.allowPartial
      PROVE  CheckInitialized(present, ptr, lazy) <=> \A f \in Fields : Complete(want[f])
  <2>1. lazy.checked = FALSE
    BY <1>1, Types DEF Inv, Flags
  <2>2. ASSUME NEW f \in Fields
        PROVE  /\ f \notin present => Complete(want[f])
               /\ f \in present =>
                    (Complete(want[f]) <=>
                        IF f \in LazyFields /\ ptr[f] = Nil
                        THEN lazy.checked \/ Complete(LazyUnmarshal(lazy, f))
                        ELSE Complete(ptr[f]))
    <3>1. Held(f) /\ lost[f] = 0 /\ TypeOK
      BY <1>1 DEF Inv, FieldsSoFar, Settled, Flags
    <3>2. /\ (f \in present) <=> (want[f] # <<>>)
          /\ f \in present /\ ptr[f] # Nil => ptr[f] = want[f]
          /\ f \in present /\ ptr[f] = Nil => f \in LazyFields /\ LazyUnmarshal(lazy, f) = want[f]
      BY <3>1, HeldWhole
    <3>3. f \notin present => Complete(want[f])
      BY <3>2 DEF Complete
    <3>4. CASE f \in present /\ ptr[f] = Nil
      BY <2>1, <3>2, <3>4
    <3>5. CASE f \in present /\ ptr[f] # Nil
      BY <3>2, <3>5
    <3> QED
      BY <3>3, <3>4, <3>5
  <2>3. present \subseteq Fields
    BY <1>1 DEF Inv, TypeOK
  <2> QED
    BY <2>2, <2>3, Zenon DEF CheckInitialized
<1>2. Inv => PartialIsRechecked
  BY <1>1 DEF PartialIsRechecked
<1> QED
  BY <1>2, Invariant, PTL

(* When the first Unmarshal of a message sets out.initialized, so that      *)
(* proto.Unmarshal skips the check of required fields, no submessage lacks  *)
(* one, the undecoded submessages included.                                 *)
THEOREM InitializedSound == Spec => []InitializedIsSound
<1>1. ASSUME Inv, status = "ok", calls = 1, initialized, Later = {}, NEW f \in Fields
      PROVE  Complete(want[f])
  <2>1. PICK w \in Seq(Record) : w = want[f]
    BY <1>1, Types DEF Inv
  <2>2. \A i \in DOMAIN w : w[i].cls # "partial"
    BY <1>1, <2>1 DEF Inv, Partials
  <2>3. w # <<>> => 1 \in DOMAIN w
    OBVIOUS
  <2> QED
    BY <2>1, <2>2, <2>3 DEF Complete
<1>2. Inv => InitializedIsSound
  BY <1>1 DEF InitializedIsSound
<1> QED
  BY <1>2, Invariant, PTL
=============================================================================
