---------------------------- MODULE Delim_proofs ----------------------------
(***************************************************************************)
(* Proofs about Delim, for any continuation bit, any length of varints,    *)
(* any sizes that fit, any limit and any buffer.                           *)
(***************************************************************************)
EXTENDS Delim, SequenceTheorems, WellFoundedInduction, TLAPS

-----------------------------------------------------------------------------
(* Induction over the naturals, and recursion as a consequence. *)

(* Every nonempty set of naturals has a smallest element. *)
LEMMA SmallestOf ==
  ASSUME NEW T, T \subseteq Nat, T # {}
  PROVE  \E x \in T : \A y \in T : x <= y
<1>1. PICK x \in T : \A y \in T : <<y, x>> \notin OpToRel(<, Nat)
  BY WFMin, NatLessThanWellFounded, Zenon
<1>2. \A y \in T : ~(y < x)
  BY <1>1 DEF OpToRel
<1> QED
  BY <1>2

(* A set with 0 and with the successors of its naturals has all of them. *)
LEMMA InductiveSet ==
  ASSUME NEW T, 0 \in T, \A m \in Nat : m \in T => m + 1 \in T
  PROVE  Nat \subseteq T
<1>1. SUFFICES ASSUME Nat \ T # {} PROVE FALSE
  OBVIOUS
<1>2. PICK x \in Nat \ T : \A y \in Nat \ T : x <= y
  BY <1>1, SmallestOf
<1>3. x # 0 /\ x - 1 \in Nat
  BY <1>2
<1>4. x - 1 \in T
  BY <1>2, <1>3
<1> QED
  BY <1>2, <1>3, <1>4

Upto(N, S, base, step) ==
  {f \in [0 .. N -> S] : f[0] = base /\ \A i \in 1 .. N : f[i] = step[i][f[i - 1]]}

(* A function defined by recursion up to N exists.                          *)
LEMMA Recursion ==
  ASSUME NEW N \in Nat, NEW S, NEW base \in S, NEW step \in [1 .. N -> [S -> S]]
  PROVE  Upto(N, S, base, step) # {}
<1> DEFINE T == {k \in Nat : k <= N => Upto(k, S, base, step) # {}}
<1>1. 0 \in T
  <2>1. [i \in 0 .. 0 |-> base] \in Upto(0, S, base, step)
    BY DEF Upto
  <2> QED
    BY <2>1
<1>2. ASSUME NEW m \in Nat, m \in T PROVE m + 1 \in T
  <2> SUFFICES ASSUME m + 1 <= N PROVE Upto(m + 1, S, base, step) # {}
    OBVIOUS
  <2>1. PICK f : f \in Upto(m, S, base, step)
    BY <1>2
  <2> DEFINE g == [i \in 0 .. m + 1 |-> IF i <= m THEN f[i] ELSE step[i][f[m]]]
  <2>2. f[m] \in S /\ step[m + 1][f[m]] \in S
    BY <2>1 DEF Upto
  <2>3. g \in [0 .. m + 1 -> S]
    BY <2>1, <2>2 DEF Upto
  <2>4. g[0] = base
    BY <2>1 DEF Upto
  <2>5. \A i \in 1 .. m + 1 : g[i] = step[i][g[i - 1]]
    BY <2>1 DEF Upto
  <2> QED
    BY <2>3, <2>4, <2>5 DEF Upto
<1>3. N \in T
  <2> HIDE DEF T
  <2> QED BY <1>1, <1>2, InductiveSet
<1> QED
  BY <1>3

-----------------------------------------------------------------------------
(* Division. *)

(* Multiplication is monotone. *)
LEMMA TimesMonotone ==
  ASSUME NEW a \in Nat, NEW b \in Nat, NEW p \in Nat, a <= b
  PROVE  a * p <= b * p /\ a * p \in Nat /\ b * p \in Nat
OBVIOUS

(* Multiplication distributes and is associative. *)
LEMMA TimesPlus ==
  ASSUME NEW a \in Nat, NEW b \in Nat, NEW c \in Nat, NEW p \in Nat
  PROVE  /\ (a - 1) * p = a * p - p /\ a * p \in Nat
         /\ (c * a + b) * p = c * (a * p) + b * p
         /\ c * (a * p) \in Nat /\ b * p \in Nat
<1>1. (a - 1) * p = a * p - p /\ a * p \in Nat
  OBVIOUS
<1>2. (c * a + b) * p = c * (a * p) + b * p
  OBVIOUS
<1>3. c * (a * p) \in Nat /\ b * p \in Nat
  OBVIOUS
<1> QED BY <1>1, <1>2, <1>3

(* What quotient and remainder are. *)
LEMMA Division ==
  ASSUME NEW v \in Nat, NEW p \in Nat \ {0}
  PROVE  v \div p \in Nat /\ v % p \in 0 .. p - 1 /\ v = (v \div p) * p + (v % p)
OBVIOUS

(* There is only one quotient and one remainder. *)
LEMMA DivisionUnique ==
  ASSUME NEW v \in Nat, NEW p \in Nat \ {0}, NEW q \in Nat, NEW r \in 0 .. p - 1, v = q * p + r
  PROVE  v \div p = q /\ v % p = r
<1>1. PICK x \in Nat, y \in 0 .. p - 1 : x = v \div p /\ y = v % p /\ v = x * p + y
  BY Division
<1>2. CASE x < q
  <2>1. (x + 1) * p <= q * p
    BY <1>2, TimesMonotone
  <2>2. (x + 1) * p = x * p + p
    OBVIOUS
  <2> QED
    BY <1>1, <2>1, <2>2
<1>3. CASE q < x
  <2>1. (q + 1) * p <= x * p
    BY <1>3, TimesMonotone
  <2>2. (q + 1) * p = q * p + p
    OBVIOUS
  <2> QED
    BY <1>1, <2>1, <2>2
<1>4. CASE x = q
  BY <1>1, <1>4
<1> QED BY <1>2, <1>3, <1>4

-----------------------------------------------------------------------------
(* The places of the groups. *)

(* Place is what its recursive definition says, and no place is 0. *)
LEMMA PlaceDef ==
  /\ Place[0] = 1 /\ \A i \in 1 .. MaxVarintLen : Place[i] = Cont * Place[i - 1]
  /\ \A i \in 0 .. MaxVarintLen : Place[i] \in Nat \ {0}
<1> DEFINE E(f) == f = [i \in 0 .. MaxVarintLen |-> IF i = 0 THEN 1 ELSE Cont * f[i - 1]]
<1>0. MaxVarintLen \in Nat /\ Cont \in Nat \ {0, 1}
  BY DelimAssumption
<1>1. \E f : E(f)
  <2> DEFINE step == [i \in 1 .. MaxVarintLen |-> [x \in Nat |-> Cont * x]]
  <2>1. step \in [1 .. MaxVarintLen -> [Nat -> Nat]]
    BY <1>0
  <2>2. \A i \in 1 .. MaxVarintLen, x \in Nat : step[i][x] = Cont * x
    OBVIOUS
  <2> HIDE DEF step
  <2>3. Upto(MaxVarintLen, Nat, 1, step) # {}
    BY <1>0, <2>1, Recursion
  <2>4. PICK f : f \in Upto(MaxVarintLen, Nat, 1, step)
    BY <2>3
  <2>5. f \in [0 .. MaxVarintLen -> Nat] /\ f[0] = 1 /\ \A i \in 1 .. MaxVarintLen : f[i] = step[i][f[i - 1]]
    BY <2>4 DEF Upto
  <2>6. ASSUME NEW i \in 1 .. MaxVarintLen PROVE f[i] = Cont * f[i - 1]
    <3>1. f[i - 1] \in Nat
      BY <1>0, <2>5
    <3> QED
      BY <2>5, <2>2, <3>1
  <2>7. E(f)
    BY <1>0, <2>6, <2>5
  <2> QED BY <2>7
<1>2. E(Place)
  BY <1>1 DEF Place
<1>3. Place[0] = 1 /\ \A i \in 1 .. MaxVarintLen : Place[i] = Cont * Place[i - 1]
  <2>1. Place[0] = 1
    BY <1>0, <1>2
  <2>2. ASSUME NEW i \in 1 .. MaxVarintLen PROVE Place[i] = Cont * Place[i - 1]
    BY <1>0, <1>2
  <2> QED BY <2>1, <2>2
<1> DEFINE T == {i \in Nat : i <= MaxVarintLen => Place[i] \in Nat \ {0}}
<1>4. 0 \in T
  BY <1>3
<1>5. ASSUME NEW i \in Nat, i \in T PROVE i + 1 \in T
  <2> SUFFICES ASSUME i + 1 <= MaxVarintLen PROVE Place[i + 1] \in Nat \ {0}
    OBVIOUS
  <2>1. Place[i] \in Nat \ {0} /\ Place[i + 1] = Cont * Place[i]
    BY <1>0, <1>3, <1>5
  <2> QED
    BY <2>1, <1>0
<1>6. Nat \subseteq T
  <2> HIDE DEF T
  <2> QED BY <1>4, <1>5, InductiveSet
<1> QED
  BY <1>0, <1>3, <1>6

(* Higher groups stand for more. *)
LEMMA PlaceMonotone ==
  ASSUME NEW i \in 0 .. MaxVarintLen, NEW j \in 0 .. MaxVarintLen, i <= j
  PROVE  Place[i] <= Place[j]
<1> DEFINE T == {d \in Nat : i + d <= MaxVarintLen => Place[i] <= Place[i + d]}
<1>0. MaxVarintLen \in Nat /\ Cont \in Nat \ {0, 1}
  BY DelimAssumption
<1>1. 0 \in T
  BY <1>0, PlaceDef
<1>2. ASSUME NEW d \in Nat, d \in T PROVE d + 1 \in T
  <2> SUFFICES ASSUME i + (d + 1) <= MaxVarintLen PROVE Place[i] <= Place[i + (d + 1)]
    OBVIOUS
  <2>1. PICK e \in 1 .. MaxVarintLen : e = i + (d + 1) /\ e - 1 = i + d
    BY <1>0
  <2>2. Place[i] <= Place[e - 1]
    BY <2>1, <1>0, <1>2
  <2>3. Place[e] = Cont * Place[e - 1] /\ Place[e - 1] \in Nat /\ Place[i] \in Nat
    BY <2>1, <1>0, PlaceDef
  <2>4. Cont * Place[e - 1] >= Place[e - 1]
    BY <2>3, <1>0
  <2> QED
    BY <2>1, <2>2, <2>3, <2>4, <1>0
<1>3. Nat \subseteq T
  <2> HIDE DEF T
  <2> QED BY <1>1, <1>2, InductiveSet
<1>4. j - i \in T /\ i + (j - i) = j
  BY <1>0, <1>3
<1> QED
  BY <1>0, <1>4

(* Value is what its recursive definition says. *)
LEMMA ValueDef ==
  ASSUME NEW buf \in Seq(Byte), Len(buf) <= MaxVarintLen
  PROVE  /\ Value(buf)[0] = 0
         /\ \A i \in 1 .. Len(buf) : Value(buf)[i] = Value(buf)[i - 1] + (buf[i] % Cont) * Place[i - 1]
         /\ \A i \in 0 .. Len(buf) : Value(buf)[i] \in Nat
<1> DEFINE E(f) == f = [i \in 0 .. Len(buf) |-> IF i = 0 THEN 0 ELSE f[i - 1] + (buf[i] % Cont) * Place[i - 1]]
<1>0. Len(buf) \in Nat /\ Cont \in Nat \ {0, 1} /\ MaxVarintLen \in Nat
  BY DelimAssumption
<1>1. \A i \in 1 .. Len(buf) : (buf[i] % Cont) * Place[i - 1] \in Nat
  <2> SUFFICES ASSUME NEW i \in 1 .. Len(buf) PROVE (buf[i] % Cont) * Place[i - 1] \in Nat
    OBVIOUS
  <2>1. buf[i] \in Nat
    BY <1>0 DEF Byte
  <2>2. buf[i] % Cont \in Nat
    BY <2>1, <1>0
  <2>3. Place[i - 1] \in Nat
    BY <1>0, PlaceDef
  <2> QED
    BY <2>2, <2>3
<1>2. \E f : E(f)
  <2> DEFINE step == [i \in 1 .. Len(buf) |-> [x \in Nat |-> x + (buf[i] % Cont) * Place[i - 1]]]
  <2>1. step \in [1 .. Len(buf) -> [Nat -> Nat]]
    BY <1>0, <1>1
  <2>2. \A i \in 1 .. Len(buf), x \in Nat : step[i][x] = x + (buf[i] % Cont) * Place[i - 1]
    OBVIOUS
  <2> HIDE DEF step
  <2>3. Upto(Len(buf), Nat, 0, step) # {}
    BY <1>0, <2>1, Recursion
  <2>4. PICK f : f \in Upto(Len(buf), Nat, 0, step)
    BY <2>3
  <2>5. f \in [0 .. Len(buf) -> Nat] /\ f[0] = 0 /\ \A i \in 1 .. Len(buf) : f[i] = step[i][f[i - 1]]
    BY <2>4 DEF Upto
  <2>6. ASSUME NEW i \in 1 .. Len(buf) PROVE f[i] = f[i - 1] + (buf[i] % Cont) * Place[i - 1]
    <3>1. f[i - 1] \in Nat
      BY <1>0, <2>5, SMTT(60)
    <3> QED
      BY <2>5, <2>2, <3>1
  <2>7. E(f)
    BY <1>0, <2>6, <2>5
  <2> QED BY <2>7
<1>3. E(Value(buf))
  BY <1>2 DEF Value
<1>4. Value(buf)[0] = 0 /\ \A i \in 1 .. Len(buf) : Value(buf)[i] = Value(buf)[i - 1] + (buf[i] % Cont) * Place[i - 1]
  <2>1. Value(buf)[0] = 0
    BY <1>0, <1>3
  <2>2. ASSUME NEW i \in 1 .. Len(buf) PROVE Value(buf)[i] = Value(buf)[i - 1] + (buf[i] % Cont) * Place[i - 1]
    BY <1>0, <1>3
  <2> QED BY <2>1, <2>2
<1> DEFINE T == {i \in Nat : i <= Len(buf) => Value(buf)[i] \in Nat}
<1>5. 0 \in T
  BY <1>4
<1>6. ASSUME NEW i \in Nat, i \in T PROVE i + 1 \in T
  <2> SUFFICES ASSUME i + 1 <= Len(buf) PROVE Value(buf)[i + 1] \in Nat
    OBVIOUS
  <2>1. PICK j \in 1 .. Len(buf) : j = i + 1 /\ j - 1 = i
    BY <1>0
  <2>2. Value(buf)[j - 1] \in Nat /\ Value(buf)[j] = Value(buf)[j - 1] + (buf[j] % Cont) * Place[j - 1]
    BY <1>0, <1>4, <1>6, <2>1
  <2>3. (buf[j] % Cont) * Place[j - 1] \in Nat
    BY <1>1
  <2> QED
    BY <2>1, <2>2, <2>3
<1>7. Nat \subseteq T
  <2> HIDE DEF T
  <2> QED BY <1>5, <1>6, InductiveSet
<1> QED
  BY <1>0, <1>4, <1>7

-----------------------------------------------------------------------------
(* Varints: what AppendVarint writes, in any number of bytes that holds the *)
(* value, is what ConsumeVarint reads.                                      *)

Values == 0 .. 2 * Place[MaxVarintLen - 1] - 1
Fits(v, k) == v \in Values /\ k \in 1 .. MaxVarintLen /\ v < Place[k]

(* The constants of varints. *)
LEMMA Numbers ==
  /\ Cont \in Nat /\ Cont >= 2 /\ MaxVarintLen \in Nat /\ MaxVarintLen >= 2
  /\ 2 * Cont \in Nat
  /\ Place[MaxVarintLen - 1] \in Nat \ {0} /\ Place[MaxVarintLen] \in Nat \ {0}
  /\ 2 * Place[MaxVarintLen - 1] <= Place[MaxVarintLen]
<1>1. /\ Cont \in Nat /\ Cont >= 2 /\ MaxVarintLen \in Nat /\ MaxVarintLen >= 2
      /\ 2 * Cont \in Nat
  BY DelimAssumption
<1>2. Place[MaxVarintLen - 1] \in Nat \ {0} /\ Place[MaxVarintLen] \in Nat \ {0}
  BY <1>1, PlaceDef
<1>3. Place[MaxVarintLen] = Cont * Place[MaxVarintLen - 1]
  BY <1>1, PlaceDef
<1>4. 2 * Place[MaxVarintLen - 1] <= Cont * Place[MaxVarintLen - 1]
  BY <1>1, <1>2, TimesMonotone
<1> QED
  BY <1>1, <1>2, <1>3, <1>4

(* The cases of AppendVarint cover every value, and the number of bytes     *)
(* they choose holds it, as does any greater one.                           *)
LEMMA VarintLenFits ==
  ASSUME NEW v \in Values
  PROVE  /\ VarintLen(v) \in 1 .. MaxVarintLen
         /\ \A k \in VarintLen(v) .. MaxVarintLen : Fits(v, k)
<1> DEFINE T == {k \in 1 .. MaxVarintLen : k < MaxVarintLen => v < Place[k]}
<1>0. v \in Nat /\ v < Place[MaxVarintLen]
  BY Numbers DEF Values
<1>1. T \subseteq Nat /\ MaxVarintLen \in T
  BY Numbers
<1>2. PICK l \in T : \A j \in T : l <= j
  BY <1>1, SmallestOf
<1>3. \A j \in 1 .. l - 1 : v >= Place[j]
  <2> SUFFICES ASSUME NEW j \in 1 .. l - 1 PROVE v >= Place[j]
    OBVIOUS
  <2>1. j \in 1 .. MaxVarintLen /\ j < l /\ j < MaxVarintLen
    BY <1>2, Numbers
  <2>2. j \notin T
    BY <1>2, <2>1, Numbers
  <2>3. Place[j] \in Nat
    BY <2>1, PlaceDef, Numbers
  <2> QED BY <2>1, <2>2, <2>3, <1>0
<1>4. VarintLen(v) \in 1 .. MaxVarintLen /\ (VarintLen(v) < MaxVarintLen => v < Place[VarintLen(v)])
  BY <1>2, <1>3 DEF VarintLen
<1>5. ASSUME NEW k \in VarintLen(v) .. MaxVarintLen PROVE Fits(v, k)
  <2>1. v < Place[VarintLen(v)]
    BY <1>0, <1>4, Numbers
  <2>2. k \in 1 .. MaxVarintLen /\ VarintLen(v) <= k
    BY <1>4, Numbers
  <2>3. Place[VarintLen(v)] <= Place[k]
    BY <1>4, <2>2, PlaceMonotone, Numbers
  <2>4. Place[k] \in Nat /\ Place[VarintLen(v)] \in Nat
    BY <1>4, <2>2, PlaceDef, Numbers
  <2> QED
    BY <1>0, <2>1, <2>2, <2>3, <2>4 DEF Fits
<1> QED
  BY <1>4, <1>5

(* The bytes of a varint: the continuation bit is set in all but the last,  *)
(* and a varint of full length ends in one bit.                             *)
LEMMA GroupsBytes ==
  ASSUME NEW v, NEW k, Fits(v, k)
  PROVE  /\ Groups(v, k) \in Seq(Byte) /\ Len(Groups(v, k)) = k
         /\ \A i \in 1 .. k - 1 : Groups(v, k)[i] >= Cont
         /\ Groups(v, k)[k] < Cont
         /\ k = MaxVarintLen => Groups(v, k)[k] < 2
         /\ \A i \in 1 .. k : Groups(v, k)[i] % Cont = (v \div Place[i - 1]) % Cont
<1> DEFINE g(i) == (v \div Place[i - 1]) % Cont
           b(i) == g(i) + (IF i < k THEN Cont ELSE 0)
<1>0. v \in Nat /\ k \in 1 .. MaxVarintLen /\ v < 2 * Place[MaxVarintLen - 1]
  BY Numbers DEF Fits, Values
<1>1. ASSUME NEW i \in 1 .. k PROVE v \div Place[i - 1] \in Nat /\ g(i) \in 0 .. Cont - 1
  <2>1. Place[i - 1] \in Nat \ {0}
    BY <1>0, PlaceDef, Numbers
  <2>2. v \div Place[i - 1] \in Nat
    BY <1>0, <2>1, Division
  <2>3. \A q \in Nat : q % Cont \in 0 .. Cont - 1
    BY Numbers
  <2> QED
    BY <2>2, <2>3
<1> HIDE DEF g
<1>2. ASSUME NEW i \in 1 .. k PROVE b(i) \in Byte /\ (i < k => b(i) >= Cont) /\ (i = k => b(i) < Cont)
  BY <1>1, <1>0, Numbers DEF Byte
<1>3. ASSUME NEW i \in 1 .. k PROVE b(i) % Cont = g(i)
  <2>1. PICK q \in {0, 1} : b(i) = q * Cont + g(i) /\ b(i) \in Nat
    BY <1>1, <1>2, <1>0, Numbers
  <2>2. g(i) \in 0 .. Cont - 1 /\ Cont \in Nat \ {0} /\ q \in Nat
    BY <1>1, Numbers
  <2> HIDE DEF b
  <2> QED
    BY <2>1, <2>2, DivisionUnique
<1>4. Groups(v, k) = [i \in 1 .. k |-> b(i)]
  BY DEF Groups, g
<1>5. ASSUME k = MaxVarintLen PROVE b(k) < 2
  <2> DEFINE p == Place[MaxVarintLen - 1]
             q == v \div p
  <2>1. q \in Nat /\ v >= q * p /\ p \in Nat \ {0}
    <3>1. p \in Nat \ {0}
      BY Numbers
    <3> HIDE DEF p
    <3>2. q \in Nat /\ v % p \in 0 .. p - 1 /\ v = q * p + (v % p)
      BY <1>0, <3>1, Division
    <3> HIDE DEF q
    <3> QED
      BY <1>0, <3>1, <3>2
  <2>2. q < 2
    <3>1. SUFFICES ASSUME 2 <= q PROVE FALSE
      BY <2>1
    <3> HIDE DEF q, p
    <3>2. 2 * p <= q * p /\ q * p \in Nat
      BY <3>1, <2>1, TimesMonotone
    <3> QED
      BY <3>2, <2>1, <1>0 DEF p
  <2>3. q % Cont = q
    BY <2>1, <2>2, Numbers
  <2>4. g(k) = q % Cont
    BY <1>5 DEF g
  <2> QED
    BY <2>2, <2>3, <2>4, <1>1, <1>0, Numbers
<1> HIDE DEF b
<1>6. Groups(v, k) \in Seq(Byte) /\ Len(Groups(v, k)) = k
  BY <1>4, <1>2, <1>0, Numbers
<1>7. ASSUME NEW i \in 1 .. k PROVE Groups(v, k)[i] = b(i) /\ Groups(v, k)[i] % Cont = (v \div Place[i - 1]) % Cont
  BY <1>4, <1>3 DEF g
<1> QED
  BY <1>0, <1>2, <1>5, <1>6, <1>7, Numbers

(* The first i groups add up to the remainder of v at the i-th place.       *)
LEMMA Partial ==
  ASSUME NEW v, NEW k, Fits(v, k), NEW i \in 0 .. k
  PROVE  /\ Value(Groups(v, k))[i] \in 0 .. Place[i] - 1
         /\ v = Value(Groups(v, k))[i] + (v \div Place[i]) * Place[i]
<1> DEFINE V == Value(Groups(v, k))
           T == {j \in Nat : j <= k => V[j] \in 0 .. Place[j] - 1 /\ v = V[j] + (v \div Place[j]) * Place[j]}
<1>0. v \in Nat /\ k \in 1 .. MaxVarintLen /\ k \in Nat
  BY Numbers DEF Fits, Values
<1>1. /\ V[0] = 0
      /\ \A j \in 1 .. k : V[j] = V[j - 1] + (Groups(v, k)[j] % Cont) * Place[j - 1]
  BY <1>0, GroupsBytes, ValueDef
<1>2. 0 \in T
  <2>1. v \div 1 = v
    BY <1>0
  <2> QED BY <2>1, <1>0, <1>1, PlaceDef
<1>3. ASSUME NEW j \in Nat, j \in T PROVE j + 1 \in T
  <2> SUFFICES ASSUME j + 1 <= k
               PROVE  V[j + 1] \in 0 .. Place[j + 1] - 1 /\ v = V[j + 1] + (v \div Place[j + 1]) * Place[j + 1]
    OBVIOUS
  <2>1. j \in 0 .. k /\ j + 1 \in 1 .. k /\ (j + 1) - 1 = j /\ j \in 0 .. MaxVarintLen /\ j + 1 \in 1 .. MaxVarintLen
    BY <1>0, Numbers
  <2>2. PICK P \in Nat \ {0} : P = Place[j]
    BY <2>1, PlaceDef
  <2>3. PICK Q \in Nat \ {0} : Q = Place[j + 1] /\ Q = Cont * P
    BY <2>1, <2>2, PlaceDef
  <2>4. PICK x \in 0 .. P - 1 : x = V[j] /\ v = x + (v \div P) * P
    BY <1>3, <2>1, <2>2
  <2>5. PICK q \in Nat : q = v \div P
    BY <1>0, <2>2, Division
  <2>6. PICK c \in Nat, h \in 0 .. Cont - 1 : c = q \div Cont /\ h = q % Cont /\ q = c * Cont + h
    <3>1. Cont \in Nat \ {0}
      BY Numbers
    <3>2. q \div Cont \in Nat /\ q % Cont \in 0 .. Cont - 1 /\ q = (q \div Cont) * Cont + (q % Cont)
      BY <2>5, <3>1, Division
    <3> QED BY <3>2
  <2>7. V[j + 1] = x + h * P
    <3>1. V[j + 1] = V[j] + (Groups(v, k)[j + 1] % Cont) * Place[j]
      BY <1>1, <2>1
    <3>2. Groups(v, k)[j + 1] % Cont = h
      BY <2>1, <2>2, <2>5, <2>6, GroupsBytes
    <3> QED
      BY <3>1, <3>2, <2>2, <2>4
  <2>8. x + h * P \in 0 .. Q - 1
    <3>1. h * P <= (Cont - 1) * P /\ h * P \in Nat
      BY <2>2, <2>6, Numbers, TimesMonotone
    <3>2. (Cont - 1) * P = Cont * P - P /\ Cont * P \in Nat
      BY <2>2, Numbers, TimesPlus
    <3> QED
      BY <3>1, <3>2, <2>2, <2>3, <2>4
  <2>9. v = c * Q + (x + h * P)
    <3>1. q * P = (c * Cont + h) * P
      BY <2>6
    <3>2. h \in Nat /\ Cont \in Nat /\ P \in Nat /\ c \in Nat
      BY <2>2, <2>6, Numbers
    <3>4. (c * Cont + h) * P = c * (Cont * P) + h * P /\ c * (Cont * P) \in Nat /\ h * P \in Nat
      BY <3>2, TimesPlus
    <3>3. v = x + q * P
      BY <2>4, <2>5
    <3> QED
      BY <3>1, <3>3, <3>4, <2>3, <2>4
  <2>10. v \div Q = c
    <3>1. PICK y \in 0 .. Q - 1 : y = x + h * P
      BY <2>8
    <3>2. v = c * Q + y
      BY <2>9, <3>1
    <3> QED
      BY <1>0, <2>3, <2>6, <3>2, DivisionUnique
  <2>11. c * Q \in Nat
    BY <2>3, <2>6
  <2> QED
    BY <2>3, <2>7, <2>8, <2>9, <2>10, <2>11
<1>4. Nat \subseteq T
  <2> HIDE DEF T
  <2> QED BY <1>2, <1>3, InductiveSet
<1> QED
  BY <1>0, <1>4

(* All groups together add up to v. *)
LEMMA Whole ==
  ASSUME NEW v, NEW k, Fits(v, k)
  PROVE  Value(Groups(v, k))[k] = v
<1>0. v \in Nat /\ k \in 1 .. MaxVarintLen /\ k \in Nat /\ v < Place[k]
  BY Numbers DEF Fits, Values
<1>1. PICK P \in Nat \ {0} : P = Place[k]
  BY <1>0, PlaceDef, Numbers
<1>2. v \div P = 0
  <2>1. v = 0 * P + v /\ v \in 0 .. P - 1
    BY <1>0, <1>1
  <2> QED
    BY <2>1, <1>0, <1>1, DivisionUnique
<1>3. Value(Groups(v, k))[k] \in 0 .. P - 1 /\ v = Value(Groups(v, k))[k] + (v \div P) * P
  BY <1>0, <1>1, Partial
<1> QED
  BY <1>0, <1>1, <1>2, <1>3

(* ConsumeVarint of a varint that is there to its end. *)
LEMMA ConsumeWhole ==
  ASSUME NEW v, NEW k, Fits(v, k)
  PROVE  ConsumeVarint(Groups(v, k)) = [err |-> "none", v |-> v]
<1> DEFINE buf == Groups(v, k)
           ends == {i \in DOMAIN buf : i <= MaxVarintLen /\ buf[i] < Cont}
<1>0. k \in 1 .. MaxVarintLen /\ k \in Nat
  BY Numbers DEF Fits
<1>1. /\ buf \in Seq(Byte) /\ Len(buf) = k /\ DOMAIN buf = 1 .. k
      /\ \A i \in 1 .. k - 1 : buf[i] >= Cont
      /\ buf[k] < Cont /\ (k = MaxVarintLen => buf[k] < 2)
      /\ \A i \in 1 .. k : buf[i] \in Nat
  BY <1>0, GroupsBytes, Numbers, SMTT(60) DEF Byte
<1> HIDE DEF buf
<1>2. ends = {k}
  BY <1>0, <1>1, Numbers
<1>3. (CHOOSE i \in ends : \A j \in ends : i <= j) = k
  BY <1>0, <1>2
<1>4. Value(buf)[k] = v
  BY Whole DEF buf
<1>5. ~(Len(buf) >= MaxVarintLen /\ (ends = {} \/ (k = MaxVarintLen /\ buf[k] >= 2)))
  BY <1>0, <1>1, <1>2, Numbers
<1>6. ConsumeVarint(buf) = [err |-> "none", v |-> v]
  BY <1>2, <1>3, <1>4, <1>5 DEF ConsumeVarint
<1> QED
  BY <1>6 DEF buf

(* ConsumeVarint of one that is cut off. *)
LEMMA ConsumeCut ==
  ASSUME NEW buf \in Seq(Byte), Len(buf) < MaxVarintLen, \A i \in DOMAIN buf : buf[i] >= Cont
  PROVE  ConsumeVarint(buf) = [err |-> "truncated", v |-> 0]
<1> DEFINE ends == {i \in DOMAIN buf : i <= MaxVarintLen /\ buf[i] < Cont}
<1>1. ends = {}
  BY Numbers DEF Byte
<1>2. ~(Len(buf) >= MaxVarintLen)
  BY Numbers
<1> QED
  BY <1>1, <1>2 DEF ConsumeVarint

(* protowire: ConsumeVarint undoes AppendVarint, for every value of 64 bits *)
(* (here: every value that MaxVarintLen bytes hold, the last with one bit)  *)
(* and whether the varint is the shortest or is padded with empty groups.   *)
THEOREM VarintRoundTrip ==
  ASSUME NEW v \in Values, NEW k \in VarintLen(v) .. MaxVarintLen
  PROVE  /\ ConsumeVarint(AppendVarint(v)) = [err |-> "none", v |-> v]
         /\ ConsumeVarint(Groups(v, k)) = [err |-> "none", v |-> v]
<1>1. Fits(v, k) /\ Fits(v, VarintLen(v))
  BY VarintLenFits, Numbers
<1> QED
  BY <1>1, ConsumeWhole DEF AppendVarint

-----------------------------------------------------------------------------
(* The inductive invariant. The stream is known from its end: r[i] is what  *)
(* follows the first i messages, as they were written with sizes of ks      *)
(* bytes. What the reader holds of the next message, what is on the wire    *)
(* and what is still to be written are together what follows the messages   *)
(* that were delivered.                                                     *)

Frame(m, k) == Groups(m.size, k) \o Contents(m)

Rest == IF peeked THEN wire \o out ELSE body \o (wire \o out)

Stream(r, ks) ==
    /\ r \in [0 .. Len(sent) -> Seq(Byte)] /\ ks \in [1 .. Len(sent) -> 1 .. MaxVarintLen]
    /\ r[Len(sent)] = <<>>
    /\ \A i \in 1 .. Len(sent) : Fits(sent[i].size, ks[i]) /\ r[i - 1] = Frame(sent[i], ks[i]) \o r[i]
    /\ \A i, j \in 0 .. Len(sent) : i < j => Len(r[i]) > Len(r[j])

(* Where the writer is in its last message, and the reader in the stream. *)
Flow(r) ==
    /\ sent = <<>> => out = <<>>
    /\ sent # <<>> => Len(out) <= Len(r[Len(sent) - 1]) /\ (begun <=> Len(out) < Len(r[Len(sent) - 1]))
    /\ closed = "closed" => out = <<>>
    /\ Len(delivered) <= Len(sent)
    /\ r[Len(delivered)] = sizeBuf \o Rest

(* The message that is read. *)
Current == Len(delivered) + 1

(* The size of the message that is read has been read, or some of it. *)
Sized(ks) == Current <= Len(sent) /\ sizeBuf = Groups(sent[Current].size, ks[Current])
Open == Len(sizeBuf) < MaxVarintLen /\ \A i \in 1 .. Len(sizeBuf) : sizeBuf[i] >= Cont

Phases(ks) ==
    /\ outcome # "none" => pc = "idle"
    /\ pc = "idle" /\ outcome = "none" => sizeBuf = <<>> /\ body = <<>> /\ ~peeked
    /\ pc = "size" => Open /\ body = <<>> /\ ~peeked
    /\ pc = "body" => /\ body = <<>> /\ ~peeked
                      /\ Sized(ks) \/ (Open /\ sizeBuf # <<>> /\ wire = <<>> /\ closed # "no")
    /\ pc \in {"full", "unmarshal"} => Sized(ks) /\ size = sent[Current].size /\ (Limit = -1 \/ size <= Limit)
    /\ pc = "full" => ~peeked
    /\ pc = "unmarshal" => Len(body) = size /\ (peeked => size <= Len(wire) /\ body = SubSeq(wire, 1, size))

(* What the application was told. *)
Told ==
    /\ InOrder /\ EndIsTold /\ SizesAreJudged
    /\ outcome \in {"EOF", "ErrUnexpectedEOF"} => closed # "no"
    /\ outcome = "SizeTooLarge" => Current <= Len(sent)

Inv == TypeOK /\ \E r, ks : Stream(r, ks) /\ Flow(r) /\ Phases(ks) /\ Told

-----------------------------------------------------------------------------
(* Sequences. *)

(* Joining bytes is associative. *)
LEMMA Assoc ==
  ASSUME NEW a \in Seq(Byte), NEW b \in Seq(Byte), NEW c \in Seq(Byte)
  PROVE  (a \o b) \o c = a \o (b \o c)
BY ConcatAssociative

(* A byte that moves from the front of b to the end of a. *)
LEMMA Move ==
  ASSUME NEW a \in Seq(Byte), NEW b \in Seq(Byte), NEW c \in Seq(Byte), b # <<>>
  PROVE  /\ Append(a, Head(b)) \in Seq(Byte) /\ Tail(b) \in Seq(Byte) /\ Head(b) \in Byte /\ Head(b) = b[1]
         /\ Len(Append(a, Head(b))) = Len(a) + 1 /\ Len(Tail(b)) = Len(b) - 1
         /\ Append(a, Head(b)) \o (Tail(b) \o c) = a \o (b \o c)
         /\ Append(a, Head(b)) \o Tail(b) = a \o b
<1>1. /\ Head(b) \in Byte /\ Tail(b) \in Seq(Byte) /\ Len(Tail(b)) = Len(b) - 1 /\ Head(b) = b[1]
      /\ \A i \in 1 .. Len(Tail(b)) : Tail(b)[i] = b[i + 1]
  BY HeadTailProperties
<1>2. /\ Append(a, Head(b)) \in Seq(Byte) /\ Len(Append(a, Head(b))) = Len(a) + 1
      /\ \A i \in 1 .. Len(a) : Append(a, Head(b))[i] = a[i]
      /\ Append(a, Head(b))[Len(a) + 1] = Head(b)
  BY <1>1, AppendProperties
<1>3. Append(a, Head(b)) \o Tail(b) = a \o b
  <2> DEFINE x == Append(a, Head(b)) \o Tail(b)
             y == a \o b
  <2>1. /\ x \in Seq(Byte) /\ Len(x) = Len(a) + 1 + (Len(b) - 1)
        /\ \A i \in 1 .. Len(a) + 1 + (Len(b) - 1) :
              x[i] = IF i <= Len(a) + 1 THEN Append(a, Head(b))[i] ELSE Tail(b)[i - (Len(a) + 1)]
    BY <1>1, <1>2, ConcatProperties
  <2>2. /\ y \in Seq(Byte) /\ Len(y) = Len(a) + Len(b)
        /\ \A i \in 1 .. Len(a) + Len(b) : y[i] = IF i <= Len(a) THEN a[i] ELSE b[i - Len(a)]
    BY ConcatProperties
  <2>3. Len(a) \in Nat /\ Len(b) \in Nat /\ Len(b) >= 1
    BY EmptySeq
  <2> HIDE DEF x, y
  <2>4. ASSUME NEW i \in 1 .. Len(x) PROVE x[i] = y[i]
    <3>1. i \in 1 .. Len(a) + Len(b)
      BY <2>1, <2>3
    <3>2. CASE i <= Len(a)
      BY <3>1, <3>2, <2>1, <2>2, <2>3, <1>2
    <3>3. CASE i = Len(a) + 1
      <4>1. x[i] = Head(b)
        BY <3>1, <3>3, <2>1, <2>3, <1>2
      <4>2. y[i] = b[1]
        BY <3>1, <3>3, <2>2, <2>3
      <4> QED BY <4>1, <4>2, <1>1
    <3>4. CASE i > Len(a) + 1
      <4>1. x[i] = Tail(b)[i - (Len(a) + 1)]
        BY <3>1, <3>4, <2>1, <2>3
      <4>2. y[i] = b[i - Len(a)]
        BY <3>1, <3>4, <2>2, <2>3
      <4>3. PICK j \in 1 .. Len(Tail(b)) : j = i - (Len(a) + 1) /\ j + 1 = i - Len(a)
        <5>1. i - (Len(a) + 1) \in 1 .. Len(b) - 1 /\ (i - (Len(a) + 1)) + 1 = i - Len(a)
          BY <3>1, <3>4, <2>3
        <5>2. Len(Tail(b)) = Len(b) - 1
          BY <1>1
        <5> QED BY <5>1, <5>2
      <4> QED BY <4>1, <4>2, <4>3, <1>1
    <3> QED BY <3>1, <3>2, <3>3, <3>4, <2>3
  <2>5. x = y
    BY <2>1, <2>2, <2>3, <2>4, SeqEqual
  <2> QED BY <2>5 DEF x, y
<1>4. Append(a, Head(b)) \o (Tail(b) \o c) = a \o (b \o c)
  <2>1. (Append(a, Head(b)) \o Tail(b)) \o c = Append(a, Head(b)) \o (Tail(b) \o c)
    BY <1>1, <1>2, Assoc, ZenonT(60)
  <2>2. (a \o b) \o c = a \o (b \o c)
    BY ConcatAssociative
  <2> QED BY <2>1, <2>2, <1>3
<1> QED
  BY <1>1, <1>2, <1>3, <1>4

(* Two ways to cut a sequence at the same place. *)
LEMMA SameCut ==
  ASSUME NEW a \in Seq(Byte), NEW b \in Seq(Byte), NEW c \in Seq(Byte), NEW d \in Seq(Byte),
         a \o b = c \o d
  PROVE  /\ Len(a) + Len(b) = Len(c) + Len(d)
         /\ \A i \in 1 .. Len(a) : i <= Len(c) => a[i] = c[i]
         /\ Len(a) = Len(c) => a = c /\ b = d
<1>0. Len(a) \in Nat /\ Len(b) \in Nat /\ Len(c) \in Nat /\ Len(d) \in Nat
  OBVIOUS
<1>1. Len(a) + Len(b) = Len(c) + Len(d)
  BY ConcatProperties
<1>2. ASSUME NEW i \in 1 .. Len(a), i <= Len(c) PROVE a[i] = c[i]
  <2>1. i \in 1 .. Len(a) + Len(b) /\ i \in 1 .. Len(c) + Len(d) /\ i <= Len(a)
    BY <1>0, <1>2
  <2>2. (a \o b)[i] = a[i]
    BY <2>1, ConcatProperties
  <2>3. (c \o d)[i] = c[i]
    BY <2>1, <1>2, ConcatProperties
  <2> QED BY <2>2, <2>3
<1>3. ASSUME Len(a) = Len(c) PROVE a = c /\ b = d
  <2>1. a = c
    <3>1. \A i \in 1 .. Len(a) : a[i] = c[i]
      BY <1>0, <1>2, <1>3
    <3> QED BY <3>1, <1>3, SeqEqual
  <2>2. b = d
    BY <2>1, ConcatSimplifications
  <2> QED BY <2>1, <2>2
<1> QED
  BY <1>1, <1>2, <1>3

(* Two ways to cut a sequence into parts of equal lengths. *)
LEMMA SameParts ==
  ASSUME NEW a \in Seq(Byte), NEW b \in Seq(Byte), NEW c \in Seq(Byte), NEW d \in Seq(Byte),
         a \o b = c \o d, Len(a) = Len(c)
  PROVE  a = c /\ b = d
BY SameCut, Zenon

(* What was peeked at and what remains are together what there was. *)
LEMMA CutAt ==
  ASSUME NEW w \in Seq(Byte), NEW k \in 0 .. Len(w)
  PROVE  /\ SubSeq(w, 1, k) \in Seq(Byte) /\ Len(SubSeq(w, 1, k)) = k
         /\ SubSeq(w, k + 1, Len(w)) \in Seq(Byte)
         /\ SubSeq(w, 1, k) \o SubSeq(w, k + 1, Len(w)) = w
<1>0. Len(w) \in Nat /\ k \in Nat /\ \A i \in 1 .. Len(w) : w[i] \in Byte
  OBVIOUS
<1>1. SubSeq(w, 1, k) \in Seq(Byte) /\ Len(SubSeq(w, 1, k)) = k
  <2>1. \A i \in 1 .. k : w[i] \in Byte
    BY <1>0
  <2>2. /\ SubSeq(w, 1, k) \in Seq(Byte)
        /\ Len(SubSeq(w, 1, k)) = IF 1 <= k THEN k - 1 + 1 ELSE 0
    BY <2>1, <1>0, SubSeqProperties
  <2> QED BY <2>2, <1>0
<1>2. SubSeq(w, k + 1, Len(w)) \in Seq(Byte)
  <2>1. \A i \in k + 1 .. Len(w) : w[i] \in Byte
    BY <1>0
  <2> QED BY <2>1, <1>0, SubSeqProperties
<1>3. SubSeq(w, 1, k) \o SubSeq(w, k + 1, Len(w)) = SubSeq(w, 1, Len(w))
  <2>1. 1 \in 1 .. Len(w) + 1 /\ k \in 1 - 1 .. Len(w) /\ Len(w) \in k .. Len(w)
    BY <1>0
  <2> QED BY <2>1, ConcatAdjacentSubSeq
<1> QED
  BY <1>1, <1>2, <1>3, SubSeqFull

(* What was peeked at is still there when more has arrived. *)
LEMMA PeekAgain ==
  ASSUME NEW w \in Seq(Byte), NEW e \in Byte, NEW k \in Nat, k <= Len(w)
  PROVE  SubSeq(Append(w, e), 1, k) = SubSeq(w, 1, k)
<1>0. Len(w) \in Nat /\ \A i \in 1 .. Len(w) : w[i] \in Byte
  OBVIOUS
<1>1. /\ Append(w, e) \in Seq(Byte)
      /\ \A i \in 1 .. Len(w) : Append(w, e)[i] = w[i]
  BY AppendProperties
<1>2. k \in 0 .. Len(w)
  BY <1>0
<1>3. \A i \in 1 .. k : w[i] \in Byte /\ Append(w, e)[i] = w[i]
  BY <1>0, <1>1
<1>4. /\ SubSeq(w, 1, k) \in Seq(Byte) /\ Len(SubSeq(w, 1, k)) = k
      /\ \A i \in 1 .. k : SubSeq(w, 1, k)[i] = w[i]
  OBVIOUS
<1>5. /\ SubSeq(Append(w, e), 1, k) \in Seq(Byte) /\ Len(SubSeq(Append(w, e), 1, k)) = k
      /\ \A i \in 1 .. k : SubSeq(Append(w, e), 1, k)[i] = Append(w, e)[i]
  BY <1>1, <1>3
<1> QED
  BY <1>3, <1>4, <1>5, SeqEqual

(* Bytes are numbers. *)
LEMMA BytesOf ==
  ASSUME NEW s \in Seq(Byte)
  PROVE  /\ Len(s) \in Nat /\ (s # <<>> => Len(s) >= 1) /\ (Len(s) = 0 => s = <<>>)
         /\ DOMAIN s = 1 .. Len(s)
         /\ \A i \in 1 .. Len(s) : s[i] \in Byte /\ s[i] \in Nat
<1>1. Byte \subseteq Nat
  BY Numbers DEF Byte
<1>2. Len(s) \in Nat /\ DOMAIN s = 1 .. Len(s) /\ \A i \in 1 .. Len(s) : s[i] \in Byte
  OBVIOUS
<1>3. s # <<>> => Len(s) >= 1
  BY EmptySeq
<1>4. Len(s) = 0 => s = <<>>
  BY <1>3
<1> QED
  BY <1>1, <1>2, <1>3, <1>4

(* Bytes after bytes. *)
LEMMA BytesJoined ==
  ASSUME NEW a \in Seq(Byte), NEW b \in Seq(Byte)
  PROVE  a \o b \in Seq(Byte) /\ Len(a \o b) = Len(a) + Len(b) /\ Len(a) \in Nat /\ Len(b) \in Nat
BY ConcatProperties

-----------------------------------------------------------------------------
(* Messages and their place in the stream. *)

(* The contents of a message are as many bytes as its size tells. *)
LEMMA ContentsBytes ==
  ASSUME NEW m \in Message
  PROVE  /\ m.size \in Values /\ m.size \in Nat
         /\ Contents(m) \in Seq(Byte) /\ Len(Contents(m)) = m.size
<1>1. m.size \in Values /\ m.fill \in Byte
  BY DelimAssumption DEF Message, Values
<1>2. m.size \in Nat
  BY <1>1, Numbers DEF Values
<1> QED
  BY <1>1, <1>2 DEF Contents

(* What MarshalTo writes is the size in k bytes and the contents. *)
LEMMA FrameBytes ==
  ASSUME NEW m \in Message, NEW k, Fits(m.size, k)
  PROVE  /\ Frame(m, k) \in Seq(Byte) /\ Len(Frame(m, k)) = k + m.size
         /\ k \in Nat \ {0} /\ m.size \in Nat
         /\ Groups(m.size, k) \in Seq(Byte) /\ Len(Groups(m.size, k)) = k
         /\ Contents(m) \in Seq(Byte) /\ Len(Contents(m)) = m.size
         /\ \A x \in Seq(Byte) : Frame(m, k) \o x = Groups(m.size, k) \o (Contents(m) \o x)
<1>1. m.size \in Nat /\ Contents(m) \in Seq(Byte) /\ Len(Contents(m)) = m.size
  BY ContentsBytes
<1>2. Groups(m.size, k) \in Seq(Byte) /\ Len(Groups(m.size, k)) = k
  BY GroupsBytes
<1>3. k \in Nat \ {0}
  BY Numbers DEF Fits
<1>4. Frame(m, k) \in Seq(Byte) /\ Len(Frame(m, k)) = k + m.size
  BY <1>1, <1>2, BytesJoined DEF Frame
<1>5. ASSUME NEW x \in Seq(Byte) PROVE Frame(m, k) \o x = Groups(m.size, k) \o (Contents(m) \o x)
  BY <1>1, <1>2, ConcatAssociative, SMTT(60) DEF Frame
<1> QED
  BY <1>1, <1>2, <1>3, <1>4, <1>5

(* Either way of writing a size gives a varint of it. *)
LEMMA SizeBytesFit ==
  ASSUME NEW m \in Message, NEW k \in 1 .. MaxVarintLen, k >= VarintLen(m.size)
  PROVE  Fits(m.size, k) /\ SizeBytes(m, k) \o Contents(m) = Frame(m, k)
<1>1. m.size \in Values
  BY ContentsBytes
<1>2. k \in VarintLen(m.size) .. MaxVarintLen
  BY <1>1, VarintLenFits, Numbers
<1>3. Fits(m.size, k)
  BY <1>1, <1>2, VarintLenFits
<1> QED
  BY <1>3 DEF SizeBytes, AppendVarint, Frame

(* What follows the first d messages, if there is another one. *)
LEMMA NextFrame ==
  ASSUME NEW r, NEW ks, TypeOK, Stream(r, ks), NEW d \in 0 .. Len(sent), d < Len(sent)
  PROVE  /\ sent[d + 1] \in Message /\ ks[d + 1] \in 1 .. MaxVarintLen
         /\ Fits(sent[d + 1].size, ks[d + 1])
         /\ r[d + 1] \in Seq(Byte) /\ r[d] \in Seq(Byte)
         /\ r[d] = Groups(sent[d + 1].size, ks[d + 1]) \o (Contents(sent[d + 1]) \o r[d + 1])
         /\ Len(r[d]) = ks[d + 1] + sent[d + 1].size + Len(r[d + 1])
<1>0. sent \in Seq(Message) /\ Len(sent) \in Nat
  BY DEF TypeOK
<1>1. d + 1 \in 1 .. Len(sent) /\ (d + 1) - 1 = d /\ d + 1 \in 0 .. Len(sent)
  BY <1>0
<1>2. sent[d + 1] \in Message
  BY <1>0, <1>1
<1>3. Fits(sent[d + 1].size, ks[d + 1]) /\ r[d] = Frame(sent[d + 1], ks[d + 1]) \o r[d + 1]
  BY <1>1 DEF Stream
<1>4. r[d + 1] \in Seq(Byte) /\ r[d] \in Seq(Byte)
  BY <1>1 DEF Stream
<1>5. r[d] = Groups(sent[d + 1].size, ks[d + 1]) \o (Contents(sent[d + 1]) \o r[d + 1])
  BY <1>2, <1>3, <1>4, FrameBytes, ZenonT(60)
<1>6. Len(r[d]) = ks[d + 1] + sent[d + 1].size + Len(r[d + 1])
  <2>1. Frame(sent[d + 1], ks[d + 1]) \in Seq(Byte) /\ Len(Frame(sent[d + 1], ks[d + 1])) = ks[d + 1] + sent[d + 1].size
    BY <1>2, <1>3, FrameBytes
  <2>2. Len(r[d]) = Len(Frame(sent[d + 1], ks[d + 1])) + Len(r[d + 1])
    BY <2>1, <1>3, <1>4, BytesJoined
  <2> QED BY <2>1, <2>2
<1> QED
  BY <1>2, <1>3, <1>4, <1>5, <1>6 DEF Fits

(* If s is read where a message starts and only its last byte can be the    *)
(* last of a size, s is within the size, and is the size if it ends one.    *)
LEMMA Aligned ==
  ASSUME NEW r, NEW ks, TypeOK, Stream(r, ks), NEW d \in 0 .. Len(sent),
         NEW s \in Seq(Byte), NEW t \in Seq(Byte), s # <<>>, r[d] = s \o t,
         \A i \in 1 .. Len(s) - 1 : s[i] >= Cont
  PROVE  /\ d < Len(sent)
         /\ Len(s) <= ks[d + 1]
         /\ s[Len(s)] < Cont <=> Len(s) = ks[d + 1]
         /\ Len(s) = ks[d + 1] => s = Groups(sent[d + 1].size, ks[d + 1])
<1>0. Len(sent) \in Nat /\ Len(s) \in Nat \ {0} /\ \A i \in 1 .. Len(s) : s[i] \in Nat
  <2>1. Len(sent) \in Nat
    BY DEF TypeOK
  <2> QED BY <2>1, BytesOf
<1>1. d < Len(sent)
  <2>1. SUFFICES ASSUME d = Len(sent) PROVE FALSE
    BY <1>0
  <2>2. s \o t = <<>>
    BY <2>1 DEF Stream
  <2> QED BY <2>2, ConcatSimplifications
<1> DEFINE m == sent[d + 1]
           k == ks[d + 1]
           g == Groups(m.size, k)
           u == Contents(m) \o r[d + 1]
<1>2. m \in Message /\ Fits(m.size, k) /\ r[d + 1] \in Seq(Byte) /\ r[d] = g \o u
  BY <1>1, NextFrame
<1>3. /\ g \in Seq(Byte) /\ Len(g) = k /\ k \in Nat \ {0}
      /\ (\A i \in 1 .. k - 1 : g[i] >= Cont) /\ g[k] < Cont
      /\ Contents(m) \in Seq(Byte)
      /\ \A i \in 1 .. k : g[i] \in Nat
  <2>1. /\ g \in Seq(Byte) /\ Len(g) = k /\ k \in Nat \ {0} /\ Contents(m) \in Seq(Byte)
    BY <1>2, FrameBytes
  <2>2. (\A i \in 1 .. k - 1 : g[i] >= Cont) /\ g[k] < Cont
    BY <1>2, GroupsBytes
  <2>3. \A i \in 1 .. k : g[i] \in Nat
    <3> HIDE DEF g, k
    <3> QED BY <2>1, BytesOf
  <2> QED BY <2>1, <2>2, <2>3
<1>4. u \in Seq(Byte)
  BY <1>2, <1>3, ConcatProperties
<1> HIDE DEF g, u, k
<1>5. /\ \A i \in 1 .. Len(s) : i <= k => s[i] = g[i]
      /\ Len(s) = k => s = g
  <2>1. s \o t = g \o u
    BY <1>2
  <2>2. /\ \A i \in 1 .. Len(s) : i <= Len(g) => s[i] = g[i]
        /\ Len(s) = Len(g) => s = g
    <3>1. g \in Seq(Byte) /\ u \in Seq(Byte)
      BY <1>3, <1>4
    <3>2. \A i \in 1 .. Len(s) : i <= Len(g) => s[i] = g[i]
      BY <2>1, <3>1, SameCut
    <3>3. Len(s) = Len(g) => s = g
      BY <2>1, <3>1, SameCut, Zenon
    <3> QED BY <3>2, <3>3
  <2> QED BY <2>2, <1>3
<1>6. Len(s) <= k
  <2>1. SUFFICES ASSUME k < Len(s) PROVE FALSE
    BY <1>0, <1>3
  <2>2. k \in 1 .. Len(s) /\ k \in 1 .. Len(s) - 1
    BY <2>1, <1>0, <1>3
  <2>3. s[k] = g[k] /\ s[k] >= Cont
    BY <2>2, <1>0, <1>3, <1>5
  <2> QED BY <2>2, <2>3, <1>0, <1>3, Numbers
<1>7. s[Len(s)] = g[Len(s)] /\ Len(s) \in 1 .. k
  BY <1>0, <1>3, <1>5, <1>6
<1>8. s[Len(s)] < Cont <=> Len(s) = k
  <2>1. CASE Len(s) = k
    BY <2>1, <1>3, <1>7
  <2>2. CASE Len(s) # k
    <3>1. Len(s) \in 1 .. k - 1
      BY <2>2, <1>3, <1>7
    <3> QED BY <2>2, <3>1, <1>3, <1>7, <1>0, Numbers
  <2> QED BY <2>1, <2>2
<1> QED
  BY <1>1, <1>5, <1>6, <1>8 DEF g, k

(* The bytes in sight of the reader, on the wire and still to be written    *)
(* add up to what follows the messages delivered.                           *)
LEMMA Lengths ==
  ASSUME NEW r, NEW ks, TypeOK, Stream(r, ks), Flow(r), ~peeked
  PROVE  /\ Len(delivered) \in 0 .. Len(sent) /\ Len(sent) \in Nat
         /\ r[Len(delivered)] \in Seq(Byte)
         /\ r[Len(delivered)] = sizeBuf \o (body \o (wire \o out))
         /\ Len(r[Len(delivered)]) = Len(sizeBuf) + (Len(body) + (Len(wire) + Len(out)))
         /\ Len(sizeBuf) \in Nat /\ Len(body) \in Nat /\ Len(wire) \in Nat /\ Len(out) \in Nat
         /\ sent # <<>> <=> Len(sent) >= 1
<1>1. /\ sizeBuf \in Seq(Byte) /\ body \in Seq(Byte) /\ wire \in Seq(Byte) /\ out \in Seq(Byte)
      /\ sent \in Seq(Message) /\ Len(delivered) \in Nat
  BY DEF TypeOK
<1>2. wire \o out \in Seq(Byte) /\ Len(wire \o out) = Len(wire) + Len(out)
  BY <1>1, BytesJoined
<1>3. body \o (wire \o out) \in Seq(Byte) /\ Len(body \o (wire \o out)) = Len(body) + (Len(wire) + Len(out))
  BY <1>1, <1>2, BytesJoined
<1>4. Len(sizeBuf \o (body \o (wire \o out))) = Len(sizeBuf) + (Len(body) + (Len(wire) + Len(out)))
  BY <1>1, <1>3, BytesJoined
<1>5. Len(delivered) <= Len(sent) /\ r[Len(delivered)] = sizeBuf \o (body \o (wire \o out))
  BY DEF Flow, Rest
<1>6. Len(sent) \in Nat /\ (sent # <<>> <=> Len(sent) >= 1)
  BY <1>1, EmptySeq
<1>7. Len(delivered) \in 0 .. Len(sent)
  BY <1>1, <1>5, <1>6
<1>8. r[Len(delivered)] \in Seq(Byte)
  BY <1>7 DEF Stream
<1>9. Len(sizeBuf) \in Nat /\ Len(body) \in Nat /\ Len(wire) \in Nat /\ Len(out) \in Nat
  BY <1>1
<1> QED
  BY <1>4, <1>5, <1>6, <1>7, <1>8, <1>9

(* Nothing in sight and nothing more to come: every message that was        *)
(* written, at least in part, was delivered.                                *)
LEMMA AtEnd ==
  ASSUME NEW r, NEW ks, TypeOK, Stream(r, ks), Flow(r),
         ~peeked, sizeBuf = <<>>, body = <<>>, wire = <<>>
  PROVE  /\ Len(delivered) = Len(sent) - (IF out = <<>> THEN 0 ELSE 1)
         /\ out # <<>> => ~begun
<1> DEFINE d == Len(delivered)
<1>1. /\ d \in 0 .. Len(sent) /\ Len(sent) \in Nat /\ r[d] \in Seq(Byte)
      /\ Len(r[d]) = Len(out) /\ Len(out) \in Nat
      /\ sent # <<>> <=> Len(sent) >= 1
  <2>1. Len(sizeBuf) = 0 /\ Len(body) = 0 /\ Len(wire) = 0
    BY EmptySeq
  <2> QED BY <2>1, Lengths
<1>2. out \in Seq(Byte)
  BY DEF TypeOK
<1> HIDE DEF d
<1>3. CASE out = <<>>
  <2>1. Len(r[d]) = 0
    BY <1>1, <1>3, EmptySeq
  <2>2. ~(d < Len(sent))
    <3>1. SUFFICES ASSUME d < Len(sent) PROVE FALSE
      OBVIOUS
    <3>2. /\ ks[d + 1] \in 1 .. MaxVarintLen /\ sent[d + 1] \in Message /\ r[d + 1] \in Seq(Byte)
          /\ Len(r[d]) = ks[d + 1] + sent[d + 1].size + Len(r[d + 1])
      BY <3>1, <1>1, NextFrame
    <3>3. Len(r[d + 1]) \in Nat /\ sent[d + 1].size \in Nat
      BY <3>2, ContentsBytes
    <3> QED BY <2>1, <3>2, <3>3, Numbers, SMTT(60)
  <2>3. d = Len(sent)
    BY <1>1, <2>2
  <2> QED BY <2>3, <1>3, <1>1 DEF d
<1>4. CASE out # <<>>
  <2>1. Len(out) >= 1
    BY <1>2, <1>4, EmptySeq
  <2>2. d # Len(sent)
    <3>1. SUFFICES ASSUME d = Len(sent) PROVE FALSE
      OBVIOUS
    <3>2. Len(r[d]) = 0
      BY <3>1, EmptySeq DEF Stream
    <3> QED BY <3>2, <2>1, <1>1
  <2>3. Len(sent) >= 1 /\ Len(sent) - 1 \in 0 .. Len(sent)
    BY <1>1, <2>2
  <2>4. Len(out) <= Len(r[Len(sent) - 1]) /\ (begun <=> Len(out) < Len(r[Len(sent) - 1]))
    BY <1>1, <2>3 DEF Flow
  <2>5. r[Len(sent) - 1] \in Seq(Byte)
    BY <2>3 DEF Stream
  <2>6. Len(r[Len(sent) - 1]) \in Nat
    BY <2>5, BytesOf
  <2>7. ~(d < Len(sent) - 1)
    <3>1. SUFFICES ASSUME d < Len(sent) - 1 PROVE FALSE
      OBVIOUS
    <3>2. Len(r[d]) > Len(r[Len(sent) - 1])
      BY <3>1, <2>3, <1>1 DEF Stream
    <3> QED BY <3>2, <2>4, <2>6, <1>1
  <2>8. d = Len(sent) - 1
    BY <2>2, <2>7, <1>1
  <2>9. ~begun
    BY <2>8, <2>4, <1>1
  <2> QED BY <2>8, <2>9, <1>4 DEF d
<1> QED BY <1>3, <1>4

(* Nothing more to come when some of a message was read, but not all: the   *)
(* writer failed inside it, and it was the last.                            *)
LEMMA CutOff ==
  ASSUME NEW r, NEW ks, TypeOK, Stream(r, ks), Flow(r),
         ~peeked, wire = <<>>, closed # "no", Current <= Len(sent), sizeBuf # <<>>,
         Len(sizeBuf) + Len(body) < ks[Current] + sent[Current].size
  PROVE  closed = "failed" /\ begun /\ Len(delivered) = Len(sent) - 1
<1> DEFINE d == Len(delivered)
<1>1. /\ d \in 0 .. Len(sent) /\ Len(sent) \in Nat /\ r[d] \in Seq(Byte)
      /\ Len(r[d]) = Len(sizeBuf) + (Len(body) + Len(out)) /\ Len(out) \in Nat
      /\ Len(sizeBuf) \in Nat /\ Len(body) \in Nat
      /\ sent # <<>> <=> Len(sent) >= 1
  <2>1. Len(wire) = 0
    BY EmptySeq
  <2> QED BY <2>1, Lengths
<1>2. Len(sizeBuf) >= 1
  BY BytesOf DEF TypeOK
<1>3. d < Len(sent) /\ Current = d + 1
  BY <1>1 DEF Current
<1> HIDE DEF d
<1>4. /\ ks[d + 1] \in 1 .. MaxVarintLen /\ sent[d + 1] \in Message /\ r[d + 1] \in Seq(Byte)
      /\ Len(r[d]) = ks[d + 1] + sent[d + 1].size + Len(r[d + 1])
  BY <1>1, <1>3, NextFrame
<1>5. Len(r[d + 1]) \in Nat /\ sent[d + 1].size \in Nat /\ ks[d + 1] \in Nat
  <2>1. Len(r[d + 1]) \in Nat
    BY <1>4, BytesOf
  <2>2. sent[d + 1].size \in Nat
    BY <1>4, ContentsBytes
  <2> QED BY <2>1, <2>2, <1>4, Numbers
<1>6. Len(out) > Len(r[d + 1]) /\ Len(out) < Len(r[d])
  BY <1>1, <1>2, <1>3, <1>4, <1>5, SMTT(60)
<1>7. out # <<>>
  BY <1>1, <1>5, <1>6, EmptySeq
<1>8. closed = "failed"
  BY <1>7 DEF Flow, TypeOK
<1>9. Len(sent) >= 1 /\ Len(sent) - 1 \in 0 .. Len(sent) /\ d + 1 \in 0 .. Len(sent)
  BY <1>1, <1>3
<1>10. Len(out) <= Len(r[Len(sent) - 1]) /\ (begun <=> Len(out) < Len(r[Len(sent) - 1]))
  BY <1>1, <1>9 DEF Flow
<1>11. Len(r[Len(sent) - 1]) \in Nat
  <2>1. r[Len(sent) - 1] \in Seq(Byte)
    BY <1>9 DEF Stream
  <2> QED BY <2>1, BytesOf
<1>12. ~(d + 1 <= Len(sent) - 1)
  <2>1. SUFFICES ASSUME d + 1 <= Len(sent) - 1 PROVE FALSE
    OBVIOUS
  <2>2. Len(r[d + 1]) >= Len(r[Len(sent) - 1])
    <3>1. CASE d + 1 = Len(sent) - 1
      BY <3>1, <1>11
    <3>2. CASE d + 1 < Len(sent) - 1
      <4>1. Len(r[d + 1]) > Len(r[Len(sent) - 1])
        BY <3>2, <1>9 DEF Stream
      <4> QED BY <4>1, <1>5, <1>11
    <3> QED BY <2>1, <3>1, <3>2, <1>1
  <2> QED BY <2>2, <1>5, <1>6, <1>10, <1>11, <1>1
<1>13. d = Len(sent) - 1
  BY <1>3, <1>12, <1>1
<1>14. begun
  BY <1>13, <1>10, <1>6
<1> QED BY <1>8, <1>13, <1>14 DEF d

-----------------------------------------------------------------------------
(* Init and the writer. *)

(* Before anything is written. *)
LEMMA InitInv == Init => Inv
<1> SUFFICES ASSUME Init PROVE Inv
  OBVIOUS
<1> DEFINE r == [i \in 0 .. 0 |-> <<>>]
           ks == [i \in 1 .. 0 |-> 1]
<1>0. sent = <<>> /\ out = <<>> /\ wire = <<>> /\ sizeBuf = <<>> /\ body = <<>> /\ delivered = <<>> /\ ~peeked
  BY DEF Init
<1>1. <<>> \in Seq(Byte) /\ <<>> \in Seq(Message) /\ <<>> \in Seq([contents : Seq(Byte), err : BOOLEAN])
  BY EmptySeq
<1>2. Len(<<>>) = 0 /\ 0 <= MaxVarintLen
  BY Numbers
<1>3. TypeOK
  <2>1. sent \in Seq(Message) /\ out \in Seq(Byte) /\ wire \in Seq(Byte) /\ sizeBuf \in Seq(Byte) /\ body \in Seq(Byte)
    BY <1>0, <1>1, Zenon
  <2>2. delivered \in Seq([contents : Seq(Byte), err : BOOLEAN])
    BY <1>0, <1>1, Zenon
  <2>3. Len(sizeBuf) <= MaxVarintLen /\ Len(body) <= size /\ size \in Nat
    BY <1>0, <1>2 DEF Init
  <2>4. begun \in BOOLEAN /\ peeked \in BOOLEAN
    BY Zenon DEF Init
  <2> QED BY <2>1, <2>2, <2>3, <2>4 DEF Init, TypeOK
<1>4. Stream(r, ks)
  <2>1. r \in [0 .. Len(sent) -> Seq(Byte)] /\ ks \in [1 .. Len(sent) -> 1 .. MaxVarintLen]
    BY <1>0, <1>1, <1>2
  <2>2. r[Len(sent)] = <<>>
    BY <1>0, <1>2
  <2> QED
    BY <2>1, <2>2, <1>0, <1>2 DEF Stream
<1>5. Flow(r)
  <2>1. <<>> \o <<>> = <<>>
    BY <1>1, ConcatEmptySeq
  <2> QED BY <2>1, <1>0, <1>2 DEF Flow, Rest, Init
<1>6. Phases(ks)
  BY DEF Init, Phases
<1>7. Told
  <2>1. DOMAIN delivered = {}
    BY <1>0
  <2> QED BY <2>1, <1>0, <1>2 DEF Init, Told, InOrder, EndIsTold, SizesAreJudged
<1> QED
  BY <1>3, <1>4, <1>5, <1>6, <1>7 DEF Inv

(* The stream is known as long as no message is added. *)
LEMMA StreamKept ==
  ASSUME NEW r, NEW ks, Stream(r, ks), UNCHANGED sent
  PROVE  Stream(r, ks)'
BY DEF Stream

(* A byte is written. *)
LEMMA WriteStep ==
  ASSUME NEW r, NEW ks, TypeOK, Stream(r, ks), Flow(r), Phases(ks), Told, Write
  PROVE  TypeOK' /\ Flow(r)' /\ Phases(ks)' /\ Told'
<1>0. /\ closed = "no" /\ out # <<>> /\ wire' = Append(wire, Head(out)) /\ out' = Tail(out) /\ begun' = TRUE
      /\ UNCHANGED <<reader, sent, closed, pc, sizeBuf, size, body, peeked, delivered, outcome>>
  BY DEF Write, locals
<1>1. /\ sizeBuf \in Seq(Byte) /\ body \in Seq(Byte) /\ wire \in Seq(Byte) /\ out \in Seq(Byte)
      /\ sent \in Seq(Message)
  BY DEF TypeOK
<1>2. /\ wire' \in Seq(Byte) /\ out' \in Seq(Byte) /\ Len(wire') = Len(wire) + 1 /\ Len(out') = Len(out) - 1
      /\ wire' \o out' = wire \o out
  BY <1>0, <1>1, Move
<1>3. TypeOK'
  BY <1>0, <1>2 DEF TypeOK
<1>4. Flow(r)'
  <2>1. sent # <<>>
    BY <1>0 DEF Flow
  <2>2. Len(sent) \in Nat \ {0}
    BY <2>1, <1>1, EmptySeq
  <2>3. r[Len(sent) - 1] \in Seq(Byte)
    <3>1. Len(sent) - 1 \in 0 .. Len(sent)
      BY <2>2
    <3> QED BY <3>1 DEF Stream
  <2>4. Len(r[Len(sent) - 1]) \in Nat /\ Len(out) \in Nat
    BY <2>3, <1>1, BytesOf
  <2>5. Len(out') <= Len(r[Len(sent) - 1]) /\ Len(out') < Len(r[Len(sent) - 1])
    BY <2>1, <2>4, <1>2 DEF Flow
  <2>6. Rest' = Rest
    BY <1>0, <1>2 DEF Rest
  <2>7. r[Len(delivered)] = sizeBuf \o Rest /\ Len(delivered) <= Len(sent)
    BY DEF Flow
  <2> QED
    BY <2>1, <2>5, <2>6, <2>7, <1>0 DEF Flow
<1>5. Phases(ks)'
  <2>1. Sized(ks)' <=> Sized(ks)
    BY <1>0 DEF Sized, Current
  <2>2. Open' <=> Open
    BY <1>0 DEF Open
  <2>3. Current' = Current
    BY <1>0 DEF Current
  <2>4. ASSUME pc = "unmarshal", peeked PROVE size <= Len(wire') /\ body = SubSeq(wire', 1, size)
    <3>1. size <= Len(wire) /\ body = SubSeq(wire, 1, size) /\ size \in Nat
      BY <2>4 DEF Phases, TypeOK
    <3>2. Len(wire) \in Nat
      BY <1>1
    <3>3. SubSeq(wire', 1, size) = SubSeq(wire, 1, size)
      BY <3>1, <3>2, <1>0, <1>1, <1>2, PeekAgain
    <3> QED BY <3>1, <3>2, <3>3, <1>2
  <2> QED
    BY <2>1, <2>2, <2>3, <2>4, <1>0 DEF Phases
<1>6. Told'
  <2>1. Current' = Current
    BY <1>0 DEF Current
  <2>2. outcome \notin {"EOF", "ErrUnexpectedEOF"}
    BY <1>0 DEF Told
  <2>3. InOrder'
    BY <1>0 DEF Told, InOrder
  <2>4. EndIsTold'
    BY <1>0, <2>2 DEF EndIsTold
  <2>5. SizesAreJudged'
    BY <1>0 DEF Told, SizesAreJudged
  <2> QED
    BY <2>1, <2>2, <2>3, <2>4, <2>5, <1>0 DEF Told
<1> QED
  BY <1>3, <1>4, <1>5, <1>6

(* The writer stops or fails. *)
LEMMA CloseStep ==
  ASSUME NEW r, NEW ks, TypeOK, Stream(r, ks), Flow(r), Phases(ks), Told, Close
  PROVE  TypeOK' /\ Flow(r)' /\ Phases(ks)' /\ Told'
<1>0. /\ closed = "no" /\ closed' = IF out = <<>> THEN "closed" ELSE "failed"
      /\ UNCHANGED <<reader, sent, out, begun, wire, pc, sizeBuf, size, body, peeked, delivered, outcome>>
  BY DEF Close, locals
<1>1. TypeOK'
  BY <1>0 DEF TypeOK
<1>2. Flow(r)'
  <2>1. Rest' = Rest
    BY <1>0 DEF Rest
  <2> QED BY <2>1, <1>0 DEF Flow
<1>3. Current' = Current /\ (Sized(ks)' <=> Sized(ks)) /\ (Open' <=> Open)
  BY <1>0 DEF Sized, Current, Open
<1>4. closed' # "no"
  BY <1>0
<1>5. Phases(ks)'
  BY <1>0, <1>3, <1>4 DEF Phases
<1>6. Told'
  <2>1. outcome \notin {"EOF", "ErrUnexpectedEOF"}
    BY <1>0 DEF Told
  <2>2. InOrder' /\ EndIsTold' /\ SizesAreJudged'
    BY <1>0, <2>1 DEF Told, InOrder, EndIsTold, SizesAreJudged
  <2> QED
    BY <2>1, <2>2, <1>0, <1>3 DEF Told
<1> QED
  BY <1>1, <1>2, <1>5, <1>6

(* A message is added: everything is followed by its bytes. *)
LEMMA MarshalToStep ==
  ASSUME NEW r, NEW ks, TypeOK, Stream(r, ks), Flow(r), Phases(ks), Told,
         NEW m \in Message, NEW k \in 1 .. MaxVarintLen, k >= VarintLen(m.size), MarshalTo(m, k)
  PROVE  Inv'
<1> DEFINE F == Frame(m, k)
<1>N. PICK N : N = Len(sent)
  OBVIOUS
<1>q. PICK q : q = [i \in 0 .. N + 1 |-> IF i <= N THEN r[i] \o F ELSE <<>>]
  OBVIOUS
<1>l. PICK ls : ls = [i \in 1 .. N + 1 |-> IF i <= N THEN ks[i] ELSE k]
  OBVIOUS
<1>0. /\ closed = "no" /\ out = <<>> /\ sent' = Append(sent, m) /\ begun' = FALSE
      /\ UNCHANGED <<reader, closed, wire, pc, sizeBuf, size, body, peeked, delivered, outcome>>
      /\ out' = F /\ Fits(m.size, k)
  BY SizeBytesFit DEF MarshalTo, locals
<1>1. /\ sizeBuf \in Seq(Byte) /\ body \in Seq(Byte) /\ wire \in Seq(Byte) /\ out \in Seq(Byte)
      /\ sent \in Seq(Message) /\ Len(delivered) \in Nat /\ N \in Nat
  BY <1>N DEF TypeOK
<1>2. F \in Seq(Byte) /\ Len(F) = k + m.size /\ k \in Nat \ {0} /\ m.size \in Nat
  BY <1>0, FrameBytes
<1>3. /\ sent' \in Seq(Message) /\ Len(sent') = N + 1 /\ sent' # <<>>
      /\ \A i \in 1 .. N : sent'[i] = sent[i]
      /\ sent'[N + 1] = m
  BY <1>0, <1>1, <1>N, AppendProperties
<1>4. /\ r \in [0 .. N -> Seq(Byte)] /\ ks \in [1 .. N -> 1 .. MaxVarintLen] /\ r[N] = <<>>
      /\ \A i \in 1 .. N : Fits(sent[i].size, ks[i]) /\ r[i - 1] = Frame(sent[i], ks[i]) \o r[i]
      /\ \A i, j \in 0 .. N : i < j => Len(r[i]) > Len(r[j])
  BY <1>N DEF Stream
<1> HIDE DEF F
<1>5. \A i \in 0 .. N : r[i] \in Seq(Byte) /\ Len(r[i]) \in Nat
  BY <1>4, BytesOf
<1>6. /\ \A i \in 0 .. N : q[i] = r[i] \o F /\ q[i] \in Seq(Byte) /\ Len(q[i]) = Len(r[i]) + Len(F)
      /\ q[N + 1] = <<>>
  <2>1. ASSUME NEW i \in 0 .. N PROVE q[i] = r[i] \o F /\ q[i] \in Seq(Byte) /\ Len(q[i]) = Len(r[i]) + Len(F)
    <3>1. q[i] = r[i] \o F
      BY <1>1, <1>q
    <3>2. r[i] \o F \in Seq(Byte) /\ Len(r[i] \o F) = Len(r[i]) + Len(F)
      BY <1>2, <1>5, BytesJoined
    <3> QED BY <3>1, <3>2
  <2>2. q[N + 1] = <<>>
    BY <1>1, <1>q
  <2> QED BY <2>1, <2>2
<1>7. q[N] = F
  <2>1. <<>> \o F = F
    BY <1>2, ConcatEmptySeq
  <2>2. N \in 0 .. N
    BY <1>1
  <2>3. q[N] = r[N] \o F
    BY <2>2, <1>6
  <2> QED BY <2>1, <2>3, <1>4
<1>8. q \in [0 .. N + 1 -> Seq(Byte)] /\ ls \in [1 .. N + 1 -> 1 .. MaxVarintLen]
  <2>1. ASSUME NEW i \in 0 .. N + 1 PROVE q[i] \in Seq(Byte)
    <3>1. i \in 0 .. N \/ i = N + 1
      BY <1>1
    <3> QED BY <3>1, <1>6, EmptySeq
  <2>2. DOMAIN q = 0 .. N + 1 /\ q = [i \in DOMAIN q |-> q[i]]
    BY <1>q
  <2>3. ASSUME NEW i \in 1 .. N + 1 PROVE ls[i] \in 1 .. MaxVarintLen
    <3>1. CASE i \in 1 .. N
      BY <3>1, <1>1, <1>4, <1>l
    <3>2. CASE i = N + 1
      BY <3>2, <1>1, <1>l
    <3> QED BY <3>1, <3>2, <1>1
  <2>4. DOMAIN ls = 1 .. N + 1 /\ ls = [i \in DOMAIN ls |-> ls[i]]
    BY <1>l
  <2> QED BY <2>1, <2>2, <2>3, <2>4
<1>9. (\A i \in 1 .. N : ls[i] = ks[i]) /\ ls[N + 1] = k
  BY <1>1, <1>l
<1>10. Stream(q, ls)'
  <2>1. ASSUME NEW i \in 1 .. N + 1
        PROVE  Fits(sent'[i].size, ls[i]) /\ q[i - 1] = Frame(sent'[i], ls[i]) \o q[i]
    <3>1. CASE i = N + 1
      <4>1. F \o <<>> = F
        BY <1>2, ConcatEmptySeq
      <4>2. i - 1 = N
        BY <3>1, <1>1
      <4> QED BY <4>1, <4>2, <3>1, <1>0, <1>3, <1>6, <1>7, <1>9 DEF F
    <3>2. CASE i <= N
      <4>1. i \in 1 .. N /\ i \in 0 .. N /\ i - 1 \in 0 .. N
        BY <3>2, <1>1
      <4>2. sent'[i] = sent[i] /\ ls[i] = ks[i] /\ sent[i] \in Message
        BY <4>1, <1>1, <1>3, <1>9, <1>N
      <4>3. Fits(sent[i].size, ks[i]) /\ r[i - 1] = Frame(sent[i], ks[i]) \o r[i]
        BY <4>1, <1>4
      <4>4. Frame(sent[i], ks[i]) \in Seq(Byte)
        BY <4>2, <4>3, FrameBytes
      <4>5. (Frame(sent[i], ks[i]) \o r[i]) \o F = Frame(sent[i], ks[i]) \o (r[i] \o F)
        BY <4>1, <4>4, <1>2, <1>5, Assoc
      <4>6. q[i - 1] = r[i - 1] \o F /\ q[i] = r[i] \o F
        BY <4>1, <1>6
      <4> QED BY <4>2, <4>3, <4>5, <4>6
    <3>3. i = N + 1 \/ i <= N
      BY <1>1
    <3> QED BY <3>1, <3>2, <3>3
  <2>2. ASSUME NEW i \in 0 .. N + 1, NEW j \in 0 .. N + 1, i < j PROVE Len(q[i]) > Len(q[j])
    <3>1. i \in 0 .. N /\ Len(q[i]) = Len(r[i]) + Len(F) /\ Len(r[i]) \in Nat
      BY <2>2, <1>1, <1>5, <1>6
    <3>2. CASE j = N + 1
      <4>1. Len(q[j]) = 0
        BY <3>2, <1>6, EmptySeq
      <4> QED BY <4>1, <3>1, <1>2
    <3>3. CASE j <= N
      <4>1. j \in 0 .. N /\ Len(q[j]) = Len(r[j]) + Len(F) /\ Len(r[j]) \in Nat /\ Len(r[i]) > Len(r[j])
        <5>1. j \in 0 .. N
          BY <3>3, <1>1
        <5>2. Len(r[i]) > Len(r[j])
          BY <5>1, <3>1, <2>2, <1>4
        <5> QED BY <5>1, <5>2, <1>5, <1>6
      <4> QED BY <4>1, <3>1, <1>2
    <3> QED BY <3>2, <3>3, <1>1
  <2>3. q[Len(sent')] = <<>>
    BY <1>3, <1>6
  <2> QED
    BY <2>1, <2>2, <2>3, <1>3, <1>8 DEF Stream
<1>11. Len(delivered) \in 0 .. N /\ r[Len(delivered)] = sizeBuf \o Rest
  BY <1>1, <1>N DEF Flow
<1>12. sizeBuf \o Rest' = (sizeBuf \o Rest) \o F
  <2>1. wire \o out = wire
    BY <1>0, <1>1, ConcatEmptySeq
  <2>2. wire \o F \in Seq(Byte)
    BY <1>1, <1>2, BytesJoined
  <2>3. CASE peeked
    <3>1. Rest = wire /\ Rest' = wire \o F
      BY <2>1, <2>3, <1>0 DEF Rest
    <3> QED BY <3>1, <1>1, <1>2, Assoc, ZenonT(60)
  <2>4. CASE ~peeked
    <3>1. Rest = body \o wire /\ Rest' = body \o (wire \o F)
      BY <2>1, <2>4, <1>0 DEF Rest
    <3>2. body \o wire \in Seq(Byte)
      BY <1>1, BytesJoined
    <3>3. (body \o wire) \o F = body \o (wire \o F)
      BY <1>1, <1>2, Assoc, ZenonT(60)
    <3>4. (sizeBuf \o (body \o wire)) \o F = sizeBuf \o ((body \o wire) \o F)
      BY <3>2, <1>1, <1>2, Assoc, ZenonT(60)
    <3> QED BY <3>1, <3>3, <3>4
  <2> QED BY <2>3, <2>4
<1>13. Flow(q)'
  <2>1. q[Len(delivered)] = sizeBuf \o Rest'
    BY <1>6, <1>11, <1>12
  <2>2. Len(sent') - 1 = N
    BY <1>1, <1>3
  <2>3. Len(F) <= Len(q[N]) /\ ~(Len(F) < Len(q[N]))
    BY <1>2, <1>7
  <2>4. Len(delivered) <= Len(sent')
    BY <1>1, <1>3, <1>11
  <2> QED
    BY <2>1, <2>2, <2>3, <2>4, <1>0, <1>3 DEF Flow
<1>14. Current' = Current /\ Current \in Nat \ {0} /\ (Open' <=> Open)
  BY <1>0, <1>1 DEF Current, Open
<1>15. Current <= Len(sent) => Current <= Len(sent') /\ sent'[Current] = sent[Current]
  BY <1>1, <1>3, <1>14, <1>N
<1>16. Sized(ks) => Sized(ls)'
  <2> SUFFICES ASSUME Sized(ks) PROVE Sized(ls)'
    OBVIOUS
  <2>1. Current \in 1 .. N
    BY <1>1, <1>14, <1>N DEF Sized
  <2>2. ls[Current] = ks[Current]
    BY <2>1, <1>9
  <2> QED BY <2>2, <1>0, <1>14, <1>15 DEF Sized
<1>17. Phases(ls)'
  <2>1. pc \in {"full", "unmarshal"} => Sized(ls)' /\ size' = sent'[Current'].size /\ (Limit = -1 \/ size' <= Limit)
    BY <1>0, <1>14, <1>15, <1>16 DEF Phases, Sized
  <2>2. pc = "body" => /\ body' = <<>> /\ ~peeked'
                       /\ Sized(ls)' \/ (Open' /\ sizeBuf' # <<>> /\ wire' = <<>> /\ closed' # "no")
    BY <1>0, <1>14, <1>16 DEF Phases
  <2> QED
    BY <2>1, <2>2, <1>0, <1>14 DEF Phases
<1>18. Told'
  <2>1. outcome \notin {"EOF", "ErrUnexpectedEOF"}
    BY <1>0 DEF Told
  <2>2. InOrder'
    <3>1. Len(delivered) <= Len(sent) /\ DOMAIN delivered = 1 .. Len(delivered)
          /\ \A i \in DOMAIN delivered : delivered[i].contents = Contents(sent[i])
      BY DEF Told, InOrder, TypeOK
    <3>2. ASSUME NEW i \in DOMAIN delivered PROVE delivered[i].contents = Contents(sent'[i])
      <4>1. i \in 1 .. N
        BY <3>1, <1>1, <1>N
      <4> QED BY <4>1, <3>1, <1>3
    <3>3. Len(delivered) <= Len(sent')
      BY <1>1, <1>3, <1>11
    <3> QED BY <3>2, <3>3, <1>0 DEF InOrder
  <2>3. EndIsTold'
    BY <1>0, <2>1 DEF EndIsTold
  <2>4. outcome = "SizeTooLarge" => Current <= Len(sent') /\ sent'[Current].size > Limit
    BY <1>15 DEF Told, SizesAreJudged, Current
  <2>5. SizesAreJudged'
    BY <2>4, <1>0 DEF Told, SizesAreJudged, Current
  <2> QED
    BY <2>1, <2>2, <2>3, <2>4, <2>5, <1>0, <1>14 DEF Told
<1>19. TypeOK'
  BY <1>0, <1>2, <1>3 DEF TypeOK
<1> QED
  BY <1>10, <1>13, <1>17, <1>18, <1>19 DEF Inv

-----------------------------------------------------------------------------
(* The reader. *)

(* A step of the reader that takes bytes over but loses none. *)
LEMMA FlowKept ==
  ASSUME NEW r, Flow(r), UNCHANGED <<sent, out, begun, closed, delivered>>,
         sizeBuf' \o Rest' = sizeBuf \o Rest
  PROVE  Flow(r)'
<1>1. r[Len(delivered)] = sizeBuf' \o Rest'
  BY DEF Flow
<1> QED
  BY <1>1 DEF Flow

(* A step after which the application was told no more than before. *)
LEMMA ToldKept ==
  ASSUME Told, UNCHANGED <<sent, out, begun, closed, delivered, outcome>>
  PROVE  Told'
<1>1. Current' = Current
  BY DEF Current
<1>2. InOrder' /\ EndIsTold' /\ SizesAreJudged'
  BY DEF Told, InOrder, EndIsTold, SizesAreJudged
<1> QED
  BY <1>1, <1>2 DEF Told

(* What the reader leaves alone. *)
LEMMA ReadingKeeps ==
  ASSUME NEW l, Reading(l)
  PROVE  pc = l /\ UNCHANGED <<reader, sent, out, begun, closed>>
BY DEF Reading, writer

(* Without contents in hand, the rest is on the wire or to be written. *)
LEMMA RestIsAhead ==
  ASSUME TypeOK, body = <<>>
  PROVE  Rest = wire \o out /\ wire \o out \in Seq(Byte)
<1>1. wire \o out \in Seq(Byte)
  BY BytesJoined DEF TypeOK
<1>2. <<>> \o (wire \o out) = wire \o out
  BY <1>1, ConcatEmptySeq
<1> QED
  BY <1>1, <1>2 DEF Rest

(* A call starts. *)
LEMMA UnmarshalFromStep ==
  ASSUME NEW r, NEW ks, TypeOK, Stream(r, ks), Flow(r), Phases(ks), Told, UnmarshalFrom
  PROVE  TypeOK' /\ Flow(r)' /\ Phases(ks)' /\ Told'
<1>0. /\ pc = "idle" /\ outcome = "none" /\ pc' = "size" /\ sizeBuf' = <<>>
      /\ UNCHANGED <<reader, sent, out, begun, closed, wire, size, body, peeked, delivered, outcome>>
  BY ReadingKeeps DEF UnmarshalFrom
<1>1. sizeBuf = <<>> /\ body = <<>> /\ ~peeked
  BY <1>0 DEF Phases
<1>2. Len(sizeBuf') = 0 /\ sizeBuf' = sizeBuf
  BY <1>0, <1>1, EmptySeq
<1>3. TypeOK'
  BY <1>0, <1>2 DEF TypeOK
<1>4. Flow(r)'
  <2>1. sizeBuf' \o Rest' = sizeBuf \o Rest
    BY <1>0, <1>2 DEF Rest
  <2> QED BY <2>1, <1>0, FlowKept
<1>5. Phases(ks)'
  <2>1. Open'
    BY <1>2, Numbers DEF Open
  <2> QED BY <2>1, <1>0, <1>1 DEF Phases
<1>6. Told'
  BY <1>0, ToldKept
<1> QED BY <1>3, <1>4, <1>5, <1>6

(* A byte of the size is read. *)
LEMMA ReadByteStep ==
  ASSUME NEW r, NEW ks, TypeOK, Stream(r, ks), Flow(r), Phases(ks), Told, ReadByte
  PROVE  TypeOK' /\ Flow(r)' /\ Phases(ks)' /\ Told'
<1>0. /\ pc = "size" /\ wire # <<>> /\ sizeBuf' = Append(sizeBuf, Head(wire)) /\ wire' = Tail(wire)
      /\ pc' = IF Head(wire) < Cont \/ Len(sizeBuf') = MaxVarintLen THEN "body" ELSE "size"
      /\ UNCHANGED <<reader, sent, out, begun, closed, size, body, peeked, delivered, outcome>>
  BY ReadingKeeps DEF ReadByte
<1>1. Open /\ body = <<>> /\ ~peeked /\ outcome = "none"
  BY <1>0 DEF Phases
<1>2. sizeBuf \in Seq(Byte) /\ wire \in Seq(Byte) /\ out \in Seq(Byte)
  BY DEF TypeOK
<1>3. /\ sizeBuf' \in Seq(Byte) /\ Len(sizeBuf') = Len(sizeBuf) + 1 /\ wire' \in Seq(Byte)
      /\ sizeBuf' \o (wire' \o out) = sizeBuf \o (wire \o out)
  BY <1>0, <1>2, Move, SMTT(60)
<1>4. /\ \A i \in 1 .. Len(sizeBuf) : sizeBuf'[i] = sizeBuf[i]
      /\ sizeBuf'[Len(sizeBuf')] = Head(wire)
      /\ Head(wire) \in Byte /\ sizeBuf' # <<>>
  <2>1. Head(wire) \in Byte
    BY <1>0, <1>2, HeadTailProperties
  <2>2. /\ \A i \in 1 .. Len(sizeBuf) : sizeBuf'[i] = sizeBuf[i]
        /\ sizeBuf'[Len(sizeBuf) + 1] = Head(wire) /\ sizeBuf' # <<>>
    BY <2>1, <1>0, <1>2, AppendProperties
  <2> QED BY <2>1, <2>2, <1>3
<1>5. Len(sizeBuf) \in Nat /\ Len(sizeBuf) < MaxVarintLen /\ \A i \in 1 .. Len(sizeBuf) : sizeBuf[i] >= Cont
  BY <1>1, <1>2 DEF Open
<1>6. TypeOK'
  <2>1. Len(sizeBuf') <= MaxVarintLen
    BY <1>3, <1>5, Numbers
  <2> QED BY <2>1, <1>0, <1>3 DEF TypeOK
<1>7. Rest = wire \o out /\ Rest' = wire' \o out /\ wire' \o out \in Seq(Byte)
  <2>1. Rest = wire \o out
    BY <1>1, RestIsAhead
  <2>2. wire' \o out \in Seq(Byte)
    BY <1>2, <1>3, BytesJoined
  <2>3. <<>> \o (wire' \o out) = wire' \o out
    BY <2>2, ConcatEmptySeq
  <2> QED BY <2>1, <2>2, <2>3, <1>0, <1>1 DEF Rest
<1>8. sizeBuf' \o Rest' = sizeBuf \o Rest
  BY <1>3, <1>7
<1>9. Flow(r)'
  BY <1>8, <1>0, FlowKept
<1>10. /\ Len(delivered) < Len(sent)
       /\ Len(sizeBuf') <= ks[Current]
       /\ sizeBuf'[Len(sizeBuf')] < Cont <=> Len(sizeBuf') = ks[Current]
       /\ Len(sizeBuf') = ks[Current] => sizeBuf' = Groups(sent[Current].size, ks[Current])
       /\ ks[Current] \in 1 .. MaxVarintLen
  <2> DEFINE d == Len(delivered)
  <2>1. d \in 0 .. Len(sent) /\ Len(sent) \in Nat
    BY <1>1, Lengths
  <2>2. r[d] = sizeBuf' \o (wire' \o out)
    BY <1>3, <1>7 DEF Flow
  <2>3. \A i \in 1 .. Len(sizeBuf') - 1 : sizeBuf'[i] >= Cont
    BY <1>3, <1>4, <1>5
  <2> HIDE DEF d
  <2>4. PICK s \in Seq(Byte), t \in Seq(Byte) : s = sizeBuf' /\ t = wire' \o out
    BY <1>3, <1>7
  <2>5. /\ d < Len(sent)
        /\ Len(s) <= ks[d + 1]
        /\ s[Len(s)] < Cont <=> Len(s) = ks[d + 1]
        /\ Len(s) = ks[d + 1] => s = Groups(sent[d + 1].size, ks[d + 1])
    <3>1. s # <<>> /\ r[d] = s \o t /\ \A i \in 1 .. Len(s) - 1 : s[i] >= Cont
      BY <2>2, <2>3, <2>4, <1>4
    <3> QED BY <2>1, <3>1, Aligned
  <2>6. ks[d + 1] \in 1 .. MaxVarintLen
    BY <2>1, <2>5, NextFrame
  <2> QED BY <2>4, <2>5, <2>6 DEF d, Current
<1>11. Phases(ks)'
  <2>1. Current' = Current /\ Current <= Len(sent)
    BY <1>0, <1>1, <1>10, Lengths DEF Current
  <2>2. CASE pc' = "body"
    <3>1. Len(sizeBuf') = ks[Current]
      BY <2>2, <1>0, <1>3, <1>4, <1>5, <1>10, Numbers, SMTT(60)
    <3>2. Sized(ks)'
      BY <3>1, <2>1, <1>0, <1>10 DEF Sized
    <3> QED BY <2>2, <3>2, <1>0, <1>1 DEF Phases
  <2>3. CASE pc' = "size"
    <3>1. ~(Head(wire) < Cont) /\ Len(sizeBuf') # MaxVarintLen
      BY <2>3, <1>0
    <3>2. \A i \in 1 .. Len(sizeBuf') : sizeBuf'[i] >= Cont
      <4> SUFFICES ASSUME NEW i \in 1 .. Len(sizeBuf') PROVE sizeBuf'[i] >= Cont
        OBVIOUS
      <4>1. CASE i = Len(sizeBuf')
        <5>1. Head(wire) >= Cont
          BY <3>1, <1>4, Numbers DEF Byte
        <5> QED BY <4>1, <5>1, <1>4
      <4>2. CASE i # Len(sizeBuf')
        <5>1. i \in 1 .. Len(sizeBuf)
          BY <4>2, <1>3, <1>5
        <5> QED BY <5>1, <1>4, <1>5
      <4> QED BY <4>1, <4>2
    <3>3. Len(sizeBuf') < MaxVarintLen
      BY <3>1, <1>3, <1>5, Numbers
    <3>4. Open'
      BY <3>2, <3>3 DEF Open
    <3> QED BY <2>3, <3>4, <1>0, <1>1 DEF Phases
  <2> QED BY <2>2, <2>3, <1>0
<1>12. Told'
  BY <1>0, ToldKept
<1> QED BY <1>6, <1>9, <1>11, <1>12

(* The stream ends while a size is read. *)
LEMMA ReadByteEOFStep ==
  ASSUME NEW r, NEW ks, TypeOK, Stream(r, ks), Flow(r), Phases(ks), Told, ReadByteEOF
  PROVE  TypeOK' /\ Flow(r)' /\ Phases(ks)' /\ Told'
<1>0. /\ pc = "size" /\ wire = <<>> /\ closed # "no"
      /\ UNCHANGED <<reader, sent, out, begun, closed, wire, sizeBuf, size, body, peeked, delivered>>
      /\ \/ sizeBuf = <<>> /\ outcome' = "EOF" /\ pc' = "idle"
         \/ sizeBuf # <<>> /\ pc' = "body" /\ outcome' = outcome
  BY ReadingKeeps DEF ReadByteEOF, Fail, locals
<1>1. Open /\ body = <<>> /\ ~peeked /\ outcome = "none"
  BY <1>0 DEF Phases
<1>2. TypeOK'
  BY <1>0 DEF TypeOK
<1>3. Flow(r)'
  <2>1. sizeBuf' \o Rest' = sizeBuf \o Rest
    BY <1>0 DEF Rest
  <2> QED BY <2>1, <1>0, FlowKept
<1>4. Open' /\ Current' = Current
  BY <1>0, <1>1 DEF Open, Current
<1>5. Phases(ks)'
  BY <1>0, <1>1, <1>4 DEF Phases
<1>6. Told'
  <2>1. CASE sizeBuf = <<>>
    <3>1. outcome' = "EOF"
      BY <2>1, <1>0
    <3>2. Len(delivered) = Len(sent) - (IF out = <<>> THEN 0 ELSE 1) /\ (out # <<>> => ~begun)
      BY <2>1, <1>0, <1>1, AtEnd
    <3>3. InOrder' /\ SizesAreJudged'
      BY <3>1, <1>0 DEF Told, InOrder, SizesAreJudged
    <3>4. EndIsTold'
      BY <3>1, <3>2, <1>0 DEF EndIsTold
    <3> QED BY <3>1, <3>3, <3>4, <1>0 DEF Told
  <2>2. CASE sizeBuf # <<>>
    BY <2>2, <1>0, ToldKept
  <2> QED BY <2>1, <2>2
<1> QED BY <1>2, <1>3, <1>5, <1>6

(* What the size that was read decodes to. *)
LEMMA Decoded ==
  ASSUME NEW r, NEW ks, TypeOK, Stream(r, ks), Flow(r)
  PROVE  /\ Sized(ks) => /\ ConsumeVarint(sizeBuf) = [err |-> "none", v |-> sent[Current].size]
                         /\ sent[Current] \in Message /\ Len(sizeBuf) = ks[Current]
         /\ Open => ConsumeVarint(sizeBuf) = [err |-> "truncated", v |-> 0]
<1>1. ASSUME Sized(ks)
      PROVE  /\ ConsumeVarint(sizeBuf) = [err |-> "none", v |-> sent[Current].size]
             /\ sent[Current] \in Message /\ Len(sizeBuf) = ks[Current]
  <2>1. Current \in 1 .. Len(sent) /\ sent[Current] \in Message
    BY <1>1 DEF Sized, Current, TypeOK
  <2>2. Fits(sent[Current].size, ks[Current])
    BY <2>1 DEF Stream
  <2>3. sizeBuf = Groups(sent[Current].size, ks[Current])
    BY <1>1 DEF Sized
  <2>4. ConsumeVarint(sizeBuf) = [err |-> "none", v |-> sent[Current].size]
    BY <2>2, <2>3, ConsumeWhole
  <2>5. Len(sizeBuf) = ks[Current]
    BY <2>1, <2>2, <2>3, FrameBytes
  <2> QED BY <2>1, <2>4, <2>5
<1>2. ASSUME Open PROVE ConsumeVarint(sizeBuf) = [err |-> "truncated", v |-> 0]
  <2>1. sizeBuf \in Seq(Byte) /\ DOMAIN sizeBuf = 1 .. Len(sizeBuf)
    BY DEF TypeOK
  <2>2. Len(sizeBuf) < MaxVarintLen /\ \A i \in DOMAIN sizeBuf : sizeBuf[i] >= Cont
    BY <1>2, <2>1 DEF Open
  <2> QED BY <2>1, <2>2, ConsumeCut
<1> QED BY <1>1, <1>2

(* Bytes of a size that all have the continuation bit are not all of it.    *)
LEMMA OpenIsPrefix ==
  ASSUME NEW r, NEW ks, TypeOK, Stream(r, ks), NEW d \in 0 .. Len(sent),
         NEW s \in Seq(Byte), NEW t \in Seq(Byte), s # <<>>, r[d] = s \o t,
         \A i \in 1 .. Len(s) : s[i] >= Cont
  PROVE  /\ d < Len(sent) /\ Len(s) < ks[d + 1] /\ ks[d + 1] \in Nat /\ sent[d + 1].size \in Nat
<1>1. Len(s) \in Nat /\ Len(s) >= 1 /\ \A i \in 1 .. Len(s) : s[i] \in Nat
  BY BytesOf
<1>2. \A i \in 1 .. Len(s) - 1 : s[i] >= Cont
  BY <1>1
<1>3. /\ d < Len(sent)
      /\ Len(s) <= ks[d + 1]
      /\ s[Len(s)] < Cont <=> Len(s) = ks[d + 1]
      /\ Len(s) = ks[d + 1] => s = Groups(sent[d + 1].size, ks[d + 1])
  BY <1>2, Aligned
<1>4. s[Len(s)] >= Cont /\ s[Len(s)] \in Nat
  BY <1>1
<1>5. ks[d + 1] \in Nat /\ sent[d + 1].size \in Nat
  <2>1. ks[d + 1] \in 1 .. MaxVarintLen /\ sent[d + 1] \in Message
    BY <1>3, NextFrame
  <2>2. sent[d + 1].size \in Nat
    BY <2>1, ContentsBytes
  <2> QED BY <2>1, <2>2, Numbers, SMTT(60)
<1> QED
  BY <1>1, <1>3, <1>4, <1>5, Numbers, SMTT(60)

(* A size that is not the end of a message's size was cut off. *)
LEMMA OpenIsShort ==
  ASSUME NEW r, NEW ks, TypeOK, Stream(r, ks), Flow(r),
         Open, sizeBuf # <<>>, body = <<>>, ~peeked
  PROVE  /\ Current <= Len(sent) /\ Len(sizeBuf) + Len(body) < ks[Current] + sent[Current].size
<1> DEFINE d == Len(delivered)
<1>1. d \in 0 .. Len(sent) /\ Len(sent) \in Nat /\ Len(sizeBuf) \in Nat
  BY Lengths
<1>2. sizeBuf \in Seq(Byte) /\ wire \o out \in Seq(Byte) /\ r[d] = sizeBuf \o (wire \o out)
  BY RestIsAhead DEF Flow, TypeOK
<1>3. \A i \in 1 .. Len(sizeBuf) : sizeBuf[i] >= Cont
  BY DEF Open
<1>4. Len(body) = 0
  BY EmptySeq
<1> HIDE DEF d
<1>5. d < Len(sent) /\ Len(sizeBuf) < ks[d + 1] /\ ks[d + 1] \in Nat /\ sent[d + 1].size \in Nat
  BY <1>1, <1>2, <1>3, OpenIsPrefix
<1>6. d + 1 <= Len(sent) /\ Len(sizeBuf) + Len(body) < ks[d + 1] + sent[d + 1].size
  BY <1>1, <1>4, <1>5
<1> QED BY <1>6 DEF d, Current

(* The size is refused. *)
LEMMA BadSizeStep ==
  ASSUME NEW r, NEW ks, TypeOK, Stream(r, ks), Flow(r), Phases(ks), Told, BadSize
  PROVE  TypeOK' /\ Flow(r)' /\ Phases(ks)' /\ Told'
<1>0. /\ pc = "body" /\ pc' = "idle"
      /\ UNCHANGED <<reader, sent, out, begun, closed, wire, sizeBuf, size, body, peeked, delivered>>
      /\ \/ n.err # "none" /\ outcome' = IF n.err = "truncated" THEN "ErrUnexpectedEOF" ELSE n.err
         \/ n.err = "none" /\ TooLarge /\ outcome' = "SizeTooLarge"
  BY ReadingKeeps DEF BadSize, Fail, locals
<1>1. body = <<>> /\ ~peeked /\ (Sized(ks) \/ (Open /\ sizeBuf # <<>> /\ wire = <<>> /\ closed # "no"))
  BY <1>0 DEF Phases
<1>2. Flow(r)'
  <2>1. sizeBuf' \o Rest' = sizeBuf \o Rest
    BY <1>0 DEF Rest
  <2> QED BY <2>1, <1>0, FlowKept
<1>3. CASE Sized(ks)
  <2>1. n.err = "none" /\ n.v = sent[Current].size
    BY <1>3, Decoded DEF n
  <2>2. outcome' = "SizeTooLarge" /\ sent[Current].size > Limit /\ Current <= Len(sent)
    BY <2>1, <1>0, <1>3 DEF TooLarge, Sized
  <2>3. TypeOK'
    BY <2>2, <1>0 DEF TypeOK
  <2>4. Phases(ks)'
    BY <2>2, <1>0 DEF Phases
  <2>5. Told'
    <3>1. InOrder' /\ EndIsTold'
      BY <2>2, <1>0 DEF Told, InOrder, EndIsTold
    <3>2. SizesAreJudged'
      BY <2>2, <1>0 DEF Told, SizesAreJudged, Current
    <3> QED BY <2>2, <3>1, <3>2, <1>0 DEF Told, Current
  <2> QED BY <2>3, <2>4, <2>5, <1>2
<1>4. CASE Open /\ sizeBuf # <<>> /\ wire = <<>> /\ closed # "no"
  <2>1. n.err = "truncated"
    BY <1>4, Decoded DEF n
  <2>2. outcome' = "ErrUnexpectedEOF"
    BY <2>1, <1>0
  <2>3. closed = "failed" /\ begun /\ Len(delivered) = Len(sent) - 1
    <3>1. Current <= Len(sent) /\ Len(sizeBuf) + Len(body) < ks[Current] + sent[Current].size
      BY <1>1, <1>4, OpenIsShort
    <3> QED BY <3>1, <1>1, <1>4, CutOff
  <2>4. TypeOK'
    BY <2>2, <1>0 DEF TypeOK
  <2>5. Phases(ks)'
    BY <2>2, <1>0 DEF Phases
  <2>6. Told'
    BY <2>2, <2>3, <1>0 DEF Told, InOrder, EndIsTold, SizesAreJudged
  <2> QED BY <2>4, <2>5, <2>6, <1>2
<1> QED BY <1>1, <1>3, <1>4

(* The size is accepted. *)
LEMMA GoodSizeFacts ==
  ASSUME NEW r, NEW ks, TypeOK, Stream(r, ks), Flow(r), Phases(ks), GoodSize
  PROVE  /\ pc = "body" /\ UNCHANGED <<reader, sent, out, begun, closed>>
         /\ body = <<>> /\ ~peeked /\ outcome = "none"
         /\ Sized(ks) /\ size' = sent[Current].size /\ size' \in Nat /\ (Limit = -1 \/ size' <= Limit)
<1>0. /\ pc = "body" /\ UNCHANGED <<reader, sent, out, begun, closed>>
      /\ n.err = "none" /\ ~TooLarge /\ size' = n.v
  BY ReadingKeeps DEF GoodSize
<1>1. body = <<>> /\ ~peeked /\ outcome = "none" /\ (Sized(ks) \/ Open)
  BY <1>0 DEF Phases
<1>2. Sized(ks)
  <2>1. Open => n.err = "truncated"
    BY Decoded DEF n
  <2> QED BY <2>1, <1>0, <1>1
<1>3. n.v = sent[Current].size /\ sent[Current] \in Message
  BY <1>2, Decoded DEF n
<1>4. sent[Current].size \in Nat
  BY <1>3, ContentsBytes
<1>5. Limit = -1 \/ size' <= Limit
  <2>1. Limit \in Int
    BY DelimAssumption
  <2> QED BY <2>1, <1>0, <1>3, <1>4 DEF TooLarge
<1> QED BY <1>0, <1>1, <1>2, <1>3, <1>4, <1>5

(* The contents are peeked at. *)
LEMMA PeekStep ==
  ASSUME NEW r, NEW ks, TypeOK, Stream(r, ks), Flow(r), Phases(ks), Told, Peek
  PROVE  TypeOK' /\ Flow(r)' /\ Phases(ks)' /\ Told'
<1>0. /\ Len(wire) >= size' /\ body' = SubSeq(wire, 1, size') /\ peeked' = TRUE /\ pc' = "unmarshal"
      /\ UNCHANGED <<wire, sizeBuf, delivered, outcome>> /\ GoodSize
  BY DEF Peek
<1>1. /\ pc = "body" /\ UNCHANGED <<reader, sent, out, begun, closed>>
      /\ body = <<>> /\ ~peeked /\ outcome = "none"
      /\ Sized(ks) /\ size' = sent[Current].size /\ size' \in Nat /\ (Limit = -1 \/ size' <= Limit)
  BY <1>0, GoodSizeFacts
<1>2. wire \in Seq(Byte) /\ Len(wire) \in Nat
  BY DEF TypeOK
<1>3. body' \in Seq(Byte) /\ Len(body') = size'
  <2>1. PICK k \in 0 .. Len(wire) : k = size'
    BY <1>0, <1>1, <1>2
  <2>2. SubSeq(wire, 1, k) \in Seq(Byte) /\ Len(SubSeq(wire, 1, k)) = k
    BY <1>2, CutAt
  <2> QED BY <2>1, <2>2, <1>0
<1>4. TypeOK'
  <2>1. Len(body') <= size'
    BY <1>1, <1>3
  <2> QED BY <2>1, <1>0, <1>1, <1>3 DEF TypeOK
<1>5. Flow(r)'
  <2>1. Rest = wire \o out
    BY <1>1, RestIsAhead
  <2>2. Rest' = wire \o out
    BY <1>0, <1>1 DEF Rest
  <2>3. sizeBuf' \o Rest' = sizeBuf \o Rest
    BY <2>1, <2>2, <1>0
  <2> QED BY <2>3, <1>0, <1>1, FlowKept
<1>6. Current' = Current /\ Sized(ks)'
  BY <1>0, <1>1 DEF Sized, Current
<1>7. Phases(ks)'
  BY <1>0, <1>1, <1>3, <1>6 DEF Phases
<1>8. Told'
  BY <1>0, <1>1, ToldKept
<1> QED BY <1>4, <1>5, <1>7, <1>8

(* The contents are to be read one after the other. *)
LEMMA NotPeekedStep ==
  ASSUME NEW r, NEW ks, TypeOK, Stream(r, ks), Flow(r), Phases(ks), Told,
         GoodSize, body' = <<>>, peeked' = FALSE, pc' = "full",
         UNCHANGED <<wire, sizeBuf, delivered, outcome>>
  PROVE  TypeOK' /\ Flow(r)' /\ Phases(ks)' /\ Told'
<1>1. /\ pc = "body" /\ UNCHANGED <<reader, sent, out, begun, closed>>
      /\ body = <<>> /\ ~peeked /\ outcome = "none"
      /\ Sized(ks) /\ size' = sent[Current].size /\ size' \in Nat /\ (Limit = -1 \/ size' <= Limit)
  BY GoodSizeFacts
<1>2. body' \in Seq(Byte) /\ Len(body') = 0
  BY EmptySeq
<1>3. TypeOK'
  <2>1. Len(body') <= size'
    BY <1>1, <1>2
  <2> QED BY <2>1, <1>1, <1>2 DEF TypeOK
<1>4. Flow(r)'
  <2>1. sizeBuf' \o Rest' = sizeBuf \o Rest
    BY <1>1 DEF Rest
  <2> QED BY <2>1, <1>1, FlowKept
<1>5. Current' = Current /\ Sized(ks)'
  BY <1>1 DEF Sized, Current
<1>6. Phases(ks)'
  BY <1>1, <1>5 DEF Phases
<1>7. Told'
  BY <1>1, ToldKept
<1> QED BY <1>3, <1>4, <1>6, <1>7

(* io.ReadFull takes a byte, or is done, or finds the stream at its end. *)
LEMMA ReadFullStep ==
  ASSUME NEW r, NEW ks, TypeOK, Stream(r, ks), Flow(r), Phases(ks), Told, ReadFull
  PROVE  TypeOK' /\ Flow(r)' /\ Phases(ks)' /\ Told'
<1>0. pc = "full" /\ UNCHANGED <<reader, sent, out, begun, closed>>
  BY ReadingKeeps DEF ReadFull
<1>1. ~peeked /\ outcome = "none" /\ Sized(ks) /\ size = sent[Current].size /\ (Limit = -1 \/ size <= Limit)
  BY <1>0 DEF Phases
<1>2. /\ sizeBuf \in Seq(Byte) /\ body \in Seq(Byte) /\ wire \in Seq(Byte) /\ out \in Seq(Byte)
      /\ size \in Nat /\ Len(body) \in Nat
  BY DEF TypeOK
<1>3. CASE Len(body) = size /\ pc' = "unmarshal" /\ UNCHANGED <<wire, locals, delivered, outcome>>
  <2>0. UNCHANGED <<wire, sizeBuf, size, body, peeked, delivered, outcome>>
    BY <1>3 DEF locals
  <2>1. TypeOK'
    BY <2>0, <1>0, <1>3 DEF TypeOK
  <2>2. Flow(r)'
    <3>1. sizeBuf' \o Rest' = sizeBuf \o Rest
      BY <2>0, <1>0 DEF Rest
    <3> QED BY <3>1, <2>0, <1>0, FlowKept
  <2>3. Current' = Current /\ Sized(ks)'
    BY <2>0, <1>0, <1>1 DEF Sized, Current
  <2>4. Phases(ks)'
    BY <2>0, <2>3, <1>0, <1>1, <1>3 DEF Phases
  <2>5. Told'
    BY <2>0, <1>0, ToldKept
  <2> QED BY <2>1, <2>2, <2>4, <2>5
<1>4. CASE /\ Len(body) < size /\ wire # <<>>
           /\ body' = Append(body, Head(wire)) /\ wire' = Tail(wire)
           /\ UNCHANGED <<pc, sizeBuf, size, peeked, delivered, outcome>>
  <2>1. /\ body' \in Seq(Byte) /\ wire' \in Seq(Byte) /\ Len(body') = Len(body) + 1
        /\ body' \o (wire' \o out) = body \o (wire \o out)
    BY <1>2, <1>4, Move, SMTT(60)
  <2>2. TypeOK'
    <3>1. Len(body') <= size
      BY <2>1, <1>2, <1>4
    <3> QED BY <3>1, <2>1, <1>0, <1>4 DEF TypeOK
  <2>3. Flow(r)'
    <3>1. Rest = body \o (wire \o out) /\ Rest' = body' \o (wire' \o out)
      BY <1>0, <1>1, <1>4 DEF Rest
    <3>2. sizeBuf' \o Rest' = sizeBuf \o Rest
      BY <3>1, <2>1, <1>4
    <3> QED BY <3>2, <1>0, <1>4, FlowKept
  <2>4. Current' = Current /\ Sized(ks)'
    BY <1>0, <1>1, <1>4 DEF Sized, Current
  <2>5. Phases(ks)'
    BY <2>4, <1>0, <1>1, <1>4 DEF Phases
  <2>6. Told'
    BY <1>0, <1>4, ToldKept
  <2> QED BY <2>2, <2>3, <2>5, <2>6
<1>5. CASE Len(body) < size /\ wire = <<>> /\ closed # "no" /\ Fail("ErrUnexpectedEOF")
  <2>0. /\ outcome' = "ErrUnexpectedEOF" /\ pc' = "idle"
        /\ UNCHANGED <<wire, sizeBuf, size, body, peeked, delivered>>
    BY <1>5 DEF Fail, locals
  <2>1. TypeOK'
    BY <2>0, <1>0 DEF TypeOK
  <2>2. Flow(r)'
    <3>1. sizeBuf' \o Rest' = sizeBuf \o Rest
      BY <2>0, <1>0 DEF Rest
    <3> QED BY <3>1, <2>0, <1>0, FlowKept
  <2>3. Phases(ks)'
    BY <2>0, <1>0 DEF Phases
  <2>4. closed = "failed" /\ begun /\ Len(delivered) = Len(sent) - 1
    <3>1. Len(sizeBuf) = ks[Current] /\ Current <= Len(sent)
      BY <1>1, Decoded DEF Sized
    <3>2. Current \in 1 .. Len(sent)
      BY <3>1 DEF Current, TypeOK
    <3>3. ks[Current] \in Nat \ {0}
      BY <3>2, Numbers DEF Stream
    <3>4. sizeBuf # <<>>
      BY <3>1, <3>3, EmptySeq
    <3>5. Len(sizeBuf) + Len(body) < ks[Current] + sent[Current].size
      BY <3>1, <3>3, <1>1, <1>2, <1>5
    <3> QED BY <3>1, <3>4, <3>5, <1>1, <1>5, CutOff
  <2>5. Told'
    BY <2>0, <2>4, <1>0 DEF Told, InOrder, EndIsTold, SizesAreJudged
  <2> QED BY <2>1, <2>2, <2>3, <2>5
<1> QED BY <1>3, <1>4, <1>5 DEF ReadFull

(* The contents that were read are those of the message, and what follows   *)
(* them is what follows the message.                                        *)
LEMMA ContentsRead ==
  ASSUME NEW r, NEW ks, TypeOK, Stream(r, ks), Flow(r), Phases(ks), pc = "unmarshal"
  PROVE  /\ body = Contents(sent[Current]) /\ Discard \o out = r[Current]
         /\ Discard \in Seq(Byte) /\ Current \in 1 .. Len(sent)
<1> DEFINE m == sent[Current]
           d == Len(delivered)
<1>1. Sized(ks) /\ size = m.size /\ Len(body) = size /\ (peeked => size <= Len(wire) /\ body = SubSeq(wire, 1, size))
  BY DEF Phases
<1>2. /\ sizeBuf \in Seq(Byte) /\ body \in Seq(Byte) /\ wire \in Seq(Byte) /\ out \in Seq(Byte)
      /\ size \in Nat /\ d \in Nat /\ Len(sent) \in Nat /\ Len(wire) \in Nat
  BY DEF TypeOK
<1>3. d \in 0 .. Len(sent) /\ d < Len(sent) /\ Current = d + 1
  BY <1>1, <1>2 DEF Sized, Current
<1>4. /\ m \in Message /\ Fits(m.size, ks[d + 1]) /\ r[d + 1] \in Seq(Byte)
      /\ r[d] = Groups(m.size, ks[d + 1]) \o (Contents(m) \o r[d + 1])
  BY <1>3, NextFrame
<1>5. sizeBuf = Groups(m.size, ks[d + 1])
  BY <1>1, <1>3 DEF Sized
<1>6. Contents(m) \in Seq(Byte) /\ Len(Contents(m)) = m.size
  BY <1>4, ContentsBytes
<1>7. Discard \in Seq(Byte) /\ Rest = body \o (Discard \o out)
  <2>1. CASE peeked
    <3>1. PICK k \in 0 .. Len(wire) : k = size
      BY <2>1, <1>1, <1>2
    <3>2. /\ SubSeq(wire, k + 1, Len(wire)) \in Seq(Byte)
          /\ SubSeq(wire, 1, k) \o SubSeq(wire, k + 1, Len(wire)) = wire
      BY <1>2, CutAt
    <3>3. Discard = SubSeq(wire, k + 1, Len(wire)) /\ body = SubSeq(wire, 1, k) /\ Rest = wire \o out
      BY <2>1, <3>1, <1>1 DEF Discard, Rest
    <3>4. Discard \in Seq(Byte) /\ body \o Discard = wire
      BY <3>2, <3>3
    <3>5. (body \o Discard) \o out = body \o (Discard \o out)
      BY <3>4, <1>2, Assoc, ZenonT(60)
    <3> QED BY <3>3, <3>4, <3>5
  <2>2. CASE ~peeked
    BY <2>2, <1>2 DEF Discard, Rest
  <2> QED BY <2>1, <2>2
<1> HIDE DEF m, d
<1>8. Discard \o out \in Seq(Byte)
  BY <1>2, <1>7, BytesJoined
<1>9. Rest = Contents(m) \o r[d + 1]
  <2>1. sizeBuf \o Rest = sizeBuf \o (Contents(m) \o r[d + 1])
    BY <1>4, <1>5 DEF Flow, d
  <2>2. Rest \in Seq(Byte)
    BY <1>2, <1>7, <1>8, BytesJoined
  <2>3. Contents(m) \o r[d + 1] \in Seq(Byte)
    BY <1>4, <1>6, BytesJoined
  <2>4. sizeBuf \in Seq(Byte) /\ Len(sizeBuf) = Len(sizeBuf)
    BY <1>2
  <2> QED BY <2>1, <2>2, <2>3, <2>4, SameParts, Zenon
<1>10. body \o (Discard \o out) = Contents(m) \o r[d + 1] /\ Len(body) = Len(Contents(m))
  BY <1>1, <1>6, <1>7, <1>9 DEF m
<1>11. body = Contents(m) /\ Discard \o out = r[d + 1]
  <2>1. body \in Seq(Byte) /\ Contents(m) \in Seq(Byte) /\ r[d + 1] \in Seq(Byte)
    BY <1>2, <1>4, <1>6
  <2> QED BY <2>1, <1>8, <1>10, SameParts, Zenon
<1> QED
  BY <1>2, <1>3, <1>7, <1>11 DEF m, d

(* The contents are handed over, and the call returns. *)
LEMMA UnmarshalStep ==
  ASSUME NEW r, NEW ks, TypeOK, Stream(r, ks), Flow(r), Phases(ks), Told, Unmarshal
  PROVE  TypeOK' /\ Flow(r)' /\ Phases(ks)' /\ Told'
<1> DEFINE d == Len(delivered)
           e == [contents |-> body, err |-> ~Parses(body)]
<1>0. /\ pc = "unmarshal" /\ UNCHANGED <<reader, sent, out, begun, closed, outcome>>
      /\ wire' = Discard /\ delivered' = Append(delivered, e)
      /\ pc' = "idle" /\ sizeBuf' = <<>> /\ size' = 0 /\ body' = <<>> /\ peeked' = FALSE
  BY ReadingKeeps DEF Unmarshal
<1>1. /\ body = Contents(sent[Current]) /\ wire' \o out = r[Current]
      /\ wire' \in Seq(Byte) /\ Current \in 1 .. Len(sent)
  BY <1>0, ContentsRead
<1>2. outcome = "none" /\ size = sent[Current].size /\ Len(body) = size /\ (Limit = -1 \/ size <= Limit)
  BY <1>0 DEF Phases
<1>3. e \in [contents : Seq(Byte), err : BOOLEAN] /\ e.contents = body
  BY DEF TypeOK
<1>4. delivered \in Seq([contents : Seq(Byte), err : BOOLEAN]) /\ d \in Nat /\ DOMAIN delivered = 1 .. d
  BY DEF TypeOK
<1> HIDE DEF e
<1>5. /\ delivered' \in Seq([contents : Seq(Byte), err : BOOLEAN]) /\ Len(delivered') = d + 1
      /\ \A i \in 1 .. d : delivered'[i] = delivered[i]
      /\ delivered'[d + 1] = e
      /\ DOMAIN delivered' = 1 .. d + 1
  BY <1>0, <1>3, <1>4, AppendProperties
<1>6. Current = d + 1
  BY DEF Current
<1> HIDE DEF d
<1>7. TypeOK'
  <2>1. <<>> \in Seq(Byte) /\ Len(<<>>) = 0 /\ 0 <= MaxVarintLen
    BY EmptySeq, Numbers
  <2>2. sizeBuf' \in Seq(Byte) /\ body' \in Seq(Byte) /\ Len(sizeBuf') <= MaxVarintLen /\ Len(body') <= size' /\ size' \in Nat
    BY <2>1, <1>0
  <2> QED BY <2>2, <1>0, <1>1, <1>5 DEF TypeOK
<1>8. Flow(r)'
  <2>1. wire' \o out \in Seq(Byte)
    BY <1>1, BytesJoined DEF TypeOK
  <2>2. sizeBuf' \o Rest' = wire' \o out
    <3>1. Rest' = <<>> \o (wire' \o out)
      BY <1>0 DEF Rest
    <3> QED BY <3>1, <2>1, <1>0, ConcatEmptySeq
  <2>3. Len(delivered') <= Len(sent) /\ r[Len(delivered')] = sizeBuf' \o Rest'
    BY <2>2, <1>1, <1>5, <1>6
  <2> QED BY <2>3, <1>0 DEF Flow
<1>9. Phases(ks)'
  BY <1>0, <1>2 DEF Phases
<1>10. Told'
  <2>1. ASSUME NEW i \in 1 .. d + 1
        PROVE  /\ delivered'[i].contents = Contents(sent[i])
               /\ Limit # -1 => Len(delivered'[i].contents) <= Limit
    <3>1. CASE i = d + 1
      BY <3>1, <1>1, <1>2, <1>3, <1>5, <1>6
    <3>2. CASE i # d + 1
      <4>1. i \in 1 .. d
        BY <3>2, <1>4
      <4> QED BY <4>1, <1>4, <1>5 DEF Told, InOrder, SizesAreJudged
    <3> QED BY <3>1, <3>2
  <2>2. InOrder'
    BY <2>1, <1>0, <1>1, <1>5, <1>6 DEF InOrder
  <2>3. SizesAreJudged'
    BY <2>1, <1>0, <1>2, <1>5 DEF SizesAreJudged
  <2>4. EndIsTold'
    BY <1>0, <1>2 DEF EndIsTold
  <2> QED BY <2>2, <2>3, <2>4, <1>0, <1>2 DEF Told
<1> QED BY <1>7, <1>8, <1>9, <1>10

-----------------------------------------------------------------------------
(* The theorems. *)

(* Every step keeps the invariant. *)
LEMMA Inductive == Inv /\ [Next]_vars => Inv'
<1> SUFFICES ASSUME Inv, [Next]_vars PROVE Inv'
  OBVIOUS
<1>0. PICK r, ks : Stream(r, ks) /\ Flow(r) /\ Phases(ks) /\ Told
  BY DEF Inv
<1>1. TypeOK
  BY DEF Inv
<1>2. CASE \E m \in Message, k \in 1 .. MaxVarintLen : k >= VarintLen(m.size) /\ MarshalTo(m, k)
  <2>1. PICK m \in Message, k \in 1 .. MaxVarintLen : k >= VarintLen(m.size) /\ MarshalTo(m, k)
    BY <1>2
  <2> QED BY <2>1, <1>0, <1>1, MarshalToStep
<1>3. ASSUME UNCHANGED sent, TypeOK' /\ Flow(r)' /\ Phases(ks)' /\ Told' PROVE Inv'
  <2>1. Stream(r, ks)'
    BY <1>0, <1>3, StreamKept
  <2> QED BY <2>1, <1>3 DEF Inv
<1>4. CASE Write
  <2>1. UNCHANGED sent
    BY <1>4 DEF Write
  <2> QED BY <2>1, <1>0, <1>1, <1>3, <1>4, WriteStep
<1>5. CASE Close
  <2>1. UNCHANGED sent
    BY <1>5 DEF Close
  <2> QED BY <2>1, <1>0, <1>1, <1>3, <1>5, CloseStep
<1>6. CASE ReaderStep
  <2>0. UNCHANGED sent
    BY <1>6 DEF ReaderStep, UnmarshalFrom, ReadByte, ReadByteEOF, BadSize, GoodSize, Peek, PeekFails,
                NoPeek, ReadFull, Unmarshal, Reading, writer
  <2>1. CASE UnmarshalFrom
    BY <2>0, <2>1, <1>0, <1>1, <1>3, UnmarshalFromStep
  <2>2. CASE ReadByte
    BY <2>0, <2>2, <1>0, <1>1, <1>3, ReadByteStep
  <2>3. CASE ReadByteEOF
    BY <2>0, <2>3, <1>0, <1>1, <1>3, ReadByteEOFStep
  <2>4. CASE BadSize
    BY <2>0, <2>4, <1>0, <1>1, <1>3, BadSizeStep
  <2>5. CASE Peek
    BY <2>0, <2>5, <1>0, <1>1, <1>3, PeekStep
  <2>6. CASE PeekFails \/ NoPeek
    <3>1. GoodSize /\ body' = <<>> /\ peeked' = FALSE /\ pc' = "full" /\ UNCHANGED <<wire, sizeBuf, delivered, outcome>>
      BY <2>6 DEF PeekFails, NoPeek
    <3> QED BY <2>0, <3>1, <1>0, <1>1, <1>3, NotPeekedStep
  <2>7. CASE ReadFull
    BY <2>0, <2>7, <1>0, <1>1, <1>3, ReadFullStep
  <2>8. CASE Unmarshal
    BY <2>0, <2>8, <1>0, <1>1, <1>3, UnmarshalStep
  <2> QED
    BY <1>6, <2>1, <2>2, <2>3, <2>4, <2>5, <2>6, <2>7, <2>8 DEF ReaderStep
<1>7. CASE UNCHANGED vars
  <2>1. UNCHANGED <<reader, sent, out, begun, closed, wire, pc, sizeBuf, size, body, peeked, delivered, outcome>>
    BY <1>7 DEF vars, writer, locals
  <2>2. TypeOK'
    BY <2>1, <1>1 DEF TypeOK
  <2>3. Flow(r)'
    <3>1. sizeBuf' \o Rest' = sizeBuf \o Rest
      BY <2>1 DEF Rest
    <3> QED BY <3>1, <2>1, <1>0, FlowKept
  <2>4. Current' = Current /\ (Sized(ks)' <=> Sized(ks)) /\ (Open' <=> Open)
    BY <2>1 DEF Sized, Current, Open
  <2>5. Phases(ks)'
    BY <2>1, <2>4, <1>0 DEF Phases
  <2>6. Told'
    BY <2>1, <1>0, ToldKept
  <2> QED BY <2>1, <2>2, <2>3, <2>5, <2>6, <1>3
<1> QED
  BY <1>2, <1>4, <1>5, <1>6, <1>7 DEF Next

(* At any time, what the reader has of the next message, what is on the     *)
(* wire and what is still to be written are the messages not yet delivered. *)
THEOREM Invariant == Spec => []Inv
<1> QED
  BY InitInv, Inductive, PTL DEF Spec

(* The reader never holds more than a size's bytes and those of a message.  *)
THEOREM TypeCorrect == Spec => []TypeOK
<1>1. Inv => TypeOK
  BY DEF Inv
<1> QED
  BY <1>1, Invariant, PTL

(* UnmarshalFrom delivers the messages that MarshalTo was given, in their   *)
(* order and with their contents, for any sizes and however they are        *)
(* encoded, whatever the Reader, its buffer and the arrival of the bytes.   *)
THEOREM DeliveredInOrder == Spec => []InOrder
<1>1. Inv => InOrder
  BY DEF Inv, Told
<1> QED
  BY <1>1, Invariant, PTL

(* io.EOF is returned only between messages, and io.ErrUnexpectedEOF only   *)
(* inside one.                                                              *)
THEOREM EndsAreTold == Spec => []EndIsTold
<1>1. Inv => EndIsTold
  BY DEF Inv, Told
<1> QED
  BY <1>1, Invariant, PTL

(* SizeTooLargeError is returned for the messages larger than MaxSize and   *)
(* for no others, and no size that MarshalTo can write is an overflow.      *)
THEOREM SizesJudged == Spec => []SizesAreJudged
<1>1. Inv => SizesAreJudged
  BY DEF Inv, Told
<1> QED
  BY <1>1, Invariant, PTL
=============================================================================
