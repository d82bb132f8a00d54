--------------------------- MODULE Validate_proofs ---------------------------
(***************************************************************************)
(* Proofs about Validate, for any message types, records and limits and    *)
(* buffers of any length.                                                  *)
(***************************************************************************)
EXTENDS Validate, FiniteSetTheorems, WellFoundedInduction, TLAPS

-----------------------------------------------------------------------------
(* Induction over the naturals, and recursion as a consequence. *)

(* Every nonempty set of naturals has a smallest element. *)
LEMMA SmallestOf ==
  ASSUME NEW T, T \subseteq Nat, T # {}
  PROVE  \E x \in T : \A y \in T : x <= y
<1>1. PICK x \in T : \A y \in T : <<y, x>> \notin OpToRel(<, Nat)
  BY WFMin, NatLessThanWellFounded, Zenon
<1>2. \A y \in T : ~(y < x)
  BY <1>1 DEF OpToRel
<1> QED
  BY <1>2

(* A set with 0 and with the successors of its naturals has all of them. *)
LEMMA InductiveSet ==
  ASSUME NEW T, 0 \in T, \A m \in Nat : m \in T => m + 1 \in T
  PROVE  Nat \subseteq T
<1>1. SUFFICES ASSUME Nat \ T # {} PROVE FALSE
  OBVIOUS
<1>2. PICK x \in Nat \ T : \A y \in Nat \ T : x <= y
  BY <1>1, SmallestOf
<1>3. x # 0 /\ x - 1 \in Nat
  BY <1>2
<1>4. x - 1 \in T
  BY <1>2, <1>3
<1> QED
  BY <1>2, <1>3, <1>4

(* The functions that follow a recursion up to N. *)
Upto(N, S, base, step) ==
  {f \in [0 .. N -> S] : f[0] = base /\ \A i \in 1 .. N : f[i] = step[f[i - 1]]}

LEMMA UptoExists ==
  ASSUME NEW S, NEW base \in S, NEW step \in [S -> S], NEW N \in Nat
  PROVE  Upto(N, S, base, step) # {}
<1> DEFINE T == {k \in Nat : Upto(k, S, base, step) # {}}
<1>1. 0 \in T
  <2>1. [i \in 0 .. 0 |-> base] \in Upto(0, S, base, step)
    BY DEF Upto
  <2> QED
    BY <2>1
<1>2. ASSUME NEW m \in Nat, m \in T PROVE m + 1 \in T
  <2>1. PICK f : f \in Upto(m, S, base, step)
    BY <1>2
  <2> DEFINE g == [i \in 0 .. m + 1 |-> IF i <= m THEN f[i] ELSE step[f[m]]]
  <2>2. f[m] \in S /\ step[f[m]] \in S
    BY <2>1 DEF Upto
  <2>3. g \in [0 .. m + 1 -> S]
    BY <2>1, <2>2 DEF Upto
  <2>4. g[0] = base
    BY <2>1 DEF Upto
  <2>5. \A i \in 1 .. m + 1 : g[i] = step[g[i - 1]]
    BY <2>1 DEF Upto
  <2>6. g \in Upto(m + 1, S, base, step)
    BY <2>3, <2>4, <2>5 DEF Upto
  <2> QED
    BY <2>6
<1>3. N \in T
  <2> HIDE DEF T
  <2> QED BY <1>1, <1>2, InductiveSet
<1> QED
  BY <1>3

LEMMA UptoUnique ==
  ASSUME NEW S, NEW base \in S, NEW step \in [S -> S], NEW N \in Nat, NEW M \in Nat, N <= M,
         NEW f \in Upto(N, S, base, step), NEW g \in Upto(M, S, base, step)
  PROVE  f[N] = g[N]
<1> DEFINE T == {k \in Nat : k <= N => f[k] = g[k]}
<1>1. 0 \in T
  BY DEF Upto
<1>2. ASSUME NEW k \in Nat, k \in T PROVE k + 1 \in T
  <2> SUFFICES ASSUME k + 1 <= N PROVE f[k + 1] = g[k + 1]
    OBVIOUS
  <2>1. k + 1 \in 1 .. N /\ k + 1 \in 1 .. M /\ (k + 1) - 1 = k /\ f[k] = g[k]
    BY <1>2
  <2> QED
    BY <2>1 DEF Upto
<1>3. N \in T
  <2> HIDE DEF T
  <2> QED BY <1>1, <1>2, InductiveSet
<1> QED
  BY <1>3

(* f follows a recursion. *)
Follows(f, S, base, step) ==
  /\ f \in [Nat -> S] /\ f[0] = base
  /\ \A i \in Nat : f[i + 1] = step[f[i]]

(* A function on the naturals defined by recursion exists. *)
LEMMA Recursion ==
  ASSUME NEW S, NEW base \in S, NEW step \in [S -> S]
  PROVE  \E f : Follows(f, S, base, step)
<1> DEFINE u(n) == CHOOSE f : f \in Upto(n, S, base, step)
           f == [n \in Nat |-> u(n)[n]]
<1>1. ASSUME NEW n \in Nat PROVE u(n) \in Upto(n, S, base, step)
  BY UptoExists
<1> HIDE DEF u
<1>2. f[0] = base
  <2>1. u(0) \in Upto(0, S, base, step)
    BY <1>1
  <2> QED
    BY <2>1 DEF Upto
<1>3. f \in [Nat -> S]
  <2>1. ASSUME NEW n \in Nat PROVE u(n)[n] \in S
    BY <1>1 DEF Upto
  <2> QED
    BY <2>1
<1>4. ASSUME NEW i \in Nat PROVE f[i + 1] = step[f[i]]
  <2>1. u(i) \in Upto(i, S, base, step) /\ u(i + 1) \in Upto(i + 1, S, base, step)
    BY <1>1
  <2>2. u(i)[i] = u(i + 1)[i]
    BY <2>1, UptoUnique
  <2>3. u(i + 1)[i + 1] = step[u(i + 1)[i]]
    <3>1. i + 1 \in 1 .. i + 1 /\ (i + 1) - 1 = i
      OBVIOUS
    <3> QED
      BY <2>1, <3>1 DEF Upto
  <2> QED
    BY <2>2, <2>3
<1> QED
  BY <1>2, <1>3, <1>4 DEF Follows

(* An invariant of the steps holds of all that a recursion reaches. *)
LEMMA FollowsInduction ==
  ASSUME NEW S, NEW base, NEW step, NEW f, Follows(f, S, base, step),
         NEW P, base \in P, \A x \in S : x \in P => step[x] \in P
  PROVE  \A i \in Nat : f[i] \in P
<1> DEFINE T == {k \in Nat : f[k] \in P}
<1>1. 0 \in T
  BY DEF Follows
<1>2. ASSUME NEW k \in Nat, k \in T PROVE k + 1 \in T
  BY <1>2 DEF Follows
<1>3. Nat \subseteq T
  <2> HIDE DEF T
  <2> QED BY <1>1, <1>2, InductiveSet
<1> QED
  BY <1>3

-----------------------------------------------------------------------------
(* Loops. *)

LEMMA IterationsDef ==
  ASSUME NEW S, NEW first \in S, NEW body \in [S -> S]
  PROVE  Follows(Iterations(body, first), S, first, body)
<1> DEFINE E(f) == f = [i \in Nat |-> IF i = 0 THEN first ELSE body[f[i - 1]]]
           g == CHOOSE f : E(f)
<1>1. PICK f : Follows(f, S, first, body)
  BY Recursion
<1>2. E(f)
  <2>1. ASSUME NEW i \in Nat PROVE f[i] = IF i = 0 THEN first ELSE body[f[i - 1]]
    <3>1. CASE i = 0
      BY <1>1, <3>1 DEF Follows
    <3>2. CASE i # 0
      <4>1. i - 1 \in Nat /\ (i - 1) + 1 = i
        BY <3>2
      <4>2. f[(i - 1) + 1] = body[f[i - 1]]
        BY <1>1, <4>1, Zenon DEF Follows
      <4> QED
        BY <4>1, <4>2, <3>2
    <3> QED
      BY <3>1, <3>2
  <2>2. f = [i \in Nat |-> f[i]]
    BY <1>1 DEF Follows
  <2> QED
    BY <2>1, <2>2
<1>3. E(g)
  BY <1>2
<1>4. Iterations(body, first) = g
  BY DEF Iterations
<1>5. g[0] = first /\ \A i \in Nat : g[i + 1] = body[g[i]]
  <2> HIDE DEF g
  <2>1. \A i \in Nat : g[i] = IF i = 0 THEN first ELSE body[g[i - 1]]
    BY <1>3
  <2>2. ASSUME NEW i \in Nat PROVE g[i + 1] = body[g[i]]
    <3>1. i + 1 \in Nat /\ i + 1 # 0 /\ (i + 1) - 1 = i
      OBVIOUS
    <3> QED
      BY <2>1, <3>1
  <2> QED
    BY <2>1, <2>2
<1>6. DOMAIN g = Nat /\ g = [i \in Nat |-> g[i]]
  <2> HIDE DEF g
  <2> QED BY <1>3
<1> HIDE DEF g
<1>7. \A i \in Nat : g[i] \in S
  <2> DEFINE T == {k \in Nat : g[k] \in S}
  <2>1. 0 \in T
    BY <1>5
  <2>2. ASSUME NEW k \in Nat, k \in T PROVE k + 1 \in T
    BY <1>5, <2>2
  <2>3. Nat \subseteq T
    <3> HIDE DEF T
    <3> QED BY <2>1, <2>2, InductiveSet
  <2> QED
    BY <2>3
<1>8. g \in [Nat -> S]
  BY <1>6, <1>7
<1> QED
  BY <1>4, <1>5, <1>8 DEF Follows

(* A loop at a state that it does not leave any more stays there. *)
LEMMA Stays ==
  ASSUME NEW S, NEW first \in S, NEW body \in [S -> S], NEW i \in Nat,
         NEW s, Iterations(body, first)[i] = s, body[s] = s
  PROVE  \A j \in Nat : j >= i => Iterations(body, first)[j] = s
<1> DEFINE f == Iterations(body, first)
           T == {k \in Nat : f[i + k] = s}
<1>1. Follows(f, S, first, body)
  BY IterationsDef
<1>2. f[i] = s
  OBVIOUS
<1> HIDE DEF f
<1>3. 0 \in T
  BY <1>2
<1>4. ASSUME NEW k \in Nat, k \in T PROVE k + 1 \in T
  <2>1. f[i + k] = s /\ i + k \in Nat /\ i + (k + 1) = (i + k) + 1
    BY <1>4
  <2>2. f[(i + k) + 1] = body[f[i + k]]
    BY <1>1, <2>1, Zenon DEF Follows
  <2> QED
    BY <2>1, <2>2
<1>5. Nat \subseteq T
  <2> HIDE DEF T
  <2> QED BY <1>3, <1>4, InductiveSet
<1>6. ASSUME NEW j \in Nat, j >= i PROVE f[j] = s
  <2>1. j - i \in Nat /\ i + (j - i) = j
    BY <1>6
  <2>2. f[i + (j - i)] = s
    BY <1>5, <2>1
  <2> QED
    BY <2>1, <2>2
<1> QED
  BY <1>6 DEF f

(* A loop comes to s, in as many iterations as it consumes records at most. *)
Runs(body, first, s) == \E i \in Nat : i <= s.n - first.n /\ Iterations(body, first)[i] = s

LEMMA RunStart ==
  ASSUME NEW buf \in Seq(Token), NEW first \in Outcome(buf), NEW body \in [Outcome(buf) -> Outcome(buf)]
  PROVE  Runs(body, first, first)
<1>1. Follows(Iterations(body, first), Outcome(buf), first, body)
  BY IterationsDef
<1>2. first.n \in Nat
  BY DEF Outcome
<1> QED
  BY <1>1, <1>2 DEF Runs, Follows

LEMMA RunStep ==
  ASSUME NEW buf \in Seq(Token), NEW first \in Outcome(buf), NEW body \in [Outcome(buf) -> Outcome(buf)],
         NEW s \in Outcome(buf), Runs(body, first, s), body[s].n > s.n
  PROVE  Runs(body, first, body[s])
<1>1. Follows(Iterations(body, first), Outcome(buf), first, body)
  BY IterationsDef
<1>0. body[s] \in Outcome(buf)
  OBVIOUS
<1>2. first.n \in Nat /\ s.n \in Nat /\ body[s].n \in Nat
  BY <1>0 DEF Outcome
<1>3. PICK i \in Nat : i <= s.n - first.n /\ Iterations(body, first)[i] = s
  BY DEF Runs
<1>4. Iterations(body, first)[i + 1] = body[s]
  BY <1>1, <1>3, Zenon DEF Follows
<1>5. i + 1 <= body[s].n - first.n /\ i + 1 \in Nat
  BY <1>2, <1>3
<1> QED
  BY <1>4, <1>5 DEF Runs

LEMMA RunEnd ==
  ASSUME NEW buf \in Seq(Token), NEW first \in Outcome(buf), NEW body \in [Outcome(buf) -> Outcome(buf)],
         NEW s \in Outcome(buf), Runs(body, first, s), NEW t, body[s] = t, body[t] = t
  PROVE  Loop(buf, body, first) = t
<1>1. Follows(Iterations(body, first), Outcome(buf), first, body)
  BY IterationsDef
<1>2. first.n \in Nat /\ s.n \in 0 .. Len(buf) /\ Len(buf) \in Nat
  BY DEF Outcome
<1>3. PICK i \in Nat : i <= s.n - first.n /\ Iterations(body, first)[i] = s
  BY DEF Runs
<1>4. Iterations(body, first)[i + 1] = t
  BY <1>1, <1>3, Zenon DEF Follows
<1>5. i + 1 \in Nat /\ Len(buf) + 1 \in Nat /\ Len(buf) + 1 >= i + 1
  BY <1>2, <1>3
<1>6. Iterations(body, first)[Len(buf) + 1] = t
  BY <1>4, <1>5, Stays
<1> QED
  BY <1>6 DEF Loop

LEMMA LoopType ==
  ASSUME NEW buf \in Seq(Token), NEW first \in Outcome(buf), NEW body \in [Outcome(buf) -> Outcome(buf)]
  PROVE  Loop(buf, body, first) \in Outcome(buf)
<1>1. Follows(Iterations(body, first), Outcome(buf), first, body)
  BY IterationsDef
<1>2. Len(buf) + 1 \in Nat
  OBVIOUS
<1> QED
  BY <1>1, <1>2 DEF Loop, Follows

-----------------------------------------------------------------------------
(* The functions of the reference decoder are defined and typed. *)

GroupType(buf) == [Nat -> [0 .. Len(buf) -> [0 .. Len(buf) -> Outcome(buf)]]]
EntryType(buf) == [DOMAIN Schema -> [0 .. Len(buf) -> [0 .. Len(buf) -> Outcome(buf)]]]
SubType(buf)   == [DOMAIN Schema -> [Nat -> [0 .. Len(buf) -> [0 .. Len(buf) -> Outcome(buf)]]]]

LEMMA OutcomesType ==
  ASSUME NEW buf \in Seq(Token), NEW n \in 0 .. Len(buf), NEW ok \in BOOLEAN,
         NEW err \in {"run", "none", "decode", "depth", "errUnknown"}
  PROVE  Fails(err) \in Outcome(buf) /\ Done(n, ok) \in Outcome(buf) /\ Begun(n, ok) \in Outcome(buf)
<1>1. 0 \in 0 .. Len(buf)
  OBVIOUS
<1> QED
  BY <1>1 DEF Fails, Done, Begun, Outcome

LEMMA ConsumeFieldValueType ==
  ASSUME NEW buf \in Seq(Token), NEW tok \in Token, NEW at \in 0 .. Len(buf), NEW end \in 0 .. Len(buf),
         NEW group \in GroupType(buf)
  PROVE  ConsumeFieldValue(tok, at, end, group) \in (0 .. Len(buf)) \cup {-1}
<1>1. group[tok.num][end][at] \in Outcome(buf)
  <2>1. tok.num \in Nat
    BY DEF Token
  <2>2. group[tok.num] \in [0 .. Len(buf) -> [0 .. Len(buf) -> Outcome(buf)]]
    BY <2>1 DEF GroupType
  <2> QED
    BY <2>2
<1>2. group[tok.num][end][at].n \in 0 .. Len(buf)
  BY <1>1 DEF Outcome
<1>3. tok.size \in Nat /\ tok.wtyp \in WireTypes
  BY DEF Token
<1> HIDE DEF GroupType
<1> QED
  BY <1>2, <1>3 DEF ConsumeFieldValue

LEMMA GroupBodyType ==
  ASSUME NEW buf \in Seq(Token), NEW num \in Nat, NEW end \in 0 .. Len(buf), NEW group \in GroupType(buf)
  PROVE  GroupBody(buf, num, end, group) \in [Outcome(buf) -> Outcome(buf)]
<1>1. ASSUME NEW s \in Outcome(buf) PROVE GroupBody(buf, num, end, group)[s] \in Outcome(buf)
  <2> DEFINE tok == buf[s.n + 1]
             m == ConsumeFieldValue(tok, s.n + 1, end, group)
  <2>1. GroupBody(buf, num, end, group)[s] =
            IF s.err # "run" THEN s
            ELSE IF s.n >= end THEN Fails("decode")
            ELSE IF tok.wtyp = "end"
                 THEN IF tok.num = num THEN Done(s.n + 1, TRUE) ELSE Fails("decode")
            ELSE IF m < 0 THEN Fails("decode") ELSE Begun(m, TRUE)
    BY DEF GroupBody
  <2>2. s.n \in 0 .. Len(buf)
    BY DEF Outcome
  <2>3. CASE s.err # "run" \/ s.n >= end
    BY <2>1, <2>3, OutcomesType
  <2>4. CASE s.err = "run" /\ s.n < end
    <3>1. s.n + 1 \in 0 .. Len(buf) /\ tok \in Token
      BY <2>2, <2>4
    <3>2. m \in (0 .. Len(buf)) \cup {-1}
      BY <3>1, ConsumeFieldValueType
    <3> HIDE DEF m, tok
    <3>3. m < 0 \/ m \in 0 .. Len(buf)
      BY <3>2
    <3>4. Fails("decode") \in Outcome(buf) /\ Done(s.n + 1, TRUE) \in Outcome(buf)
      BY <3>1, OutcomesType
    <3>5. m \in 0 .. Len(buf) => Begun(m, TRUE) \in Outcome(buf)
      BY OutcomesType
    <3> QED
      BY <2>1, <3>3, <3>4, <3>5
  <2> QED
    BY <2>2, <2>3, <2>4
<1> QED
  BY <1>1 DEF GroupBody

(* What one level of groups makes of the levels below it. *)
GroupStep(buf, group) ==
  [num \in Nat |-> [end \in 0 .. Len(buf) |-> [at \in 0 .. Len(buf) |->
      Loop(buf, GroupBody(buf, num, end, group), Begun(at, TRUE))]]]

LEMMA GroupStepType ==
  ASSUME NEW buf \in Seq(Token), NEW group \in GroupType(buf)
  PROVE  GroupStep(buf, group) \in GroupType(buf)
<1>1. ASSUME NEW num \in Nat, NEW end \in 0 .. Len(buf), NEW at \in 0 .. Len(buf)
      PROVE  Loop(buf, GroupBody(buf, num, end, group), Begun(at, TRUE)) \in Outcome(buf)
  BY GroupBodyType, LoopType, OutcomesType
<1> QED
  BY <1>1 DEF GroupStep, GroupType

LEMMA ConsumeGroupDef ==
  ASSUME NEW buf \in Seq(Token)
  PROVE  /\ ConsumeGroup(buf) \in [Nat -> GroupType(buf)]
         /\ \A num \in Nat, end \in 0 .. Len(buf), at \in 0 .. Len(buf) :
                ConsumeGroup(buf)[0][num][end][at] = Fails("decode")
         /\ \A n \in Nat : ConsumeGroup(buf)[n + 1] = GroupStep(buf, ConsumeGroup(buf)[n])
<1> DEFINE L(group, num, end, at) == Loop(buf, GroupBody(buf, num, end, group), Begun(at, TRUE))
           E(f) == f = [open \in Nat |->
                     [num \in Nat |-> [end \in 0 .. Len(buf) |-> [at \in 0 .. Len(buf) |->
                        IF open = 0 THEN Fails("decode") ELSE L(f[open - 1], num, end, at)]]]]
           g == CHOOSE f : E(f)
           base == [num \in Nat |-> [end \in 0 .. Len(buf) |-> [at \in 0 .. Len(buf) |-> Fails("decode")]]]
           step == [group \in GroupType(buf) |-> GroupStep(buf, group)]
<1>1. base \in GroupType(buf) /\ step \in [GroupType(buf) -> GroupType(buf)]
  <2>1. Fails("decode") \in Outcome(buf)
    <3>1. 0 \in 0 .. Len(buf)
      OBVIOUS
    <3> QED BY <3>1, OutcomesType
  <2> QED
    BY <2>1, GroupStepType DEF GroupType
<1>2. PICK f : Follows(f, GroupType(buf), base, step)
  <2> HIDE DEF base, step
  <2> QED BY <1>1, Recursion
<1>3. E(f)
  <2>1. ASSUME NEW n \in Nat
        PROVE  f[n] = [num \in Nat |-> [end \in 0 .. Len(buf) |-> [at \in 0 .. Len(buf) |->
                          IF n = 0 THEN Fails("decode") ELSE L(f[n - 1], num, end, at)]]]
    <3>1. CASE n = 0
      BY <1>2, <3>1 DEF Follows
    <3>2. CASE n # 0
      <4>1. n - 1 \in Nat /\ (n - 1) + 1 = n
        BY <3>2
      <4>2. f[(n - 1) + 1] = step[f[n - 1]] /\ f[n - 1] \in GroupType(buf)
        BY <1>2, <4>1 DEF Follows
      <4>3. f[n] = GroupStep(buf, f[n - 1])
        BY <4>1, <4>2
      <4> QED
        BY <4>3, <3>2 DEF GroupStep
    <3> QED
      BY <3>1, <3>2
  <2>2. f = [n \in Nat |-> f[n]]
    BY <1>2 DEF Follows
  <2> HIDE DEF L
  <2> QED
    BY <2>1, <2>2
<1>4. E(g)
  BY <1>3
<1>5. ConsumeGroup(buf) = g
  BY DEF ConsumeGroup
<1> HIDE DEF g
<1>6. ASSUME NEW n \in Nat
      PROVE  g[n] = [num \in Nat |-> [end \in 0 .. Len(buf) |-> [at \in 0 .. Len(buf) |->
                          IF n = 0 THEN Fails("decode") ELSE L(g[n - 1], num, end, at)]]]
  <2> HIDE DEF L
  <2> QED BY <1>4
<1>7. g[0] = base
  <2>1. g[0] = [num \in Nat |-> [end \in 0 .. Len(buf) |-> [at \in 0 .. Len(buf) |->
                    IF 0 = 0 THEN Fails("decode") ELSE L(g[0 - 1], num, end, at)]]]
    <3> HIDE DEF L
    <3> QED BY <1>6
  <2> QED
    BY <2>1
<1>8. ASSUME NEW n \in Nat PROVE g[n + 1] = GroupStep(buf, g[n])
  <2>1. n + 1 \in Nat /\ n + 1 # 0 /\ (n + 1) - 1 = n
    OBVIOUS
  <2>2. g[n + 1] = [num \in Nat |-> [end \in 0 .. Len(buf) |-> [at \in 0 .. Len(buf) |->
                          IF n + 1 = 0 THEN Fails("decode") ELSE L(g[(n + 1) - 1], num, end, at)]]]
    <3> HIDE DEF L
    <3> QED BY <1>6, <2>1
  <2> QED
    BY <2>1, <2>2 DEF GroupStep
<1>9. \A n \in Nat : g[n] \in GroupType(buf)
  <2> DEFINE T == {k \in Nat : g[k] \in GroupType(buf)}
  <2> HIDE DEF base, step
  <2>1. 0 \in T
    BY <1>1, <1>7
  <2>2. ASSUME NEW k \in Nat, k \in T PROVE k + 1 \in T
    <3>1. g[k] \in GroupType(buf)
      BY <2>2
    <3>2. g[k + 1] \in GroupType(buf)
      BY <1>8, <3>1, GroupStepType
    <3> QED
      BY <3>2
  <2>3. Nat \subseteq T
    <3> HIDE DEF T
    <3> QED BY <2>1, <2>2, InductiveSet
  <2> QED
    BY <2>3
<1>10. g \in [Nat -> GroupType(buf)]
  <2>1. DOMAIN g = Nat /\ g = [n \in Nat |-> g[n]]
    <3> HIDE DEF L
    <3> QED BY <1>4
  <2> QED
    BY <1>9, <2>1
<1>11. \A num \in Nat, end \in 0 .. Len(buf), at \in 0 .. Len(buf) : g[0][num][end][at] = Fails("decode")
  BY <1>7
<1> QED
  BY <1>5, <1>8, <1>10, <1>11

(* What the assumptions on the message types say of a field. *)
Proper(f) ==
  f \in FieldInfo /\ (f.typ = "map" => f.mi # Nil) /\ (~f.resolves => f.typ = "other")

LEMMA FieldOfType ==
  ASSUME NEW mt \in DOMAIN Schema, NEW num \in Nat
  PROVE  Proper(FieldOf(mt, num))
<1>1. Proper(NoField)
  BY DEF Proper, NoField, Optional, FieldInfo, FieldTypes
<1>2. num \in DOMAIN Schema[mt] => Proper(Schema[mt][num])
  BY SchemaAssumption DEF Proper
<1> QED
  BY <1>1, <1>2 DEF FieldOf

LEMMA EntryFieldType ==
  ASSUME NEW mi \in DOMAIN Schema, NEW num \in Nat
  PROVE  /\ Proper(EntryField(mi, num)) /\ EntryField(mi, num).resolves
         /\ num = 1 => EntryField(mi, num).typ = "text" /\ EntryField(mi, num).mi = Nil
         /\ num = 2 => EntryField(mi, num).typ = "message" /\ EntryField(mi, num).mi = mi
         /\ num # 1 /\ num # 2 => EntryField(mi, num).typ = "other" /\ EntryField(mi, num).mi = Nil
<1>1. CASE num = 1
  <2>1. EntryField(mi, num) = [typ |-> "text", mi |-> Nil, required |-> FALSE, later |-> FALSE, resolves |-> TRUE]
    BY <1>1 DEF EntryField, NoField, Optional
  <2>2. Proper(EntryField(mi, num))
    BY <2>1 DEF Proper, FieldInfo, FieldTypes
  <2> QED
    BY <1>1, <2>1, <2>2
<1>2. CASE num = 2
  <2>1. EntryField(mi, num) = [typ |-> "message", mi |-> mi, required |-> FALSE, later |-> FALSE, resolves |-> TRUE]
    BY <1>2 DEF EntryField, NoField, Optional
  <2>2. Proper(EntryField(mi, num))
    BY <2>1 DEF Proper, FieldInfo, FieldTypes
  <2> QED
    BY <1>2, <2>1, <2>2
<1>3. CASE num # 1 /\ num # 2
  <2>1. EntryField(mi, num) = [typ |-> "other", mi |-> Nil, required |-> FALSE, later |-> FALSE, resolves |-> TRUE]
    BY <1>3 DEF EntryField, NoField, Optional
  <2> QED
    BY <1>3, <2>1 DEF Proper, FieldInfo, FieldTypes
<1> QED
  BY <1>1, <1>2, <1>3

LEMMA RequiredFinite ==
  ASSUME NEW mt \in DOMAIN Schema
  PROVE  /\ IsFiniteSet(Required(mt)) /\ Required(mt) \subseteq Nat
         /\ \A S \in SUBSET Required(mt) : IsFiniteSet(S) /\ Cardinality(S) \in Nat
         /\ numRequiredFields(mt) \in Nat
<1>1. Required(mt) \subseteq DOMAIN Schema[mt] /\ IsFiniteSet(DOMAIN Schema[mt]) /\ DOMAIN Schema[mt] \subseteq Nat
  BY SchemaAssumption DEF Required
<1>2. \A S \in SUBSET Required(mt) : IsFiniteSet(S) /\ Cardinality(S) \in Nat
  BY <1>1, FS_Subset, FS_CardinalityType
<1> QED
  BY <1>1, <1>2 DEF numRequiredFields

LEMMA requiredBitType ==
  ASSUME NEW mt \in DOMAIN Schema, NEW num \in Nat
  PROVE  requiredBit(mt, num) \in SUBSET (0 .. MaskBits - 1)
<1> DEFINE n == Cardinality({m \in Required(mt) : m < num})
<1>1. n \in Nat
  BY RequiredFinite
<1>2. MaskBits \in Nat
  BY ValidateAssumption
<1>3. requiredBit(mt, num) = IF num \in Required(mt) /\ n < MaskBits THEN {n} ELSE {}
  BY DEF requiredBit
<1> HIDE DEF n
<1>4. CASE num \in Required(mt) /\ n < MaskBits
  <2>1. n \in 0 .. MaskBits - 1
    BY <1>1, <1>2, <1>4
  <2> QED
    BY <1>3, <1>4, <2>1
<1>5. CASE ~(num \in Required(mt) /\ n < MaskBits)
  BY <1>3, <1>5
<1> QED
  BY <1>4, <1>5

LEMMA FieldEndType ==
  ASSUME NEW buf \in Seq(Token), NEW tok \in Token, NEW at \in 0 .. Len(buf), NEW end \in 0 .. Len(buf)
  PROVE  FieldEnd(buf, tok, at, end) \in (0 .. Len(buf)) \cup {-1}
<1>1. DefaultRecursionLimit + 1 \in Nat
  BY ValidateAssumption
<1>2. ConsumeGroup(buf)[DefaultRecursionLimit + 1] \in GroupType(buf)
  BY <1>1, ConsumeGroupDef
<1> QED
  BY <1>2, ConsumeFieldValueType DEF FieldEnd

(* The variables of a loop that has moved on to m. *)
LEMMA Moved ==
  ASSUME NEW buf \in Seq(Token), NEW s \in Outcome(buf), NEW m \in 0 .. Len(buf)
  PROVE  /\ [s EXCEPT !.n = m] \in Outcome(buf)
         /\ [s EXCEPT !.n = m].n = m /\ [s EXCEPT !.n = m].err = s.err
         /\ [s EXCEPT !.n = m].initialized = s.initialized /\ [s EXCEPT !.n = m].mask = s.mask
BY DEF Outcome

LEMMA ValueType ==
  ASSUME NEW buf \in Seq(Token), NEW f, Proper(f), NEW tok \in Token,
         NEW at \in 0 .. Len(buf), NEW end \in 0 .. Len(buf),
         NEW entry, f.typ = "map" => entry \in EntryType(buf), NEW sub \in SubType(buf)
  PROVE  Value(buf, f, tok, at, end, entry, sub) \in Outcome(buf)
<1> DEFINE stop == at + tok.size
           whole(r) == IF r.err = "none" THEN Done(stop, r.initialized) ELSE r
<1>0. tok.size \in Nat /\ tok.num \in Nat /\ tok.wtyp \in WireTypes /\ tok.utf8 \in BOOLEAN /\ stop \in Nat
  BY DEF Token
<1>1. f.mi # Nil => f.mi \in DOMAIN Schema
  BY DEF Proper, FieldInfo
<1>2. f.typ \in FieldTypes
  BY DEF Proper, FieldInfo
<1>3. Fails("decode") \in Outcome(buf) /\ Fails("errUnknown") \in Outcome(buf) /\ Done(at, TRUE) \in Outcome(buf)
  BY OutcomesType
<1>4. stop <= end => stop \in 0 .. Len(buf)
  BY <1>0
<1>5. ASSUME NEW r \in Outcome(buf), stop <= end PROVE whole(r) \in Outcome(buf)
  <2>1. r.initialized \in BOOLEAN
    BY DEF Outcome
  <2>2. Done(stop, r.initialized) \in Outcome(buf)
    BY <1>4, <1>5, <2>1, OutcomesType
  <2> QED
    BY <2>2
<1>6. stop <= end => Done(stop, TRUE) \in Outcome(buf)
  BY <1>4, OutcomesType
<1>7. FieldEnd(buf, tok, at, end) >= 0 => Done(FieldEnd(buf, tok, at, end), TRUE) \in Outcome(buf)
  <2>1. PICK m : m = FieldEnd(buf, tok, at, end)
    OBVIOUS
  <2>2. m \in (0 .. Len(buf)) \cup {-1}
    BY <2>1, FieldEndType
  <2>3. m \in 0 .. Len(buf) => Done(m, TRUE) \in Outcome(buf)
    BY OutcomesType
  <2>4. m = -1 \/ m \in 0 .. Len(buf)
    BY <2>2
  <2>5. m >= 0 => m \in 0 .. Len(buf)
    BY <2>4
  <2> QED
    BY <2>1, <2>3, <2>5, Zenon
<1>8. f.mi # Nil => sub[f.mi][tok.num][end][at] \in Outcome(buf)
  <2> SUFFICES ASSUME f.mi # Nil PROVE sub[f.mi][tok.num][end][at] \in Outcome(buf)
    OBVIOUS
  <2>1. sub[f.mi] \in [Nat -> [0 .. Len(buf) -> [0 .. Len(buf) -> Outcome(buf)]]]
    BY <1>1 DEF SubType
  <2>2. sub[f.mi][tok.num] \in [0 .. Len(buf) -> [0 .. Len(buf) -> Outcome(buf)]]
    BY <2>1, <1>0
  <2> QED
    BY <2>2
<1>9. f.mi # Nil /\ stop <= end => sub[f.mi][0][stop][at] \in Outcome(buf)
  <2> SUFFICES ASSUME f.mi # Nil, stop <= end PROVE sub[f.mi][0][stop][at] \in Outcome(buf)
    OBVIOUS
  <2>1. sub[f.mi] \in [Nat -> [0 .. Len(buf) -> [0 .. Len(buf) -> Outcome(buf)]]]
    BY <1>1 DEF SubType
  <2>2. sub[f.mi][0] \in [0 .. Len(buf) -> [0 .. Len(buf) -> Outcome(buf)]]
    BY <2>1
  <2> QED
    BY <2>2, <1>4
<1>10. f.typ = "map" /\ f.mi # Nil /\ stop <= end => entry[f.mi][stop][at] \in Outcome(buf)
  <2> SUFFICES ASSUME f.typ = "map", f.mi # Nil, stop <= end PROVE entry[f.mi][stop][at] \in Outcome(buf)
    OBVIOUS
  <2>1. entry[f.mi] \in [0 .. Len(buf) -> [0 .. Len(buf) -> Outcome(buf)]]
    BY <1>1 DEF EntryType
  <2> QED
    BY <2>1, <1>4
<1>11. Value(buf, f, tok, at, end, entry, sub) =
          IF ~f.resolves THEN Fails("decode")
          ELSE IF tok.wtyp \notin Expects(f.typ) THEN Fails("errUnknown")
          ELSE IF tok.wtyp = "bytes" /\ stop > end THEN Fails("decode")
          ELSE IF f.typ = "varint" THEN Done(at, TRUE)
          ELSE IF f.typ = "text" THEN IF tok.utf8 THEN Done(stop, TRUE) ELSE Fails("decode")
          ELSE IF f.mi = Nil THEN IF FieldEnd(buf, tok, at, end) < 0 THEN Fails("decode")
                                  ELSE Done(FieldEnd(buf, tok, at, end), TRUE)
          ELSE IF f.typ = "group" THEN sub[f.mi][tok.num][end][at]
          ELSE IF f.typ = "map" THEN whole(entry[f.mi][stop][at])
          ELSE whole(sub[f.mi][0][stop][at])
  BY DEF Value
<1>12. f.typ \in {"text", "message", "map"} /\ tok.wtyp \in Expects(f.typ) => tok.wtyp = "bytes"
  BY <1>2 DEF Expects
<1>13. f.typ = "other" => Expects(f.typ) = {}
  BY DEF Expects
<1>14. FieldEnd(buf, tok, at, end) \in Int
  BY FieldEndType
<1>15. end \in Int /\ (f.typ = "map" => f.mi # Nil)
  BY DEF Proper
<1> HIDE DEF whole, stop
<1>16. CASE ~f.resolves \/ tok.wtyp \notin Expects(f.typ) \/ (tok.wtyp = "bytes" /\ stop > end)
  BY <1>16, <1>11, <1>3
<1>17. CASE f.resolves /\ tok.wtyp \in Expects(f.typ) /\ ~(tok.wtyp = "bytes" /\ stop > end)
  <2>0. f.typ # "other" /\ (f.typ \in {"text", "message", "map"} => stop <= end)
    BY <1>17, <1>12, <1>13, <1>0, <1>15
  <2>1. CASE f.typ = "varint"
    BY <2>1, <1>17, <1>11, <1>3
  <2>2. CASE f.typ = "text"
    BY <2>0, <2>2, <1>17, <1>11, <1>3, <1>6
  <2>3. CASE f.typ \in {"message", "group", "map"} /\ f.mi = Nil
    <3>1. Value(buf, f, tok, at, end, entry, sub) =
              IF FieldEnd(buf, tok, at, end) < 0 THEN Fails("decode") ELSE Done(FieldEnd(buf, tok, at, end), TRUE)
      BY <2>3, <1>17, <1>11
    <3>2. FieldEnd(buf, tok, at, end) < 0 \/ FieldEnd(buf, tok, at, end) >= 0
      BY <1>14
    <3> QED
      BY <3>1, <3>2, <1>3, <1>7, Zenon
  <2>4. CASE f.typ = "group" /\ f.mi # Nil
    BY <2>4, <1>17, <1>11, <1>8
  <2>5. CASE f.typ = "map" /\ f.mi # Nil
    BY <2>0, <2>5, <1>17, <1>11, <1>10, <1>5
  <2>6. CASE f.typ = "message" /\ f.mi # Nil
    BY <2>0, <2>6, <1>17, <1>11, <1>9, <1>5
  <2> QED
    BY <2>0, <2>1, <2>2, <2>3, <2>4, <2>5, <2>6, <1>2 DEF FieldTypes
<1> QED
  BY <1>16, <1>17

LEMMA EntryBodyType ==
  ASSUME NEW buf \in Seq(Token), NEW mi \in DOMAIN Schema, NEW end \in 0 .. Len(buf), NEW sub \in SubType(buf)
  PROVE  EntryBody(buf, mi, end, sub) \in [Outcome(buf) -> Outcome(buf)]
<1>1. ASSUME NEW s \in Outcome(buf) PROVE EntryBody(buf, mi, end, sub)[s] \in Outcome(buf)
  <2> DEFINE tok == buf[s.n + 1]
             v == Value(buf, EntryField(mi, tok.num), tok, s.n + 1, end, <<>>, sub)
             m == FieldEnd(buf, tok, s.n + 1, end)
  <2>1. EntryBody(buf, mi, end, sub)[s] =
            IF s.err # "run" THEN s
            ELSE IF s.n >= end THEN Done(s.n, s.initialized)
            ELSE IF v.err = "none"
                 THEN Begun(v.n, s.initialized \/ (tok.num = 2 /\ v.initialized))
            ELSE IF v.err # "errUnknown" THEN v
            ELSE IF m < 0 THEN Fails("decode") ELSE [s EXCEPT !.n = m]
    BY DEF EntryBody
  <2>2. s.n \in 0 .. Len(buf) /\ s.initialized \in BOOLEAN
    BY DEF Outcome
  <2>3. CASE s.err # "run" \/ s.n >= end
    BY <2>1, <2>2, <2>3, OutcomesType
  <2>4. CASE s.err = "run" /\ s.n < end
    <3>1. s.n + 1 \in 0 .. Len(buf) /\ tok \in Token
      BY <2>2, <2>4
    <3>2. tok.num \in Nat
      BY <3>1 DEF Token
    <3>3. Proper(EntryField(mi, tok.num)) /\ EntryField(mi, tok.num).typ # "map"
      BY <3>2, EntryFieldType
    <3>4. v \in Outcome(buf)
      BY <3>1, <3>3, ValueType
    <3>5. m \in (0 .. Len(buf)) \cup {-1}
      BY <3>1, FieldEndType
    <3> HIDE DEF m, v, tok
    <3>6. m < 0 \/ (m \in 0 .. Len(buf) /\ ~(m < 0))
      BY <3>5
    <3>7. v.n \in 0 .. Len(buf) /\ (s.initialized \/ (tok.num = 2 /\ v.initialized)) \in BOOLEAN
      BY <3>4 DEF Outcome
    <3>8. Fails("decode") \in Outcome(buf) /\ Begun(v.n, s.initialized \/ (tok.num = 2 /\ v.initialized)) \in Outcome(buf)
      BY <3>7, OutcomesType
    <3>9. m \in 0 .. Len(buf) => [s EXCEPT !.n = m] \in Outcome(buf)
      BY Moved
    <3>10. ~(s.n >= end)
      BY <2>2, <2>4
    <3> QED
      BY <2>1, <2>4, <3>4, <3>6, <3>8, <3>9, <3>10, Zenon
  <2> QED
    BY <2>2, <2>3, <2>4
<1> QED
  BY <1>1 DEF EntryBody

LEMMA EntryDef ==
  ASSUME NEW buf \in Seq(Token), NEW sub \in SubType(buf)
  PROVE  /\ Entry(buf, sub) \in EntryType(buf)
         /\ \A mi \in DOMAIN Schema, end \in 0 .. Len(buf), at \in 0 .. Len(buf) :
               Entry(buf, sub)[mi][end][at] = Loop(buf, EntryBody(buf, mi, end, sub), Begun(at, FALSE))
<1>1. ASSUME NEW mi \in DOMAIN Schema, NEW end \in 0 .. Len(buf), NEW at \in 0 .. Len(buf)
      PROVE  Loop(buf, EntryBody(buf, mi, end, sub), Begun(at, FALSE)) \in Outcome(buf)
  BY EntryBodyType, LoopType, OutcomesType
<1> QED
  BY <1>1 DEF Entry, EntryType

LEMMA MessageBodyType ==
  ASSUME NEW buf \in Seq(Token), NEW mt \in DOMAIN Schema, NEW tag \in Nat, NEW end \in 0 .. Len(buf),
         NEW sub \in SubType(buf)
  PROVE  MessageBody(buf, mt, tag, end, sub) \in [Outcome(buf) -> Outcome(buf)]
<1>1. ASSUME NEW s \in Outcome(buf) PROVE MessageBody(buf, mt, tag, end, sub)[s] \in Outcome(buf)
  <2> DEFINE tok == buf[s.n + 1]
             f == FieldOf(mt, tok.num)
             v == Value(buf, f, tok, s.n + 1, end, Entry(buf, sub), sub)
             m == FieldEnd(buf, tok, s.n + 1, end)
             ok == s.initialized /\ AllSeen(s.mask, numRequiredFields(mt))
             next == [err |-> "run", n |-> v.n,
                      initialized |-> s.initialized /\ (v.initialized \/ ~HasInit(f)),
                      mask |-> s.mask \cup requiredBit(mt, tok.num)]
  <2>1. MessageBody(buf, mt, tag, end, sub)[s] =
            IF s.err # "run" THEN s
            ELSE IF s.n >= end THEN IF tag = 0 THEN Done(s.n, ok) ELSE Fails("decode")
            ELSE IF tok.wtyp = "end"
                 THEN IF tok.num = tag THEN Done(s.n + 1, ok) ELSE Fails("decode")
            ELSE IF v.err = "none" THEN next
            ELSE IF v.err # "errUnknown" THEN v
            ELSE IF m < 0 THEN Fails("decode") ELSE [s EXCEPT !.n = m]
    BY DEF MessageBody
  <2>2. s.n \in 0 .. Len(buf) /\ s.initialized \in BOOLEAN /\ s.mask \in SUBSET (0 .. MaskBits - 1) /\ ok \in BOOLEAN
    BY DEF Outcome
  <2>3. CASE s.err # "run" \/ s.n >= end
    <3> HIDE DEF ok
    <3>1. Fails("decode") \in Outcome(buf) /\ Done(s.n, ok) \in Outcome(buf)
      BY <2>2, OutcomesType
    <3> QED
      BY <2>1, <2>3, <3>1, Zenon
  <2>4. CASE s.err = "run" /\ s.n < end
    <3>1. s.n + 1 \in 0 .. Len(buf) /\ tok \in Token
      BY <2>2, <2>4
    <3>2. tok.num \in Nat
      BY <3>1 DEF Token
    <3>3. Proper(f)
      BY <3>2, FieldOfType
    <3>4. v \in Outcome(buf)
      BY <3>1, <3>3, ValueType, EntryDef
    <3>5. m \in (0 .. Len(buf)) \cup {-1}
      BY <3>1, FieldEndType
    <3>11. requiredBit(mt, tok.num) \in SUBSET (0 .. MaskBits - 1)
      BY <3>2, requiredBitType
    <3> HIDE DEF m, v, tok, ok
    <3>6. m < 0 \/ (m \in 0 .. Len(buf) /\ ~(m < 0))
      BY <3>5
    <3>7. v.n \in 0 .. Len(buf)
      BY <3>4 DEF Outcome
    <3>8. Fails("decode") \in Outcome(buf) /\ Done(s.n + 1, ok) \in Outcome(buf)
      BY <2>2, <3>1, OutcomesType
    <3>9. m \in 0 .. Len(buf) => [s EXCEPT !.n = m] \in Outcome(buf)
      BY Moved
    <3>10. ~(s.n >= end)
      BY <2>2, <2>4
    <3>12. next \in Outcome(buf)
      <4>1. (s.mask \cup requiredBit(mt, tok.num)) \in SUBSET (0 .. MaskBits - 1)
        BY <3>11, <2>2
      <4>2. (s.initialized /\ (v.initialized \/ ~HasInit(f))) \in BOOLEAN
        OBVIOUS
      <4> QED
        BY <3>7, <4>1, <4>2 DEF Outcome
    <3> HIDE DEF next
    <3> QED
      BY <2>1, <2>4, <3>4, <3>6, <3>8, <3>9, <3>10, <3>12, Zenon
  <2> QED
    BY <2>2, <2>3, <2>4
<1> QED
  BY <1>1 DEF MessageBody

(* What one level of messages makes of the levels below it. *)
SubStep(buf, sub) ==
  [mt \in DOMAIN Schema |-> [tag \in Nat |-> [end \in 0 .. Len(buf) |-> [at \in 0 .. Len(buf) |->
      Loop(buf, MessageBody(buf, mt, tag, end, sub), Begun(at, TRUE))]]]]

LEMMA SubStepType ==
  ASSUME NEW buf \in Seq(Token), NEW sub \in SubType(buf)
  PROVE  SubStep(buf, sub) \in SubType(buf)
<1>1. ASSUME NEW mt \in DOMAIN Schema, NEW tag \in Nat, NEW end \in 0 .. Len(buf), NEW at \in 0 .. Len(buf)
      PROVE  Loop(buf, MessageBody(buf, mt, tag, end, sub), Begun(at, TRUE)) \in Outcome(buf)
  BY MessageBodyType, LoopType, OutcomesType
<1> QED
  BY <1>1 DEF SubStep, SubType

LEMMA UnmarshalDef ==
  ASSUME NEW buf \in Seq(Token)
  PROVE  /\ Unmarshal(buf) \in [Nat -> SubType(buf)]
         /\ \A mt \in DOMAIN Schema, tag \in Nat, end \in 0 .. Len(buf), at \in 0 .. Len(buf) :
                Unmarshal(buf)[0][mt][tag][end][at] = Fails("depth")
         /\ \A n \in Nat : Unmarshal(buf)[n + 1] = SubStep(buf, Unmarshal(buf)[n])
<1> DEFINE L(sub, mt, tag, end, at) == Loop(buf, MessageBody(buf, mt, tag, end, sub), Begun(at, TRUE))
           E(f) == f = [depth \in Nat |->
                     [mt \in DOMAIN Schema |-> [tag \in Nat |-> [end \in 0 .. Len(buf) |-> [at \in 0 .. Len(buf) |->
                        IF depth = 0 THEN Fails("depth") ELSE L(f[depth - 1], mt, tag, end, at)]]]]]
           g == CHOOSE f : E(f)
           base == [mt \in DOMAIN Schema |-> [tag \in Nat |-> [end \in 0 .. Len(buf) |-> [at \in 0 .. Len(buf) |-> Fails("depth")]]]]
           step == [sub \in SubType(buf) |-> SubStep(buf, sub)]
<1>1. base \in SubType(buf) /\ step \in [SubType(buf) -> SubType(buf)]
  <2>1. Fails("depth") \in Outcome(buf)
    <3>1. 0 \in 0 .. Len(buf)
      OBVIOUS
    <3> QED BY <3>1, OutcomesType
  <2> QED
    BY <2>1, SubStepType DEF SubType
<1>2. PICK f : Follows(f, SubType(buf), base, step)
  <2> HIDE DEF base, step
  <2> QED BY <1>1, Recursion
<1>3. E(f)
  <2>1. ASSUME NEW n \in Nat
        PROVE  f[n] = [mt \in DOMAIN Schema |-> [tag \in Nat |-> [end \in 0 .. Len(buf) |-> [at \in 0 .. Len(buf) |->
                          IF n = 0 THEN Fails("depth") ELSE L(f[n - 1], mt, tag, end, at)]]]]
    <3>1. CASE n = 0
      BY <1>2, <3>1 DEF Follows
    <3>2. CASE n # 0
      <4>1. n - 1 \in Nat /\ (n - 1) + 1 = n
        BY <3>2
      <4>2. f[(n - 1) + 1] = step[f[n - 1]] /\ f[n - 1] \in SubType(buf)
        BY <1>2, <4>1 DEF Follows
      <4>3. f[n] = SubStep(buf, f[n - 1])
        BY <4>1, <4>2
      <4> QED
        BY <4>3, <3>2 DEF SubStep
    <3> QED
      BY <3>1, <3>2
  <2>2. f = [n \in Nat |-> f[n]]
    BY <1>2 DEF Follows
  <2> HIDE DEF L
  <2> QED
    BY <2>1, <2>2
<1>4. E(g)
  BY <1>3
<1>5. Unmarshal(buf) = g
  BY DEF Unmarshal
<1> HIDE DEF g
<1>6. ASSUME NEW n \in Nat
      PROVE  g[n] = [mt \in DOMAIN Schema |-> [tag \in Nat |-> [end \in 0 .. Len(buf) |-> [at \in 0 .. Len(buf) |->
                          IF n = 0 THEN Fails("depth") ELSE L(g[n - 1], mt, tag, end, at)]]]]
  <2> HIDE DEF L
  <2> QED BY <1>4
<1>7. g[0] = base
  <2>1. g[0] = [mt \in DOMAIN Schema |-> [tag \in Nat |-> [end \in 0 .. Len(buf) |-> [at \in 0 .. Len(buf) |->
                    IF 0 = 0 THEN Fails("depth") ELSE L(g[0 - 1], mt, tag, end, at)]]]]
    <3> HIDE DEF L
    <3> QED BY <1>6
  <2> QED
    BY <2>1
<1>8. ASSUME NEW n \in Nat PROVE g[n + 1] = SubStep(buf, g[n])
  <2>1. n + 1 \in Nat /\ n + 1 # 0 /\ (n + 1) - 1 = n
    OBVIOUS
  <2>2. g[n + 1] = [mt \in DOMAIN Schema |-> [tag \in Nat |-> [end \in 0 .. Len(buf) |-> [at \in 0 .. Len(buf) |->
                          IF n + 1 = 0 THEN Fails("depth") ELSE L(g[(n + 1) - 1], mt, tag, end, at)]]]]
    <3> HIDE DEF L
    <3> QED BY <1>6, <2>1
  <2> QED
    BY <2>1, <2>2 DEF SubStep
<1>9. \A n \in Nat : g[n] \in SubType(buf)
  <2> DEFINE T == {k \in Nat : g[k] \in SubType(buf)}
  <2> HIDE DEF base, step
  <2>1. 0 \in T
    BY <1>1, <1>7
  <2>2. ASSUME NEW k \in Nat, k \in T PROVE k + 1 \in T
    <3>1. g[k] \in SubType(buf)
      BY <2>2
    <3>2. g[k + 1] \in SubType(buf)
      BY <1>8, <3>1, SubStepType
    <3> QED
      BY <3>2
  <2>3. Nat \subseteq T
    <3> HIDE DEF T
    <3> QED BY <2>1, <2>2, InductiveSet
  <2> QED
    BY <2>3
<1>10. g \in [Nat -> SubType(buf)]
  <2>1. DOMAIN g = Nat /\ g = [n \in Nat |-> g[n]]
    <3> HIDE DEF L
    <3> QED BY <1>4
  <2> QED
    BY <1>9, <2>1
<1>11. \A mt \in DOMAIN Schema, tag \in Nat, end \in 0 .. Len(buf), at \in 0 .. Len(buf) :
          g[0][mt][tag][end][at] = Fails("depth")
  BY <1>7
<1> QED
  BY <1>5, <1>8, <1>10, <1>11

-----------------------------------------------------------------------------
(* The loop that decodes what a state of the stack stands for. *)

FrameBody(buf, x, sub) ==
  IF x.typ = "map" THEN EntryBody(buf, x.mi, x.slice[2], sub)
  ELSE MessageBody(buf, x.mi, x.endGroup, x.slice[2], sub)

FrameFirst(x) == Begun(x.slice[1], x.typ # "map")

FrameLoop(buf, x, sub) == Loop(buf, FrameBody(buf, x, sub), FrameFirst(x))

FrameValue(buf, x, tok, at, sub) ==
  Value(buf, FieldIn(x, tok.num), tok, at, x.slice[2], Entry(buf, sub), sub)

FrameOK(buf, x) ==
  /\ x \in validationState /\ (x.typ = "group" <=> x.endGroup # 0)
  /\ x.slice[1] \in 0 .. Len(buf) /\ x.slice[2] \in 0 .. Len(buf)

LEMMA FieldInType ==
  ASSUME NEW x \in validationState, NEW num \in Nat
  PROVE  /\ Proper(FieldIn(x, num))
         /\ FieldIn(x, num).typ \in FieldTypes
         /\ FieldIn(x, num).mi # Nil => FieldIn(x, num).mi \in DOMAIN Schema
         /\ x.typ = "map" => FieldIn(x, num).typ # "map" /\ FieldIn(x, num).resolves
<1>1. x.mi \in DOMAIN Schema
  BY DEF validationState
<1>2. Proper(FieldIn(x, num)) /\ (x.typ = "map" => FieldIn(x, num).typ # "map" /\ FieldIn(x, num).resolves)
  <2>1. CASE x.typ = "map"
    <3>1. EntryField(x.mi, num).typ # "map"
      BY <1>1, EntryFieldType
    <3> QED BY <1>1, <2>1, <3>1, EntryFieldType DEF FieldIn
  <2>2. CASE x.typ # "map"
    BY <1>1, <2>2, FieldOfType DEF FieldIn
  <2> QED BY <2>1, <2>2
<1> QED
  BY <1>2 DEF Proper, FieldInfo

LEMMA FrameBodyType ==
  ASSUME NEW buf \in Seq(Token), NEW x, FrameOK(buf, x), NEW sub \in SubType(buf)
  PROVE  /\ FrameBody(buf, x, sub) \in [Outcome(buf) -> Outcome(buf)]
         /\ FrameFirst(x) \in Outcome(buf) /\ FrameFirst(x).n = x.slice[1] /\ FrameFirst(x).err = "run"
         /\ FrameFirst(x).mask = {} /\ (FrameFirst(x).initialized <=> x.typ # "map")
         /\ FrameLoop(buf, x, sub) \in Outcome(buf)
<1>1. x.mi \in DOMAIN Schema /\ x.endGroup \in Nat
  BY DEF FrameOK, validationState
<1>2. FrameBody(buf, x, sub) \in [Outcome(buf) -> Outcome(buf)]
  BY <1>1, EntryBodyType, MessageBodyType DEF FrameBody, FrameOK
<1>3. FrameFirst(x) \in Outcome(buf)
  BY OutcomesType DEF FrameFirst, FrameOK
<1>4. FrameLoop(buf, x, sub) \in Outcome(buf)
  BY <1>2, <1>3, LoopType DEF FrameLoop
<1> QED
  BY <1>2, <1>3, <1>4 DEF FrameFirst, Begun

LEMMA FrameTok ==
  ASSUME NEW buf \in Seq(Token), NEW x, FrameOK(buf, x), NEW sub \in SubType(buf),
         NEW s \in Outcome(buf), s.n < x.slice[2]
  PROVE  /\ s.n \in Nat /\ s.n + 1 \in 1 .. Len(buf) /\ buf[s.n + 1] \in Token
         /\ buf[s.n + 1].num \in Nat \ {0} /\ buf[s.n + 1].size \in Nat /\ buf[s.n + 1].wtyp \in WireTypes
         /\ Proper(FieldIn(x, buf[s.n + 1].num))
         /\ FrameValue(buf, x, buf[s.n + 1], s.n + 1, sub) \in Outcome(buf)
         /\ FieldEnd(buf, buf[s.n + 1], s.n + 1, x.slice[2]) \in (0 .. Len(buf)) \cup {-1}
<1>1. x.slice[2] \in 0 .. Len(buf) /\ x \in validationState
  BY DEF FrameOK
<1>2. s.n \in 0 .. Len(buf)
  BY DEF Outcome
<1>3. s.n + 1 \in 1 .. Len(buf) /\ s.n + 1 \in 0 .. Len(buf)
  BY <1>1, <1>2
<1>4. buf[s.n + 1] \in Token
  BY <1>3
<1>5. buf[s.n + 1].num \in Nat \ {0} /\ buf[s.n + 1].size \in Nat /\ buf[s.n + 1].wtyp \in WireTypes
  BY <1>4 DEF Token
<1>6. Proper(FieldIn(x, buf[s.n + 1].num))
  BY <1>1, <1>5, FieldInType
<1>7. FrameValue(buf, x, buf[s.n + 1], s.n + 1, sub) \in Outcome(buf)
  BY <1>1, <1>3, <1>4, <1>6, ValueType, EntryDef DEF FrameValue
<1> QED
  BY <1>1, <1>2, <1>3, <1>4, <1>5, <1>6, <1>7, FieldEndType

LEMMA FrameFix ==
  ASSUME NEW buf \in Seq(Token), NEW x, NEW sub, NEW t \in Outcome(buf), t.err # "run"
  PROVE  FrameBody(buf, x, sub)[t] = t
<1>1. EntryBody(buf, x.mi, x.slice[2], sub)[t] = t
  BY DEF EntryBody
<1>2. MessageBody(buf, x.mi, x.endGroup, x.slice[2], sub)[t] = t
  BY DEF MessageBody
<1> QED
  BY <1>1, <1>2 DEF FrameBody

LEMMA EntryUnfold ==
  ASSUME NEW buf \in Seq(Token), NEW x, FrameOK(buf, x), x.typ = "map", NEW sub \in SubType(buf),
         NEW s \in Outcome(buf), s.err = "run", s.n < x.slice[2],
         NEW tok, tok = buf[s.n + 1],
         NEW v, v = FrameValue(buf, x, tok, s.n + 1, sub),
         NEW m, m = FieldEnd(buf, tok, s.n + 1, x.slice[2])
  PROVE  FrameBody(buf, x, sub)[s] =
            IF v.err = "none" THEN Begun(v.n, s.initialized \/ (tok.num = 2 /\ v.initialized))
            ELSE IF v.err # "errUnknown" THEN v
            ELSE IF m < 0 THEN Fails("decode") ELSE [s EXCEPT !.n = m]
<1>1. tok.num \in Nat /\ x.mi \in DOMAIN Schema
  BY FrameTok DEF FrameOK, validationState
<1>2. EntryField(x.mi, tok.num).typ # "map"
  BY <1>1, EntryFieldType
<1>3. v = Value(buf, EntryField(x.mi, tok.num), tok, s.n + 1, x.slice[2], <<>>, sub)
  <2>1. v = Value(buf, EntryField(x.mi, tok.num), tok, s.n + 1, x.slice[2], Entry(buf, sub), sub)
    BY DEF FrameValue, FieldIn
  <2> QED
    BY <2>1, <1>2 DEF Value
<1>4. ~(s.n >= x.slice[2])
  BY DEF FrameOK, Outcome
<1>5. EntryBody(buf, x.mi, x.slice[2], sub)[s] =
        (LET tk == buf[s.n + 1]
             w == Value(buf, EntryField(x.mi, tk.num), tk, s.n + 1, x.slice[2], <<>>, sub)
             k == FieldEnd(buf, tk, s.n + 1, x.slice[2])
         IN  IF s.err # "run" THEN s
             ELSE IF s.n >= x.slice[2] THEN Done(s.n, s.initialized)
             ELSE IF w.err = "none" THEN Begun(w.n, s.initialized \/ (tk.num = 2 /\ w.initialized))
             ELSE IF w.err # "errUnknown" THEN w
             ELSE IF k < 0 THEN Fails("decode") ELSE [s EXCEPT !.n = k])
  BY DEF EntryBody
<1> QED
  BY <1>3, <1>4, <1>5, Zenon DEF FrameBody

(* How the loop of a message goes on after a value, v, or past it to m. *)
FrameMoves(x, s, tok, v, m) ==
  IF v.err = "none"
  THEN [err |-> "run", n |-> v.n,
        initialized |-> s.initialized /\ (v.initialized \/ ~HasInit(FieldIn(x, tok.num))),
        mask |-> s.mask \cup requiredBit(x.mi, tok.num)]
  ELSE IF v.err # "errUnknown" THEN v
  ELSE IF m < 0 THEN Fails("decode") ELSE [s EXCEPT !.n = m]

LEMMA MessageUnfold ==
  ASSUME NEW buf \in Seq(Token), NEW x, FrameOK(buf, x), x.typ # "map", NEW sub \in SubType(buf),
         NEW s \in Outcome(buf), s.err = "run", s.n < x.slice[2],
         NEW tok, tok = buf[s.n + 1],
         NEW v, v = FrameValue(buf, x, tok, s.n + 1, sub),
         NEW m, m = FieldEnd(buf, tok, s.n + 1, x.slice[2])
  PROVE  FrameBody(buf, x, sub)[s] =
            IF tok.wtyp = "end"
            THEN IF tok.num = x.endGroup
                 THEN Done(s.n + 1, s.initialized /\ AllSeen(s.mask, numRequiredFields(x.mi)))
                 ELSE Fails("decode")
            ELSE FrameMoves(x, s, tok, v, m)
<1>1. FieldIn(x, tok.num) = FieldOf(x.mi, tok.num)
  BY DEF FieldIn
<1>4. ~(s.n >= x.slice[2])
  BY DEF FrameOK, Outcome
<1>5. MessageBody(buf, x.mi, x.endGroup, x.slice[2], sub)[s] =
        (LET tk == buf[s.n + 1]
             f == FieldOf(x.mi, tk.num)
             w == Value(buf, f, tk, s.n + 1, x.slice[2], Entry(buf, sub), sub)
             k == FieldEnd(buf, tk, s.n + 1, x.slice[2])
             ok == s.initialized /\ AllSeen(s.mask, numRequiredFields(x.mi))
         IN  IF s.err # "run" THEN s
             ELSE IF s.n >= x.slice[2] THEN IF x.endGroup = 0 THEN Done(s.n, ok) ELSE Fails("decode")
             ELSE IF tk.wtyp = "end"
                  THEN IF tk.num = x.endGroup THEN Done(s.n + 1, ok) ELSE Fails("decode")
             ELSE IF w.err = "none"
                  THEN [err |-> "run", n |-> w.n,
                        initialized |-> s.initialized /\ (w.initialized \/ ~HasInit(f)),
                        mask |-> s.mask \cup requiredBit(x.mi, tk.num)]
             ELSE IF w.err # "errUnknown" THEN w
             ELSE IF k < 0 THEN Fails("decode") ELSE [s EXCEPT !.n = k])
  BY DEF MessageBody
<1> QED
  BY <1>1, <1>4, <1>5, Zenon DEF FrameBody, FrameValue, FrameMoves

(* At the end of its slice a message ends, and a group fails. *)
LEMMA FrameEnds ==
  ASSUME NEW buf \in Seq(Token), NEW x, FrameOK(buf, x), NEW sub \in SubType(buf),
         NEW s \in Outcome(buf), s.err = "run", s.n = x.slice[2]
  PROVE  /\ x.endGroup # 0 => FrameBody(buf, x, sub)[s] = Fails("decode")
         /\ x.endGroup = 0 /\ x.typ = "map" => FrameBody(buf, x, sub)[s] = Done(s.n, s.initialized)
         /\ x.endGroup = 0 /\ x.typ # "map" => FrameBody(buf, x, sub)[s] =
                Done(s.n, s.initialized /\ AllSeen(s.mask, numRequiredFields(x.mi)))
<1>1. s.n >= x.slice[2]
  BY DEF FrameOK, Outcome
<1>2. x.endGroup # 0 => x.typ # "map"
  BY DEF FrameOK
<1>3. x.typ = "map" => FrameBody(buf, x, sub)[s] = Done(s.n, s.initialized)
  <2>1. EntryBody(buf, x.mi, x.slice[2], sub)[s] = Done(s.n, s.initialized)
    BY <1>1 DEF EntryBody
  <2> QED
    BY <2>1 DEF FrameBody
<1>4. x.typ # "map" => FrameBody(buf, x, sub)[s] =
          IF x.endGroup = 0 THEN Done(s.n, s.initialized /\ AllSeen(s.mask, numRequiredFields(x.mi)))
          ELSE Fails("decode")
  <2>1. MessageBody(buf, x.mi, x.endGroup, x.slice[2], sub)[s] =
          IF x.endGroup = 0 THEN Done(s.n, s.initialized /\ AllSeen(s.mask, numRequiredFields(x.mi)))
          ELSE Fails("decode")
    BY <1>1 DEF MessageBody
  <2> QED
    BY <2>1 DEF FrameBody
<1> QED
  BY <1>2, <1>3, <1>4, Zenon

(* The value of a record of the wrong wire type is not looked at. *)
LEMMA ValueUnknown ==
  ASSUME NEW buf, NEW x, NEW tok, NEW at, NEW sub,
         FieldIn(x, tok.num).resolves, tok.wtyp \notin Expects(FieldIn(x, tok.num).typ)
  PROVE  FrameValue(buf, x, tok, at, sub) = Fails("errUnknown")
BY DEF FrameValue, Value

(* An end tag ends the group it names, and nothing else. *)
LEMMA FrameEndTag ==
  ASSUME NEW buf \in Seq(Token), NEW x, FrameOK(buf, x), NEW sub \in SubType(buf),
         NEW s \in Outcome(buf), s.err = "run", s.n < x.slice[2], buf[s.n + 1].wtyp = "end"
  PROVE  /\ x.endGroup # buf[s.n + 1].num => FrameBody(buf, x, sub)[s] = Fails("decode")
         /\ x.endGroup = buf[s.n + 1].num =>
                /\ x.typ = "group"
                /\ FrameBody(buf, x, sub)[s] =
                     Done(s.n + 1, s.initialized /\ AllSeen(s.mask, numRequiredFields(x.mi)))
<1> DEFINE tok == buf[s.n + 1]
<1>1. tok \in Token /\ tok.num \in Nat \ {0} /\ Proper(FieldIn(x, tok.num))
  BY FrameTok
<1>2. x.typ \in {"message", "group", "map"} /\ (x.typ = "group" <=> x.endGroup # 0) /\ x \in validationState
  BY DEF FrameOK, validationState
<1>3. CASE x.typ = "map"
  <2>1. PICK v : v = FrameValue(buf, x, tok, s.n + 1, sub)
    OBVIOUS
  <2>2. PICK m : m = FieldEnd(buf, tok, s.n + 1, x.slice[2])
    OBVIOUS
  <2>3. v = Fails("errUnknown")
    <3>1. FieldIn(x, tok.num).resolves /\ FieldIn(x, tok.num).typ \in FieldTypes
      BY <1>1, <1>2, <1>3, FieldInType
    <3>2. tok.wtyp \notin Expects(FieldIn(x, tok.num).typ)
      BY <3>1 DEF Expects, FieldTypes
    <3> QED
      BY <2>1, <3>1, <3>2, ValueUnknown
  <2>4. m = -1
    BY <2>2 DEF FieldEnd, ConsumeFieldValue
  <2>5. v.err = "errUnknown" /\ m < 0
    BY <2>3, <2>4 DEF Fails
  <2>6. FrameBody(buf, x, sub)[s] = Fails("decode")
    <3>1. FrameBody(buf, x, sub)[s] =
            IF v.err = "none" THEN Begun(v.n, s.initialized \/ (tok.num = 2 /\ v.initialized))
            ELSE IF v.err # "errUnknown" THEN v
            ELSE IF m < 0 THEN Fails("decode") ELSE [s EXCEPT !.n = m]
      BY <1>3, <2>1, <2>2, EntryUnfold
    <3> QED
      BY <2>5, <3>1
  <2>7. x.endGroup # tok.num
    BY <1>1, <1>2, <1>3
  <2> QED
    BY <2>6, <2>7
<1>4. CASE x.typ # "map"
  <2>1. PICK v : v = FrameValue(buf, x, tok, s.n + 1, sub)
    OBVIOUS
  <2>2. PICK m : m = FieldEnd(buf, tok, s.n + 1, x.slice[2])
    OBVIOUS
  <2>3. FrameBody(buf, x, sub)[s] =
            IF tok.num = x.endGroup
                 THEN Done(s.n + 1, s.initialized /\ AllSeen(s.mask, numRequiredFields(x.mi)))
                 ELSE Fails("decode")
    <3>1. FrameBody(buf, x, sub)[s] =
            IF tok.wtyp = "end"
            THEN IF tok.num = x.endGroup
                 THEN Done(s.n + 1, s.initialized /\ AllSeen(s.mask, numRequiredFields(x.mi)))
                 ELSE Fails("decode")
            ELSE FrameMoves(x, s, tok, v, m)
      BY <1>4, <2>1, <2>2, MessageUnfold
    <3> QED
      BY <3>1, Zenon
  <2>4. x.endGroup = tok.num => x.typ = "group"
    BY <1>1, <1>2
  <2> QED
    BY <2>3, <2>4
<1> QED
  BY <1>3, <1>4

(* The bits that a record adds to the mask of the decoder. *)
FrameBit(x, tok) ==
  IF x.typ # "map" /\ tok.wtyp \in Expects(FieldIn(x, tok.num).typ) THEN requiredBit(x.mi, tok.num) ELSE {}

Advanced(x, s, tok, v, r) ==
  /\ v.err = "none" =>
        /\ r.err = "run" /\ r.n = v.n
        /\ r.mask = IF x.typ = "map" THEN {} ELSE s.mask \cup FrameBit(x, tok)
        /\ x.typ = "map" => (r.initialized <=> s.initialized \/ (tok.num = 2 /\ v.initialized))
        /\ x.typ # "map" =>
              (r.initialized <=> s.initialized /\ (v.initialized \/ ~HasInit(FieldIn(x, tok.num))))
  /\ v.err \notin {"none", "errUnknown"} => r = v

Consumed(s, m, r) ==
  /\ m < 0 => r = Fails("decode")
  /\ m >= 0 => r.err = "run" /\ r.n = m /\ r.mask = s.mask /\ r.initialized = s.initialized

(* A value that is decoded takes the loop past it. *)
LEMMA FrameAdvance ==
  ASSUME NEW buf \in Seq(Token), NEW x, FrameOK(buf, x), NEW sub \in SubType(buf),
         NEW s \in Outcome(buf), s.err = "run", s.n < x.slice[2], NEW tok, tok = buf[s.n + 1],
         tok.wtyp \in Expects(FieldIn(x, tok.num).typ),
         NEW v, v = FrameValue(buf, x, tok, s.n + 1, sub)
  PROVE  Advanced(x, s, tok, v, FrameBody(buf, x, sub)[s])
<1>0. SUFFICES /\ v.err = "none" =>
                   /\ FrameBody(buf, x, sub)[s].err = "run" /\ FrameBody(buf, x, sub)[s].n = v.n
                   /\ FrameBody(buf, x, sub)[s].mask = IF x.typ = "map" THEN {} ELSE s.mask \cup FrameBit(x, tok)
                   /\ x.typ = "map" =>
                        (FrameBody(buf, x, sub)[s].initialized <=> s.initialized \/ (tok.num = 2 /\ v.initialized))
                   /\ x.typ # "map" =>
                        (FrameBody(buf, x, sub)[s].initialized <=>
                            s.initialized /\ (v.initialized \/ ~HasInit(FieldIn(x, tok.num))))
               /\ v.err \notin {"none", "errUnknown"} => FrameBody(buf, x, sub)[s] = v
  BY Zenon DEF Advanced
<1>1. tok.wtyp # "end"
  <2>1. FieldIn(x, tok.num).typ \in FieldTypes
    BY FrameTok DEF Proper, FieldInfo
  <2> QED
    BY <2>1 DEF Expects, FieldTypes
<1>2. PICK m : m = FieldEnd(buf, tok, s.n + 1, x.slice[2])
  OBVIOUS
<1>3. CASE x.typ = "map"
  <2>1. FrameBody(buf, x, sub)[s] =
            IF v.err = "none" THEN Begun(v.n, s.initialized \/ (tok.num = 2 /\ v.initialized))
            ELSE IF v.err # "errUnknown" THEN v
            ELSE IF m < 0 THEN Fails("decode") ELSE [s EXCEPT !.n = m]
    BY <1>2, <1>3, EntryUnfold
  <2>2. CASE v.err = "none"
    <3>1. FrameBody(buf, x, sub)[s] = Begun(v.n, s.initialized \/ (tok.num = 2 /\ v.initialized))
      BY <2>1, <2>2
    <3>2. PICK ok : ok = (s.initialized \/ (tok.num = 2 /\ v.initialized))
      OBVIOUS
    <3>3. FrameBody(buf, x, sub)[s] = Begun(v.n, ok)
      BY <3>1, <3>2, Zenon
    <3>4. PICK r : r = FrameBody(buf, x, sub)[s]
      OBVIOUS
    <3>5. r.err = "run" /\ r.n = v.n /\ r.mask = {} /\ r.initialized = ok
      BY <3>3, <3>4 DEF Begun
    <3> QED
      BY <1>3, <2>2, <3>2, <3>4, <3>5, Zenon
  <2> QED
    BY <1>3, <2>1, <2>2
<1>4. CASE x.typ # "map"
  <2>1. FrameBody(buf, x, sub)[s] = FrameMoves(x, s, tok, v, m)
    <3>1. FrameBody(buf, x, sub)[s] =
            IF tok.wtyp = "end"
            THEN IF tok.num = x.endGroup
                 THEN Done(s.n + 1, s.initialized /\ AllSeen(s.mask, numRequiredFields(x.mi)))
                 ELSE Fails("decode")
            ELSE FrameMoves(x, s, tok, v, m)
      BY <1>2, <1>4, MessageUnfold
    <3> QED
      BY <1>1, <3>1, Zenon
  <2>2. CASE v.err = "none"
    <3>1. PICK ok : ok = (s.initialized /\ (v.initialized \/ ~HasInit(FieldIn(x, tok.num))))
      OBVIOUS
    <3>2. PICK r : r = FrameBody(buf, x, sub)[s]
      OBVIOUS
    <3>3. r = [err |-> "run", n |-> v.n, initialized |-> ok, mask |-> s.mask \cup requiredBit(x.mi, tok.num)]
      BY <2>1, <2>2, <3>1, <3>2, Zenon DEF FrameMoves
    <3>4. FrameBit(x, tok) = requiredBit(x.mi, tok.num)
      BY <1>4 DEF FrameBit
    <3>5. r.err = "run" /\ r.n = v.n /\ r.mask = s.mask \cup FrameBit(x, tok) /\ r.initialized = ok
      BY <3>3, <3>4
    <3> QED
      BY <1>4, <2>2, <3>1, <3>2, <3>5, Zenon
  <2>3. v.err # "none" /\ v.err # "errUnknown" => FrameBody(buf, x, sub)[s] = v
    BY <2>1, Zenon DEF FrameMoves
  <2> QED
    BY <2>2, <2>3, Zenon
<1> QED
  BY <1>3, <1>4

(* A value that is not decoded is consumed. *)
LEMMA FrameConsume ==
  ASSUME NEW buf \in Seq(Token), NEW x, FrameOK(buf, x), NEW sub \in SubType(buf),
         NEW s \in Outcome(buf), s.err = "run", s.n < x.slice[2], NEW tok, tok = buf[s.n + 1],
         FieldIn(x, tok.num).resolves, tok.wtyp \notin Expects(FieldIn(x, tok.num).typ), tok.wtyp # "end",
         NEW m, m = FieldEnd(buf, tok, s.n + 1, x.slice[2])
  PROVE  Consumed(s, m, FrameBody(buf, x, sub)[s])
<1>1. PICK v : v = FrameValue(buf, x, tok, s.n + 1, sub)
  OBVIOUS
<1>2. v.err = "errUnknown"
  BY <1>1, ValueUnknown DEF Fails
<1>3. FrameBody(buf, x, sub)[s] = IF m < 0 THEN Fails("decode") ELSE [s EXCEPT !.n = m]
  <2>1. CASE x.typ = "map"
    <3>1. FrameBody(buf, x, sub)[s] =
            IF v.err = "none" THEN Begun(v.n, s.initialized \/ (tok.num = 2 /\ v.initialized))
            ELSE IF v.err # "errUnknown" THEN v
            ELSE IF m < 0 THEN Fails("decode") ELSE [s EXCEPT !.n = m]
      BY <1>1, <2>1, EntryUnfold
    <3> QED
      BY <1>2, <3>1
  <2>2. CASE x.typ # "map"
    <3>1. FrameBody(buf, x, sub)[s] =
            IF tok.wtyp = "end"
            THEN IF tok.num = x.endGroup
                 THEN Done(s.n + 1, s.initialized /\ AllSeen(s.mask, numRequiredFields(x.mi)))
                 ELSE Fails("decode")
            ELSE FrameMoves(x, s, tok, v, m)
      BY <1>1, <2>2, MessageUnfold
    <3>2. v.err # "none" /\ v.err = "errUnknown"
      BY <1>2
    <3> QED
      BY <3>1, <3>2, Zenon DEF FrameMoves
  <2> QED
    BY <2>1, <2>2
<1>4. m \in (0 .. Len(buf)) \cup {-1}
  BY FrameTok
<1>5. (m < 0 /\ ~(m >= 0)) \/ (m \in 0 .. Len(buf) /\ ~(m < 0))
  BY <1>4
<1>6. m \in 0 .. Len(buf) =>
         /\ [s EXCEPT !.n = m].n = m /\ [s EXCEPT !.n = m].err = s.err
         /\ [s EXCEPT !.n = m].initialized = s.initialized /\ [s EXCEPT !.n = m].mask = s.mask
  BY Moved
<1> QED
  BY <1>3, <1>5, <1>6, Zenon DEF Consumed

(* A scalar, a text and an unknown value that is no group are passed. *)
Passes(x, tok) ==
  /\ FieldIn(x, tok.num).resolves
  /\ \/ tok.wtyp = "varint"
     \/ /\ tok.wtyp = "bytes" /\ FieldIn(x, tok.num).typ \notin {"message", "map"}
        /\ FieldIn(x, tok.num).typ = "text" => tok.utf8

Width(tok) == IF tok.wtyp = "bytes" THEN tok.size ELSE 0

LEMMA FramePasses ==
  ASSUME NEW buf \in Seq(Token), NEW x, FrameOK(buf, x), NEW sub \in SubType(buf),
         NEW s \in Outcome(buf), s.err = "run", s.n < x.slice[2], NEW tok, tok = buf[s.n + 1],
         Passes(x, tok), s.n + 1 + Width(tok) <= x.slice[2]
  PROVE  /\ FrameBody(buf, x, sub)[s].err = "run"
         /\ FrameBody(buf, x, sub)[s].n = s.n + 1 + Width(tok)
         /\ x.typ # "map" => FrameBody(buf, x, sub)[s].mask = s.mask \cup FrameBit(x, tok)
         /\ FrameBody(buf, x, sub)[s].initialized = s.initialized
<1> DEFINE f == FieldIn(x, tok.num)
           at == s.n + 1
           r == FrameBody(buf, x, sub)[s]
<1>1. /\ s.n \in Nat /\ tok.num \in Nat /\ tok.size \in Nat /\ f.typ \in FieldTypes
      /\ x \in validationState /\ x.slice[2] \in Nat
  BY FrameTok DEF Proper, FieldInfo, FrameOK
<1>2. f.resolves /\ tok.wtyp \in {"varint", "bytes"}
  BY DEF Passes
<1>3. CASE tok.wtyp \in Expects(f.typ)
  <2>1. PICK v : v = FrameValue(buf, x, tok, at, sub)
    OBVIOUS
  <2>2. f.typ \in {"varint", "text"} /\ (f.typ = "varint" => tok.wtyp = "varint")
        /\ (f.typ = "text" => tok.wtyp = "bytes" /\ tok.utf8)
    BY <1>1, <1>2, <1>3 DEF Expects, FieldTypes, Passes
  <2>3. ~(tok.wtyp = "bytes" /\ at + tok.size > x.slice[2])
    BY <1>1 DEF Width
  <2>4. v = Done(at + Width(tok), TRUE)
    <3>1. CASE f.typ = "varint"
      <4>1. at + Width(tok) = at
        BY <1>1, <2>2, <3>1 DEF Width
      <4>2. v = Done(at, TRUE)
        BY <2>1, <1>2, <1>3, <2>2, <3>1 DEF FrameValue, Value
      <4> QED BY <4>1, <4>2
    <3>2. CASE f.typ = "text"
      <4>1. at + Width(tok) = at + tok.size
        BY <2>2, <3>2 DEF Width
      <4>2. v = Done(at + tok.size, TRUE)
        BY <2>1, <1>2, <1>3, <2>2, <2>3, <3>2 DEF FrameValue, Value
      <4> QED BY <4>1, <4>2
    <3> QED BY <2>2, <3>1, <3>2
  <2>5. v.err = "none" /\ v.n = at + Width(tok) /\ v.initialized
    BY <2>4 DEF Done
  <2>6. x.typ = "map" => tok.num # 2
    <3>1. x.mi \in DOMAIN Schema
      BY <1>1 DEF validationState
    <3> QED
      BY <1>1, <2>2, <3>1, EntryFieldType DEF FieldIn
  <2>7. r.err = "run" /\ r.n = v.n /\ (x.typ # "map" => r.mask = s.mask \cup FrameBit(x, tok))
        /\ (r.initialized <=> s.initialized)
    <3>1. Advanced(x, s, tok, v, r)
      BY <1>3, <2>1, FrameAdvance
    <3> HIDE DEF r
    <3> QED
      BY <2>5, <2>6, <3>1, Zenon DEF Advanced
  <2>8. r.initialized \in BOOLEAN /\ s.initialized \in BOOLEAN
    <3>1. r \in Outcome(buf)
      BY FrameBodyType
    <3> HIDE DEF r
    <3> QED
      BY <3>1 DEF Outcome
  <2>9. r.initialized = s.initialized
    <3> HIDE DEF r
    <3> QED BY <2>7, <2>8
  <2> QED
    BY <2>5, <2>7, <2>9, Zenon
<1>4. CASE tok.wtyp \notin Expects(f.typ)
  <2>1. FieldEnd(buf, tok, at, x.slice[2]) = at + Width(tok)
    <3>1. CASE tok.wtyp = "varint"
      BY <1>1, <3>1 DEF FieldEnd, ConsumeFieldValue, Width
    <3>2. CASE tok.wtyp = "bytes"
      <4>1. Width(tok) = tok.size /\ ~(at + tok.size > x.slice[2])
        BY <1>1, <3>2 DEF Width
      <4> QED
        BY <3>2, <4>1 DEF FieldEnd, ConsumeFieldValue
    <3> QED BY <1>2, <3>1, <3>2
  <2>2. at + Width(tok) >= 0
    BY <1>1 DEF Width
  <2>3. FrameBit(x, tok) = {}
    BY <1>4 DEF FrameBit
  <2>4. tok.wtyp # "end"
    BY <1>2
  <2>5. r.err = "run" /\ r.n = at + Width(tok) /\ r.mask = s.mask /\ r.initialized = s.initialized
    <3>1. Consumed(s, at + Width(tok), r)
      BY <1>2, <1>4, <2>1, <2>4, FrameConsume
    <3> QED
      BY <2>2, <3>1, Zenon DEF Consumed
  <2> QED
    BY <2>3, <2>5
<1> QED
  BY <1>3, <1>4

(* A record that validate refuses is refused. *)
IsMalformed(x, tok, rest) ==
  /\ FieldIn(x, tok.num).resolves
  /\ \/ tok.wtyp = "bytes" /\ tok.size >= rest
     \/ tok.wtyp = "bytes" /\ FieldIn(x, tok.num).typ = "text" /\ ~tok.utf8
     \/ tok.wtyp = "reserved"

LEMMA FrameMalformed ==
  ASSUME NEW buf \in Seq(Token), NEW x, FrameOK(buf, x), NEW sub \in SubType(buf),
         NEW s \in Outcome(buf), s.err = "run", s.n < x.slice[2], NEW tok, tok = buf[s.n + 1],
         IsMalformed(x, tok, x.slice[2] - s.n)
  PROVE  FrameBody(buf, x, sub)[s] = Fails("decode")
<1> DEFINE f == FieldIn(x, tok.num)
           at == s.n + 1
<1>1. /\ s.n \in Nat /\ tok.num \in Nat /\ tok.size \in Nat /\ f.typ \in FieldTypes
      /\ x \in validationState /\ x.slice[2] \in Nat /\ tok.utf8 \in BOOLEAN
  <2>1. tok \in Token
    BY FrameTok
  <2>2. tok.utf8 \in BOOLEAN
    BY <2>1 DEF Token
  <2> QED
    BY <2>2, FrameTok DEF Proper, FieldInfo, FrameOK
<1>2. f.resolves /\ tok.wtyp \in {"bytes", "reserved"}
  BY DEF IsMalformed
<1>3. CASE tok.wtyp \in Expects(f.typ)
  <2>1. PICK v : v = FrameValue(buf, x, tok, at, sub)
    OBVIOUS
  <2>2. tok.wtyp = "bytes" /\ f.typ # "varint"
    BY <1>1, <1>2, <1>3 DEF Expects, FieldTypes
  <2>3. at + tok.size > x.slice[2] \/ (f.typ = "text" /\ ~tok.utf8)
    BY <1>1, <2>2 DEF IsMalformed
  <2>4. v = Fails("decode")
    BY <2>1, <1>2, <1>3, <2>2, <2>3 DEF FrameValue, Value
  <2>5. v.err \notin {"none", "errUnknown"}
    BY <2>4 DEF Fails
  <2>6. Advanced(x, s, tok, v, FrameBody(buf, x, sub)[s])
    BY <1>3, <2>1, FrameAdvance
  <2> QED
    BY <2>4, <2>5, <2>6, Zenon DEF Advanced
<1>4. CASE tok.wtyp \notin Expects(f.typ)
  <2>0. tok.wtyp = "reserved" \/ (tok.wtyp = "bytes" /\ at + tok.size > x.slice[2])
    <3>1. f.typ = "text" => "bytes" \in Expects(f.typ)
      BY DEF Expects
    <3> QED
      BY <1>1, <1>2, <1>4, <3>1 DEF IsMalformed
  <2>1. FieldEnd(buf, tok, at, x.slice[2]) = -1
    BY <2>0 DEF FieldEnd, ConsumeFieldValue
  <2>2. FieldEnd(buf, tok, at, x.slice[2]) < 0 /\ tok.wtyp # "end"
    BY <2>1, <1>2
  <2>3. Consumed(s, FieldEnd(buf, tok, at, x.slice[2]), FrameBody(buf, x, sub)[s])
    BY <1>2, <1>4, <2>2, FrameConsume
  <2> QED
    BY <2>2, <2>3, Zenon DEF Consumed
<1> QED
  BY <1>3, <1>4

-----------------------------------------------------------------------------
(* A state of the stack and the one above it. *)

Sub(buf, x) == Unmarshal(buf)[RecursionLimit - x.level]

(* y stands for the field whose tag, tok, is the record before at.          *)
ChildOf(x, y, tok, at) ==
  /\ FieldIn(x, tok.num).resolves /\ tok.wtyp \in Expects(FieldIn(x, tok.num).typ)
  /\ y.typ = FieldIn(x, tok.num).typ /\ y.mi = FieldIn(x, tok.num).mi
  /\ y.slice[1] = at
  /\ y.typ = "group" => y.endGroup = tok.num /\ y.slice[2] = x.slice[2]
  /\ y.typ # "group" => y.endGroup = 0 /\ y.slice[2] = at + tok.size /\ y.slice[2] <= x.slice[2]
  /\ y.level = IF y.typ = "map" THEN x.level ELSE x.level + 1

Result(y, c) == IF y.typ # "group" /\ c.err = "none" THEN Done(y.slice[2], c.initialized) ELSE c

LEMMA SubIs ==
  ASSUME NEW buf \in Seq(Token), NEW x \in validationState, x.level <= RecursionLimit
  PROVE  Sub(buf, x) \in SubType(buf)
<1>1. RecursionLimit - x.level \in Nat
  BY ValidateAssumption DEF validationState
<1> QED
  BY <1>1, UnmarshalDef DEF Sub

LEMMA ChildValue ==
  ASSUME NEW buf \in Seq(Token), NEW x, FrameOK(buf, x), NEW y, FrameOK(buf, y),
         NEW tok \in Token, NEW at \in 0 .. Len(buf), ChildOf(x, y, tok, at), x.level <= RecursionLimit
  PROVE  /\ y.level <= RecursionLimit =>
              FrameValue(buf, x, tok, at, Sub(buf, x)) = Result(y, FrameLoop(buf, y, Sub(buf, y)))
         /\ y.level > RecursionLimit => FrameValue(buf, x, tok, at, Sub(buf, x)) = Fails("depth")
<1> DEFINE f == FieldIn(x, tok.num)
<1>a. PICK sub : sub = Sub(buf, x)
  OBVIOUS
<1>b. PICK v : v = FrameValue(buf, x, tok, at, sub)
  OBVIOUS
<1>c. PICK d : d = RecursionLimit - x.level
  OBVIOUS
<1>d. SUFFICES /\ y.level <= RecursionLimit => v = Result(y, FrameLoop(buf, y, Sub(buf, y)))
               /\ y.level > RecursionLimit => v = Fails("depth")
  BY <1>a, <1>b, Zenon
<1>1. /\ x \in validationState /\ y \in validationState /\ x.level \in Nat /\ y.level \in Nat
      /\ y.typ \in {"message", "group", "map"} /\ y.mi \in DOMAIN Schema /\ RecursionLimit \in Nat /\ d \in Nat
      /\ x.slice[2] \in 0 .. Len(buf) /\ y.slice[2] \in 0 .. Len(buf) /\ tok.num \in Nat /\ tok.size \in Nat
      /\ y.endGroup \in Nat
  <2>1. x \in validationState /\ y \in validationState /\ x.slice[2] \in 0 .. Len(buf) /\ y.slice[2] \in 0 .. Len(buf)
    BY DEF FrameOK
  <2>2. x.level \in Nat /\ y.level \in Nat /\ y.typ \in {"message", "group", "map"} /\ y.mi \in DOMAIN Schema
        /\ y.endGroup \in Nat
    BY <2>1 DEF validationState
  <2>3. tok.num \in Nat /\ tok.size \in Nat
    BY DEF Token
  <2>4. RecursionLimit \in Nat
    BY ValidateAssumption
  <2>5. d \in Nat
    BY <1>c, <2>2, <2>4
  <2> QED BY <2>1, <2>2, <2>3, <2>4, <2>5
<1>2. f.typ = y.typ /\ f.mi = y.mi /\ f.mi # Nil /\ f.resolves /\ tok.wtyp \in Expects(f.typ)
  BY <1>1, ValidateAssumption DEF ChildOf
<1>3. sub \in SubType(buf) /\ sub = Unmarshal(buf)[d]
  BY <1>a, <1>c, <1>1, SubIs DEF Sub
<1>4. y.typ # "group" => ~(at + tok.size > x.slice[2]) /\ y.slice[2] = at + tok.size
  BY <1>1 DEF ChildOf
<1>5. y.typ = "group" => tok.wtyp # "bytes"
  BY <1>2 DEF Expects
<1>6. v = IF y.typ = "group" THEN sub[y.mi][tok.num][x.slice[2]][at]
          ELSE IF y.typ = "map" THEN Result(y, Entry(buf, sub)[y.mi][y.slice[2]][at])
          ELSE Result(y, sub[y.mi][0][y.slice[2]][at])
  <2>1. CASE y.typ = "group"
    <3>1. v = sub[y.mi][tok.num][x.slice[2]][at]
      BY <1>b, <1>2, <1>5, <2>1 DEF FrameValue, Value
    <3> QED BY <2>1, <3>1
  <2>2. CASE y.typ = "map"
    <3>1. v = (LET r == Entry(buf, sub)[y.mi][y.slice[2]][at]
               IN  IF r.err = "none" THEN Done(y.slice[2], r.initialized) ELSE r)
      BY <1>b, <1>2, <1>4, <2>2 DEF FrameValue, Value
    <3> QED BY <2>2, <3>1 DEF Result
  <2>3. CASE y.typ = "message"
    <3>1. v = (LET r == sub[y.mi][0][y.slice[2]][at]
               IN  IF r.err = "none" THEN Done(y.slice[2], r.initialized) ELSE r)
      BY <1>b, <1>2, <1>4, <2>3 DEF FrameValue, Value
    <3> QED BY <2>3, <3>1 DEF Result
  <2> QED BY <1>1, <2>1, <2>2, <2>3
<1>7. y.slice[1] = at /\ (y.typ = "group" => y.endGroup = tok.num /\ y.slice[2] = x.slice[2])
      /\ (y.typ # "group" => y.endGroup = 0)
      /\ y.level = IF y.typ = "map" THEN x.level ELSE x.level + 1
  BY DEF ChildOf
<1>8. CASE y.typ = "map"
  <2>1. Entry(buf, sub)[y.mi][y.slice[2]][at] = Loop(buf, EntryBody(buf, y.mi, y.slice[2], sub), Begun(at, FALSE))
    BY <1>1, <1>3, EntryDef
  <2>2. Sub(buf, y) = sub
    BY <1>a, <1>7, <1>8 DEF Sub
  <2>3. FrameFirst(y) = Begun(at, FALSE)
    BY <1>7, <1>8 DEF FrameFirst
  <2>4. FrameLoop(buf, y, Sub(buf, y)) = Entry(buf, sub)[y.mi][y.slice[2]][at]
    BY <1>8, <2>1, <2>2, <2>3 DEF FrameLoop, FrameBody
  <2>5. v = Result(y, FrameLoop(buf, y, Sub(buf, y)))
    BY <1>6, <1>8, <2>4
  <2>6. ~(y.level > RecursionLimit)
    BY <1>1, <1>7, <1>8
  <2> QED
    BY <2>5, <2>6
<1>9. CASE y.typ # "map"
  <2> DEFINE end == y.slice[2]
  <2>0. v = Result(y, sub[y.mi][y.endGroup][end][at])
    <3>1. CASE y.typ = "group"
      <4>1. v = sub[y.mi][y.endGroup][end][at]
        BY <1>6, <1>7, <3>1
      <4> QED BY <3>1, <4>1 DEF Result
    <3>2. CASE y.typ # "group"
      BY <1>6, <1>7, <1>9, <3>2
    <3> QED BY <3>1, <3>2
  <2>1. CASE d = 0
    <3>1. sub[y.mi][y.endGroup][end][at] = Fails("depth")
      <4>1. Unmarshal(buf)[0][y.mi][y.endGroup][end][at] = Fails("depth")
        <5>1. \A mt \in DOMAIN Schema, tag \in Nat, e \in 0 .. Len(buf), p \in 0 .. Len(buf) :
                 Unmarshal(buf)[0][mt][tag][e][p] = Fails("depth")
          BY UnmarshalDef
        <5> QED BY <1>1, <5>1, Zenon
      <4> QED BY <1>3, <2>1, <4>1
    <3>2. Fails("depth").err # "none"
      BY DEF Fails
    <3>3. v = Fails("depth")
      BY <2>0, <3>1, <3>2 DEF Result
    <3>4. y.level > RecursionLimit
      BY <1>c, <1>1, <1>7, <1>9, <2>1
    <3>5. ~(y.level <= RecursionLimit)
      BY <1>1, <3>4
    <3> QED
      BY <3>3, <3>5, Zenon
  <2>2. CASE d # 0
    <3>1. d - 1 \in Nat /\ (d - 1) + 1 = d /\ RecursionLimit - y.level = d - 1 /\ ~(y.level > RecursionLimit)
      <4>1. x.level \in Nat /\ RecursionLimit \in Nat /\ d \in Nat /\ d # 0
        BY <1>1, <2>2
      <4>2. y.level = x.level + 1
        BY <1>7, <1>9
      <4> QED BY <1>c, <4>1, <4>2
    <3>2. Sub(buf, y) = Unmarshal(buf)[d - 1]
      BY <3>1 DEF Sub
    <3>3. Unmarshal(buf)[(d - 1) + 1] = SubStep(buf, Unmarshal(buf)[d - 1])
      BY <3>1, UnmarshalDef
    <3>4. sub = SubStep(buf, Sub(buf, y))
      BY <1>3, <3>1, <3>2, <3>3
    <3>5. sub[y.mi][y.endGroup][end][at] = Loop(buf, MessageBody(buf, y.mi, y.endGroup, end, Sub(buf, y)), Begun(at, TRUE))
      <4>1. y.mi \in DOMAIN Schema /\ y.endGroup \in Nat /\ end \in 0 .. Len(buf) /\ at \in 0 .. Len(buf)
        BY <1>1
      <4>2. PICK u : u = Sub(buf, y)
        OBVIOUS
      <4>3. PICK e : e = end
        OBVIOUS
      <4>4. SubStep(buf, u)[y.mi][y.endGroup][e][at] = Loop(buf, MessageBody(buf, y.mi, y.endGroup, e, u), Begun(at, TRUE))
        BY <4>1, <4>3 DEF SubStep
      <4> QED BY <3>4, <4>2, <4>3, <4>4
    <3>6. FrameFirst(y) = Begun(at, TRUE)
      BY <1>7, <1>9 DEF FrameFirst
    <3>7. sub[y.mi][y.endGroup][end][at] = FrameLoop(buf, y, Sub(buf, y))
      BY <3>5, <3>6, <1>9 DEF FrameLoop, FrameBody
    <3> QED
      BY <2>0, <3>1, <3>7, Zenon
  <2> QED
    BY <2>1, <2>2
<1> QED
  BY <1>8, <1>9

-----------------------------------------------------------------------------
(* Consuming the contents of a group, with n groups that may be open. *)

GroupRun(buf, num, end, start, cur, n) ==
  Runs(GroupBody(buf, num, end, ConsumeGroup(buf)[n - 1]), Begun(start, TRUE), Begun(cur, TRUE))

GroupArgs(buf, num, end, start, n) ==
  buf \in Seq(Token) /\ num \in Nat /\ end \in 0 .. Len(buf) /\ start \in 0 .. Len(buf) /\ n \in Nat \ {0}

(* What consuming a group with n groups that may be open gives. *)
GroupGives(buf, num, end, start, n, t) == ConsumeGroup(buf)[n][num][end][start] = t

LEMMA GroupFacts ==
  ASSUME NEW buf, NEW num, NEW end, NEW start, NEW n, GroupArgs(buf, num, end, start, n)
  PROVE  /\ ConsumeGroup(buf)[n - 1] \in GroupType(buf)
         /\ GroupBody(buf, num, end, ConsumeGroup(buf)[n - 1]) \in [Outcome(buf) -> Outcome(buf)]
         /\ GroupGives(buf, num, end, start, n,
              Loop(buf, GroupBody(buf, num, end, ConsumeGroup(buf)[n - 1]), Begun(start, TRUE)))
         /\ Begun(start, TRUE) \in Outcome(buf)
<1>1. n - 1 \in Nat /\ (n - 1) + 1 = n
  BY DEF GroupArgs
<1>2. ConsumeGroup(buf)[n - 1] \in GroupType(buf) /\ ConsumeGroup(buf)[n] = GroupStep(buf, ConsumeGroup(buf)[n - 1])
  <2>1. ConsumeGroup(buf)[(n - 1) + 1] = GroupStep(buf, ConsumeGroup(buf)[n - 1])
    BY <1>1, ConsumeGroupDef DEF GroupArgs
  <2> QED
    BY <1>1, <2>1, ConsumeGroupDef DEF GroupArgs
<1>3. PICK g : g = ConsumeGroup(buf)[n - 1]
  OBVIOUS
<1>4. GroupStep(buf, g)[num][end][start] = Loop(buf, GroupBody(buf, num, end, g), Begun(start, TRUE))
  BY DEF GroupStep, GroupArgs
<1>5. GroupBody(buf, num, end, g) \in [Outcome(buf) -> Outcome(buf)]
  BY <1>2, <1>3, GroupBodyType DEF GroupArgs
<1> QED
  BY <1>2, <1>3, <1>4, <1>5, OutcomesType DEF GroupArgs, GroupGives

LEMMA GroupStart ==
  ASSUME NEW buf, NEW num, NEW end, NEW start, NEW n, GroupArgs(buf, num, end, start, n)
  PROVE  GroupRun(buf, num, end, start, start, n)
BY GroupFacts, RunStart DEF GroupRun, GroupArgs

GroupUnfolds(buf, num, end, g, cur) ==
  /\ cur >= end => GroupBody(buf, num, end, g)[Begun(cur, TRUE)] = Fails("decode")
  /\ cur < end /\ buf[cur + 1].wtyp = "end" => GroupBody(buf, num, end, g)[Begun(cur, TRUE)] =
        IF buf[cur + 1].num = num THEN Done(cur + 1, TRUE) ELSE Fails("decode")
  /\ cur < end /\ buf[cur + 1].wtyp # "end" => GroupBody(buf, num, end, g)[Begun(cur, TRUE)] =
        IF ConsumeFieldValue(buf[cur + 1], cur + 1, end, g) < 0 THEN Fails("decode")
        ELSE Begun(ConsumeFieldValue(buf[cur + 1], cur + 1, end, g), TRUE)
  /\ \A t \in Outcome(buf) : t.err # "run" => GroupBody(buf, num, end, g)[t] = t

LEMMA GroupUnfold ==
  ASSUME NEW buf, NEW num, NEW end, NEW start, NEW n, GroupArgs(buf, num, end, start, n),
         NEW cur \in 0 .. Len(buf), NEW g, g = ConsumeGroup(buf)[n - 1]
  PROVE  GroupUnfolds(buf, num, end, g, cur)
<1>0. Begun(cur, TRUE) \in Outcome(buf) /\ Begun(cur, TRUE).err = "run" /\ Begun(cur, TRUE).n = cur
  BY OutcomesType DEF GroupArgs, Begun
<1>1. PICK s : s = Begun(cur, TRUE)
  OBVIOUS
<1>2. GroupBody(buf, num, end, g)[s] =
        (LET tok == buf[s.n + 1]
             m == ConsumeFieldValue(tok, s.n + 1, end, g)
         IN  IF s.err # "run" THEN s
             ELSE IF s.n >= end THEN Fails("decode")
             ELSE IF tok.wtyp = "end"
                  THEN IF tok.num = num THEN Done(s.n + 1, TRUE) ELSE Fails("decode")
             ELSE IF m < 0 THEN Fails("decode") ELSE Begun(m, TRUE))
  BY <1>0, <1>1 DEF GroupBody
<1>3. cur < end => ~(cur >= end)
  BY DEF GroupArgs
<1>4. \A t \in Outcome(buf) : t.err # "run" => GroupBody(buf, num, end, g)[t] = t
  BY DEF GroupBody
<1> QED
  BY <1>0, <1>1, <1>2, <1>3, <1>4, Zenon DEF GroupUnfolds

LEMMA GroupOn ==
  ASSUME NEW buf, NEW num, NEW end, NEW start, NEW n, GroupArgs(buf, num, end, start, n),
         NEW cur \in 0 .. Len(buf), GroupRun(buf, num, end, start, cur, n),
         cur < end, buf[cur + 1].wtyp # "end", NEW m,
         m = ConsumeFieldValue(buf[cur + 1], cur + 1, end, ConsumeGroup(buf)[n - 1]), m > cur, m <= Len(buf), m \in Nat
  PROVE  GroupRun(buf, num, end, start, m, n)
<1>1. PICK g : g = ConsumeGroup(buf)[n - 1]
  OBVIOUS
<1>2. PICK body : body = GroupBody(buf, num, end, g)
  OBVIOUS
<1>3. body \in [Outcome(buf) -> Outcome(buf)] /\ Begun(start, TRUE) \in Outcome(buf)
  BY <1>1, <1>2, GroupFacts
<1>4. ~(m < 0)
  OBVIOUS
<1>5. body[Begun(cur, TRUE)] = Begun(m, TRUE)
  <2>1. GroupUnfolds(buf, num, end, g, cur)
    BY <1>1, GroupUnfold
  <2> QED
    BY <1>1, <1>2, <1>4, <2>1, Zenon DEF GroupUnfolds
<1>6. Begun(cur, TRUE) \in Outcome(buf) /\ Begun(cur, TRUE).n = cur /\ Begun(m, TRUE).n = m
  BY OutcomesType DEF GroupArgs, Begun
<1>7. Runs(body, Begun(start, TRUE), Begun(cur, TRUE))
  BY <1>1, <1>2 DEF GroupRun
<1>8. Runs(body, Begun(start, TRUE), body[Begun(cur, TRUE)])
  <2>1. buf \in Seq(Token)
    BY DEF GroupArgs
  <2>2. body[Begun(cur, TRUE)].n > Begun(cur, TRUE).n
    BY <1>5, <1>6
  <2> QED
    BY <1>3, <1>6, <1>7, <2>1, <2>2, RunStep
<1> QED
  BY <1>1, <1>2, <1>5, <1>8 DEF GroupRun

LEMMA GroupStops ==
  ASSUME NEW buf, NEW num, NEW end, NEW start, NEW n, GroupArgs(buf, num, end, start, n),
         NEW cur \in 0 .. Len(buf), GroupRun(buf, num, end, start, cur, n),
         NEW t \in Outcome(buf), t.err # "run",
         GroupBody(buf, num, end, ConsumeGroup(buf)[n - 1])[Begun(cur, TRUE)] = t
  PROVE  GroupGives(buf, num, end, start, n, t)
<1>1. PICK g : g = ConsumeGroup(buf)[n - 1]
  OBVIOUS
<1>2. PICK body : body = GroupBody(buf, num, end, g)
  OBVIOUS
<1>3. body \in [Outcome(buf) -> Outcome(buf)] /\ Begun(start, TRUE) \in Outcome(buf)
  BY <1>1, <1>2, GroupFacts
<1>4. body[Begun(cur, TRUE)] = t /\ body[t] = t
  <2>1. GroupUnfolds(buf, num, end, g, cur)
    BY <1>1, GroupUnfold
  <2> QED
    BY <1>1, <1>2, <2>1, Zenon DEF GroupUnfolds
<1>5. Begun(cur, TRUE) \in Outcome(buf) /\ buf \in Seq(Token)
  BY OutcomesType DEF GroupArgs
<1>6. Runs(body, Begun(start, TRUE), Begun(cur, TRUE))
  BY <1>1, <1>2 DEF GroupRun
<1>7. Loop(buf, body, Begun(start, TRUE)) = t
  BY <1>3, <1>4, <1>5, <1>6, RunEnd
<1> QED
  <2>1. GroupGives(buf, num, end, start, n,
              Loop(buf, GroupBody(buf, num, end, ConsumeGroup(buf)[n - 1]), Begun(start, TRUE)))
    BY GroupFacts
  <2> QED
    BY <1>1, <1>2, <1>7, <2>1

(* The contents of a group end with its end tag; they fail at the end of    *)
(* the slice, at another end tag and at a value that cannot be consumed.    *)
LEMMA GroupEnds ==
  ASSUME NEW buf, NEW num, NEW end, NEW start, NEW n, GroupArgs(buf, num, end, start, n),
         NEW cur \in 0 .. Len(buf), GroupRun(buf, num, end, start, cur, n)
  PROVE  /\ cur < end /\ buf[cur + 1].wtyp = "end" /\ buf[cur + 1].num = num =>
              GroupGives(buf, num, end, start, n, Done(cur + 1, TRUE))
         /\ \/ cur >= end
            \/ cur < end /\ buf[cur + 1].wtyp = "end" /\ buf[cur + 1].num # num
            \/ /\ cur < end /\ buf[cur + 1].wtyp # "end"
               /\ ConsumeFieldValue(buf[cur + 1], cur + 1, end, ConsumeGroup(buf)[n - 1]) < 0
            => GroupGives(buf, num, end, start, n, Fails("decode"))
<1>1. Fails("decode") \in Outcome(buf) /\ Fails("decode").err # "run"
  <2>1. 0 \in 0 .. Len(buf) /\ buf \in Seq(Token)
    BY DEF GroupArgs
  <2> QED BY <2>1, OutcomesType DEF Fails
<1>2. cur < end => Done(cur + 1, TRUE) \in Outcome(buf) /\ Done(cur + 1, TRUE).err # "run"
  <2>1. cur < end => cur + 1 \in 0 .. Len(buf) /\ buf \in Seq(Token)
    BY DEF GroupArgs
  <2> QED BY <2>1, OutcomesType DEF Done
<1>3. PICK g : g = ConsumeGroup(buf)[n - 1]
  OBVIOUS
<1>4. ASSUME cur < end, buf[cur + 1].wtyp = "end", buf[cur + 1].num = num
      PROVE  GroupGives(buf, num, end, start, n, Done(cur + 1, TRUE))
  <2>1. GroupBody(buf, num, end, g)[Begun(cur, TRUE)] = Done(cur + 1, TRUE)
    <3>1. GroupUnfolds(buf, num, end, g, cur)
      BY <1>3, GroupUnfold
    <3> QED
      BY <1>4, <3>1, Zenon DEF GroupUnfolds
  <2>2. PICK t : t = Done(cur + 1, TRUE)
    OBVIOUS
  <2>3. t \in Outcome(buf) /\ t.err # "run"
    BY <1>2, <1>4, <2>2
  <2>4. GroupBody(buf, num, end, ConsumeGroup(buf)[n - 1])[Begun(cur, TRUE)] = t
    BY <1>3, <2>1, <2>2
  <2> QED
    BY <2>2, <2>3, <2>4, GroupStops
<1>5. ASSUME \/ cur >= end
             \/ cur < end /\ buf[cur + 1].wtyp = "end" /\ buf[cur + 1].num # num
             \/ /\ cur < end /\ buf[cur + 1].wtyp # "end"
                /\ ConsumeFieldValue(buf[cur + 1], cur + 1, end, ConsumeGroup(buf)[n - 1]) < 0
      PROVE  GroupGives(buf, num, end, start, n, Fails("decode"))
  <2>1. GroupBody(buf, num, end, g)[Begun(cur, TRUE)] = Fails("decode")
    <3>1. GroupUnfolds(buf, num, end, g, cur)
      BY <1>3, GroupUnfold
    <3> QED
      BY <1>3, <1>5, <3>1, Zenon DEF GroupUnfolds
  <2>2. PICK t : t = Fails("decode")
    OBVIOUS
  <2>3. t \in Outcome(buf) /\ t.err # "run"
    BY <1>1, <2>2
  <2>4. GroupBody(buf, num, end, ConsumeGroup(buf)[n - 1])[Begun(cur, TRUE)] = t
    BY <1>3, <2>1, <2>2
  <2> QED
    BY <2>2, <2>3, <2>4, GroupStops
<1> QED
  BY <1>4, <1>5

-----------------------------------------------------------------------------
(* Where the loop of validate is. *)

(* The records before the one that a state of the stack is at. *)
Cur(j) ==
  IF j < Len(states) THEN states[j + 1].slice[1] - 1
  ELSE IF skip = <<>> THEN Len(input) ELSE skip[1].start - 1

(* The same of a group that is skipped. *)
SkipCur(k) == IF k < Len(skip) THEN skip[k + 1].start - 1 ELSE Len(input)

Root ==
  /\ states[1].slice = <<0, total>> /\ states[1].mi = Top /\ states[1].endGroup = groupTag
  /\ states[1].typ # "map" /\ states[1].level = 1 /\ states[1].tail = 0

Placed(j) ==
  /\ states[j].typ = "group" <=> states[j].endGroup # 0
  /\ states[j].endGroup # 0 => states[j].tail = 0
  /\ states[j].slice[1] <= Cur(j) /\ states[j].slice[1] <= states[j].slice[2]
  /\ states[j].slice[2] <= total /\ states[j].level <= deepest

Nested(j) ==
  /\ states[j + 1].slice[1] \in 1 .. Len(input)
  /\ states[j].slice[2] = states[j + 1].slice[2] + states[j + 1].tail
  /\ ChildOf(states[j], states[j + 1], input[states[j + 1].slice[1]], states[j + 1].slice[1])

Stack ==
  /\ states # <<>> /\ Root /\ st.slice[2] = Len(input) + b
  /\ \A j \in 1 .. Len(states) : Placed(j)
  /\ \A j \in 1 .. Len(states) : j < Len(states) => Nested(j)

Skipped(k) ==
  /\ skip[k].start \in 1 .. Len(input) /\ skip[k].start <= SkipCur(k)
  /\ input[skip[k].start].wtyp = "start" /\ input[skip[k].start].num = skip[k].num

SkipStack ==
  /\ Len(skip) <= DefaultRecursionLimit + 1
  /\ \A k \in 1 .. Len(skip) : Skipped(k)
  /\ skip # <<>> => FieldIn(st, skip[1].num).resolves /\ FieldIn(st, skip[1].num).typ # "group"

Layout ==
  /\ Len(input) <= total
  /\ result = "run" => Stack /\ SkipStack
  /\ result = "valid" => states = <<>> /\ Len(input) + b = total

-----------------------------------------------------------------------------
(* The slices of the stack add up. *)

LEMMA TailsDef ==
  ASSUME NEW stack \in Seq(validationState)
  PROVE  \E f : /\ Tails(stack) = f[Len(stack)] /\ f[0] = 0
                /\ \A i \in 1 .. Len(stack) : f[i] = f[i - 1] + stack[i].tail
<1> DEFINE add(i) == IF i + 1 \in 1 .. Len(stack) THEN stack[i + 1].tail ELSE 0
           step == [p \in Nat \X Nat |-> <<p[1] + 1, p[2] + add(p[1])>>]
           sum(f) == [i \in 0 .. Len(stack) |-> IF i = 0 THEN 0 ELSE f[i - 1] + stack[i].tail]
<1>0. \A i \in 1 .. Len(stack) : stack[i] \in validationState
  OBVIOUS
<1>1. Len(stack) \in Nat /\ \A i \in 1 .. Len(stack) : stack[i].tail \in Nat
  <2>1. \A x \in validationState : x.tail \in Nat
    BY DEF validationState
  <2> QED
    BY <1>0, <2>1
<1>2. \A i \in Nat : add(i) \in Nat
  BY <1>1
<1>3. step \in [Nat \X Nat -> Nat \X Nat]
  BY <1>2
<1>4. PICK g : Follows(g, Nat \X Nat, <<0, 0>>, step)
  BY <1>3, Recursion
<1>5. g \in [Nat -> Nat \X Nat] /\ g[0] = <<0, 0>>
  BY <1>4, Zenon DEF Follows
<1>6. \A i \in Nat : g[i + 1] = <<g[i][1] + 1, g[i][2] + add(g[i][1])>>
  BY <1>4, <1>5 DEF Follows
<1>a. ASSUME NEW i \in Nat
      PROVE  g[i + 1][1] = g[i][1] + 1
  <2>1. PICK c, d : c = g[i][1] + 1 /\ d = g[i][2] + add(g[i][1])
    OBVIOUS
  <2>2. g[i + 1] = <<c, d>>
    BY <1>6, <2>1
  <2> QED
    BY <2>1, <2>2
<1>7. \A i \in Nat : g[i][1] = i
  <2> DEFINE T == {i \in Nat : g[i][1] = i}
  <2>1. 0 \in T
    BY <1>5
  <2>2. ASSUME NEW m \in Nat, m \in T
        PROVE  m + 1 \in T
    <3>1. g[m][1] = m
      BY <2>2
    <3>2. g[m + 1][1] = m + 1
      BY <1>a, <3>1
    <3> QED
      BY <3>2
  <2> HIDE DEF T
  <2>3. Nat \subseteq T
    BY <2>1, <2>2, InductiveSet
  <2> QED
    BY <2>3 DEF T
<1> DEFINE h == [i \in 0 .. Len(stack) |-> g[i][2]]
<1>8. h = sum(h)
  <2>1. ASSUME NEW i \in 1 .. Len(stack)
        PROVE  h[i] = h[i - 1] + stack[i].tail
    <3>1. i - 1 \in Nat /\ (i - 1) + 1 = i /\ i - 1 \in 0 .. Len(stack)
      BY <1>1
    <3>2. g[i] = <<g[i - 1][1] + 1, g[i - 1][2] + add(g[i - 1][1])>>
      BY <1>6, <3>1
    <3>3. g[i][2] = g[i - 1][2] + stack[i].tail
      BY <1>7, <3>1, <3>2
    <3> QED
      BY <3>1, <3>3
  <2>2. h[0] = 0
    BY <1>1, <1>5
  <2>3. ASSUME NEW i \in 0 .. Len(stack)
        PROVE  h[i] = sum(h)[i]
    <3>1. i = 0 \/ i \in 1 .. Len(stack)
      BY <1>1
    <3>2. sum(h)[i] = IF i = 0 THEN 0 ELSE h[i - 1] + stack[i].tail
      BY Zenon
    <3> HIDE DEF h
    <3> QED
      BY <2>1, <2>2, <3>1, <3>2
  <2> QED
    BY <2>3
<1> HIDE DEF h
<1>9. PICK f : f = CHOOSE table : table = sum(table)
  OBVIOUS
<1>10. f = sum(f)
  BY <1>8, <1>9
<1>11. Tails(stack) = f[Len(stack)]
  BY <1>9 DEF Tails
<1> QED
  BY <1>1, <1>10, <1>11

(* What was read and the slices of the stack make up the buffer. *)
LEMMA AddsUp ==
  ASSUME TypeOK, Layout
  PROVE  SlicesAddUp
<1>1. CASE result = "valid"
  <2>1. states = <<>> /\ Len(states) = 0
    BY <1>1 DEF Layout
  <2>2. Tails(states) = 0
    BY <2>1, TailsDef DEF TypeOK
  <2> QED
    BY <1>1, <2>2 DEF Layout, SlicesAddUp, TypeOK
<1>2. CASE result = "run"
  <2>1. PICK f : /\ Tails(states) = f[Len(states)] /\ f[0] = 0
                 /\ \A i \in 1 .. Len(states) : f[i] = f[i - 1] + states[i].tail
    BY TailsDef DEF TypeOK
  <2>2. Stack /\ Len(states) \in Nat /\ Len(states) > 0
    BY <1>2 DEF Layout, Stack, TypeOK
  <2>3. ASSUME NEW i \in 1 .. Len(states)
        PROVE  states[i].tail \in Nat /\ states[i].slice[2] \in Nat
    <3>1. states[i] \in validationState
      BY DEF TypeOK
    <3> QED
      BY <3>1 DEF validationState
  <2> DEFINE T == {i \in Nat : i + 1 \in 1 .. Len(states) => f[i + 1] = total - states[i + 1].slice[2]}
  <2>4. 0 \in T
    <3>1. f[1] = 0 /\ states[1].slice[2] = total
      BY <2>1, <2>2 DEF Stack, Root
    <3> QED
      BY <3>1 DEF TypeOK
  <2>5. ASSUME NEW m \in Nat, m \in T
        PROVE  m + 1 \in T
    <3>1. SUFFICES ASSUME m + 2 \in 1 .. Len(states)
                   PROVE  f[m + 2] = total - states[m + 2].slice[2]
      OBVIOUS
    <3>2. m + 1 \in 1 .. Len(states) /\ m + 1 < Len(states) /\ (m + 1) + 1 = m + 2 /\ (m + 2) - 1 = m + 1
      BY <2>2, <3>1
    <3>3. f[m + 1] = total - states[m + 1].slice[2]
      BY <2>5, <3>2
    <3>4. Nested(m + 1)
      BY <2>2, <3>2 DEF Stack
    <3>5. states[m + 1].slice[2] = states[m + 2].slice[2] + states[m + 2].tail
      BY <3>2, <3>4 DEF Nested
    <3>6. f[m + 2] = f[m + 1] + states[m + 2].tail
      BY <2>1, <3>1, <3>2
    <3>7. total \in Nat /\ states[m + 1].slice[2] \in Nat /\ states[m + 2].slice[2] \in Nat /\ states[m + 2].tail \in Nat
      BY <2>3, <3>1, <3>2 DEF TypeOK
    <3> QED
      BY <3>3, <3>5, <3>6, <3>7
  <2> HIDE DEF T
  <2>6. Nat \subseteq T
    BY <2>4, <2>5, InductiveSet
  <2>7. f[Len(states)] = total - states[Len(states)].slice[2]
    <3>1. Len(states) - 1 \in T
      BY <2>2, <2>6
    <3> QED
      BY <2>2, <3>1 DEF T
  <2>8. states[Len(states)].slice[2] = Len(input) + b
    BY <2>2 DEF Stack, st
  <2> QED
    BY <2>1, <2>7, <2>8 DEF SlicesAddUp, TypeOK
<1> QED
  BY <1>1, <1>2 DEF SlicesAddUp

-----------------------------------------------------------------------------
(* The steps of validate keep the types. *)

(* Two states that differ at most in their masks. *)
Same(x, y) ==
  /\ x.typ = y.typ /\ x.mi = y.mi /\ x.endGroup = y.endGroup /\ x.tail = y.tail
  /\ x.slice = y.slice /\ x.level = y.level

(* The input goes on. *)
Grows ==
  /\ groupTag' = groupTag /\ total' = total /\ Len(input) <= Len(input')
  /\ \A i \in 1 .. Len(input) : input'[i] = input[i]

Contained(c, tok) == c \in Contents(tok.size) \cup {<<>>}

LEMMA ReadFacts ==
  ASSUME TypeOK, NEW tok \in Tokens, NEW c, Contained(c, tok), Read(tok, c)
  PROVE  /\ Grows /\ input' \in Seq(Token) /\ Len(input') = Len(input) + 1 + Len(c)
         /\ input'[Len(input) + 1] = tok /\ Len(c) \in Nat /\ b > Len(c) /\ result = "run"
         /\ tok \in Token /\ tok.num \in Nat \ {0} /\ tok.size \in Nat /\ tok.wtyp \in WireTypes
         /\ tok.utf8 \in BOOLEAN
<1>1. tok \in Token /\ Opaque \subseteq Token
  BY ValidateAssumption
<1>2. tok.num \in Nat \ {0} /\ tok.size \in Nat /\ tok.wtyp \in WireTypes /\ tok.utf8 \in BOOLEAN
  BY <1>1 DEF Token
<1>3. c \in Seq(Token)
  <2>1. CASE c = <<>>
    BY <2>1
  <2>2. CASE c \in [1 .. tok.size -> Opaque]
    BY <1>1, <1>2, <2>2
  <2> QED
    BY <2>1, <2>2 DEF Contained, Contents
<1>4. Append(input, tok) \in Seq(Token) /\ Len(Append(input, tok)) = Len(input) + 1
      /\ (\A i \in 1 .. Len(input) : Append(input, tok)[i] = input[i])
      /\ Append(input, tok)[Len(input) + 1] = tok
  BY <1>1 DEF TypeOK
<1>5. PICK e : e = Append(input, tok)
  OBVIOUS
<1>6. input' = e \o c /\ groupTag' = groupTag /\ total' = total /\ result = "run" /\ b > Len(c)
  BY <1>5 DEF Read
<1>7. input \in Seq(Token) /\ Len(input) \in Nat /\ Len(c) \in Nat
  BY <1>3 DEF TypeOK
<1>8. input' \in Seq(Token) /\ Len(input') = Len(e) + Len(c) /\ \A i \in 1 .. Len(e) : input'[i] = e[i]
  BY <1>3, <1>4, <1>5, <1>6
<1>9. Grows /\ Len(input') = Len(input) + 1 + Len(c) /\ input'[Len(input) + 1] = tok
  BY <1>4, <1>5, <1>6, <1>7, <1>8 DEF Grows
<1> QED
  BY <1>1, <1>2, <1>6, <1>7, <1>8, <1>9

LEMMA MarkedFacts ==
  ASSUME TypeOK, states # <<>>, NEW tok, tok.num \in Nat
  PROVE  /\ Marked(tok) \in Seq(validationState) /\ Len(Marked(tok)) = Len(states)
         /\ \A j \in 1 .. Len(states) : Same(Marked(tok)[j], states[j])
         /\ \A j \in 1 .. Len(states) : j < Len(states) => Marked(tok)[j] = states[j]
         /\ Marked(tok)[Len(states)].requiredMask = st.requiredMask \cup Bit(tok)
<1>1. Len(states) \in Nat \ {0} /\ st \in validationState
  BY DEF TypeOK, st
<1>2. Bit(tok) \in SUBSET (0 .. MaskBits - 1)
  <2>1. st.typ # "map" => st.mi \in DOMAIN Schema
    BY <1>1 DEF validationState
  <2>2. requiredBit(st.mi, tok.num) \in SUBSET (0 .. MaskBits - 1)
    BY <1>1, requiredBitType DEF validationState
  <2>3. {0 : i \in {2} \cap {tok.num}} \in SUBSET (0 .. MaskBits - 1)
    BY ValidateAssumption
  <2> QED
    BY <2>2, <2>3 DEF Bit
<1>3. PICK bits : bits = Bit(tok)
  OBVIOUS
<1>4. PICK m : m = st.requiredMask \cup bits
  OBVIOUS
<1>5. m \in SUBSET (0 .. MaskBits - 1)
  BY <1>1, <1>2, <1>3, <1>4 DEF validationState
<1>6. PICK x : x = [st EXCEPT !.requiredMask = m]
  OBVIOUS
<1>7. x \in validationState /\ Same(x, st) /\ x.requiredMask = m
  <2>1. x \in validationState /\ x.requiredMask = m
    BY <1>1, <1>5, <1>6 DEF validationState
  <2>2. Same(x, st)
    BY <1>1, <1>6 DEF validationState, Same
  <2> QED
    BY <2>1, <2>2
<1>8. Marked(tok) = [states EXCEPT ![Len(states)] = x]
  BY <1>3, <1>4, <1>6, Zenon DEF Marked, st
<1>9. Marked(tok) \in Seq(validationState) /\ Len(Marked(tok)) = Len(states)
  BY <1>1, <1>7, <1>8 DEF TypeOK
<1>10. \A j \in 1 .. Len(states) : Marked(tok)[j] = IF j = Len(states) THEN x ELSE states[j]
  BY <1>1, <1>8 DEF TypeOK
<1>11. \A j \in 1 .. Len(states) : Same(states[j], states[j])
  BY Zenon DEF Same
<1>12. \A j \in 1 .. Len(states) : Same(Marked(tok)[j], states[j])
  BY <1>7, <1>10, <1>11 DEF st
<1>13. Marked(tok)[Len(states)].requiredMask = m
  BY <1>1, <1>7, <1>10
<1> QED
  BY <1>1, <1>3, <1>4, <1>9, <1>10, <1>12, <1>13

(* The state that a record pushes. *)
Child(tok, endGroup, tail, size) ==
  State(vi(tok.num).typ, vi(tok.num).mi, endGroup, tail, <<Len(input) + 1, Len(input) + 1 + size>>,
        IF vi(tok.num).typ = "map" THEN st.level ELSE st.level + 1)

ChildIs(y, tok, endGroup, tail, size) ==
  /\ y \in validationState /\ y.typ = vi(tok.num).typ /\ y.mi = vi(tok.num).mi
  /\ y.endGroup = endGroup /\ y.tail = tail /\ y.requiredMask = {}
  /\ y.slice[1] = Len(input) + 1 /\ y.slice[2] = Len(input) + 1 + size
  /\ y.level = IF vi(tok.num).typ = "map" THEN st.level ELSE st.level + 1

LEMMA ChildFacts ==
  ASSUME TypeOK, states # <<>>, NEW tok, tok.num \in Nat \ {0}, NEW endGroup \in Nat, NEW tail \in Nat, NEW size \in Nat,
         vi(tok.num).typ \in {"message", "group", "map"}, vi(tok.num).mi # Nil
  PROVE  ChildIs(Child(tok, endGroup, tail, size), tok, endGroup, tail, size)
<1>1. Len(states) \in Nat \ {0} /\ st \in validationState /\ Len(input) \in Nat
  BY DEF TypeOK, st
<1>2. st.level \in Nat \ {0}
  BY <1>1 DEF validationState
<1>3. vi(tok.num).mi \in DOMAIN Schema
  BY <1>1, FieldInType DEF vi
<1>4. PICK f : f = vi(tok.num)
  OBVIOUS
<1>5. PICK l : l = IF f.typ = "map" THEN st.level ELSE st.level + 1
  OBVIOUS
<1>6. l \in Nat \ {0}
  BY <1>2, <1>5
<1>7. PICK y : y = State(f.typ, f.mi, endGroup, tail, <<Len(input) + 1, Len(input) + 1 + size>>, l)
  OBVIOUS
<1>8. y = Child(tok, endGroup, tail, size)
  BY <1>4, <1>5, <1>7, Zenon DEF Child
<1>9. y \in validationState /\ y.typ = f.typ /\ y.mi = f.mi /\ y.endGroup = endGroup /\ y.tail = tail
      /\ y.requiredMask = {} /\ y.slice[1] = Len(input) + 1 /\ y.slice[2] = Len(input) + 1 + size /\ y.level = l
  BY <1>1, <1>3, <1>4, <1>6, <1>7 DEF State, validationState
<1> QED
  BY <1>4, <1>5, <1>8, <1>9 DEF ChildIs

(* What a step that pushes a state does. *)
Pushes(tok, y, size) ==
  /\ states' = Append(Marked(tok), y) /\ b' = size /\ deepest' = IF y.level > deepest THEN y.level ELSE deepest
  /\ unreported' = (unreported \/ Unreported(tok))
  /\ skip' = skip /\ initialized' = initialized /\ result' = result

LEMMA PushFacts ==
  ASSUME TypeOK, states # <<>>, NEW tok, tok.num \in Nat \ {0}, NEW endGroup \in Nat, NEW tail \in Nat, NEW size \in Nat,
         vi(tok.num).typ \in {"message", "group", "map"}, vi(tok.num).mi # Nil, Push(tok, endGroup, tail, size),
         NEW y, y = Child(tok, endGroup, tail, size)
  PROVE  Pushes(tok, y, size)
<1>1. PICK l : l = IF vi(tok.num).typ = "map" THEN st.level ELSE st.level + 1
  OBVIOUS
<1>4. ChildIs(y, tok, endGroup, tail, size)
  BY ChildFacts
<1>2. y.level = l
  BY <1>1, <1>4, Zenon DEF ChildIs
<1>3. y = State(vi(tok.num).typ, vi(tok.num).mi, endGroup, tail, <<Len(input) + 1, Len(input) + 1 + size>>, l)
  BY <1>1, Zenon DEF Child
<1> QED
  BY <1>1, <1>2, <1>3, Zenon DEF Push, Pushes

LEMMA Running ==
  ASSUME TypeOK, Layout, result = "run"
  PROVE  /\ Stack /\ SkipStack /\ states # <<>> /\ Len(states) \in Nat \ {0} /\ st \in validationState
         /\ st.slice[1] \in Nat /\ st.slice[2] \in Nat /\ st.tail \in Nat /\ st.endGroup \in Nat /\ st.level \in Nat \ {0}
         /\ Len(input) \in Nat /\ Len(skip) \in Nat /\ b \in Nat /\ total \in Nat /\ deepest \in Nat
<1>1. Stack /\ SkipStack /\ states # <<>>
  BY DEF Layout, Stack
<1>2. Len(states) \in Nat \ {0} /\ st \in validationState
  BY <1>1 DEF TypeOK, st
<1>3. st.slice[1] \in Nat /\ st.slice[2] \in Nat /\ st.tail \in Nat /\ st.endGroup \in Nat /\ st.level \in Nat \ {0}
  BY <1>2 DEF validationState
<1> QED
  BY <1>1, <1>2, <1>3 DEF TypeOK

(* The states below the top one, when it is popped. *)
LEMMA PopFacts ==
  ASSUME TypeOK, states # <<>>, NEW rest, PopState(rest)
  PROVE  /\ states' \in Seq(validationState) /\ Len(states') = Len(states) - 1
         /\ \A j \in 1 .. Len(states) - 1 : states'[j] = states[j]
         /\ b' = rest /\ skip' = skip /\ deepest' = deepest /\ unreported' = unreported
         /\ initialized' = (initialized /\ AllSeen(st.requiredMask, NumRequired))
         /\ result' = IF Len(states) = 1 THEN "valid" ELSE "run"
<1>1. states' = SubSeq(states, 1, Len(states) - 1)
  BY DEF PopState
<1>2. Len(states) \in Nat \ {0}
  BY DEF TypeOK
<1>a. PICK V : V = validationState
  OBVIOUS
<1>b. states \in Seq(V)
  BY <1>a DEF TypeOK
<1>c. SubSeq(states, 1, Len(states) - 1) \in Seq(V)
  BY <1>b, <1>2
<1>d. Len(SubSeq(states, 1, Len(states) - 1)) = Len(states) - 1
  BY <1>b, <1>2
<1>3. states' \in Seq(validationState) /\ Len(states') = Len(states) - 1
  BY <1>1, <1>a, <1>c, <1>d
<1>4. \A j \in 1 .. Len(states) - 1 : states'[j] = states[j]
  BY <1>1, <1>2 DEF TypeOK
<1> QED
  BY <1>3, <1>4, Zenon DEF PopState

LEMMA PoppedType ==
  ASSUME TypeOK, states # <<>>, NEW rest \in Nat, PopState(rest), groupTag' = groupTag, total' = total,
         input' \in Seq(Token)
  PROVE  TypeOK'
<1>1. /\ states' \in Seq(validationState) /\ b' = rest /\ skip' = skip /\ deepest' = deepest /\ unreported' = unreported
      /\ result' = IF Len(states) = 1 THEN "valid" ELSE "run"
  BY PopFacts
<1>2. initialized' = (initialized /\ AllSeen(st.requiredMask, NumRequired))
  BY PopFacts
<1>3. initialized' \in BOOLEAN
  BY <1>2, Zenon
<1> QED
  BY <1>1, <1>3 DEF TypeOK

LEMMA ReturnedType ==
  ASSUME TypeOK, NEW status \in {"invalid", "unknown"}, Return(status), groupTag' = groupTag, total' = total,
         input' \in Seq(Token)
  PROVE  TypeOK'
BY DEF TypeOK, Return

LEMMA PushedType ==
  ASSUME TypeOK, states # <<>>, NEW tok, tok.num \in Nat \ {0}, NEW y \in validationState, NEW size \in Nat,
         Pushes(tok, y, size), groupTag' = groupTag, total' = total, input' \in Seq(Token)
  PROVE  TypeOK'
<1>1. Marked(tok) \in Seq(validationState)
  BY MarkedFacts
<1>2. states' \in Seq(validationState)
  BY <1>1 DEF Pushes
<1>3. unreported' \in BOOLEAN
  BY Zenon DEF Pushes
<1>4. y.level \in Nat
  BY DEF validationState
<1> QED
  BY <1>2, <1>3, <1>4 DEF Pushes, TypeOK

(* The step over a field that is not validated. *)
LEMMA PassedType ==
  ASSUME TypeOK, Layout, NEW tok \in Tokens, NEW c, Contained(c, tok), PassOver(tok, c)
  PROVE  TypeOK'
<1>1. Read(tok, c) /\ result = "run"
  BY DEF PassOver, Field, Read
<1>2. /\ Grows /\ input' \in Seq(Token) /\ Len(c) \in Nat /\ b > Len(c) /\ tok.num \in Nat \ {0}
  BY <1>1, ReadFacts
<1>3. states # <<>> /\ b \in Nat /\ Len(input) \in Nat
  BY <1>1, Running
<1>4. states' \in Seq(validationState)
  BY <1>2, <1>3, MarkedFacts DEF PassOver
<1>5. Open(tok) \in [num : Nat \ {0}, start : Nat]
  BY <1>2, <1>3 DEF Open
<1>a. PICK P : P = [num : Nat \ {0}, start : Nat]
  OBVIOUS
<1>b. << Open(tok) >> \in Seq(P) /\ <<>> \in Seq(P)
  BY <1>5, <1>a
<1>6. skip' \in Seq([num : Nat \ {0}, start : Nat])
  BY <1>a, <1>b, Zenon DEF PassOver
<1>7. b' \in Nat
  BY <1>2, <1>3 DEF PassOver
<1> QED
  BY <1>2, <1>4, <1>6, <1>7 DEF PassOver, TypeOK, Grows

LEMMA SkippedType ==
  ASSUME TypeOK, Layout, NEW tok \in Tokens, NEW c, Contained(c, tok), SkipField(tok, c)
  PROVE  TypeOK'
<1>1. Read(tok, c) /\ result = "run"
  BY DEF SkipField, Read
<1>2. /\ Grows /\ input' \in Seq(Token) /\ Len(c) \in Nat /\ b > Len(c) /\ tok.num \in Nat \ {0}
  BY <1>1, ReadFacts
<1>3. b \in Nat /\ Len(input) \in Nat /\ Len(skip) \in Nat
  BY <1>1, Running
<1>4. CASE Return("invalid")
  BY <1>2, <1>4, ReturnedType DEF Grows
<1>5. CASE ~Return("invalid")
  <2>1. /\ b' = b - 1 - Len(c) /\ UNCHANGED <<states, initialized, result, deepest, unreported>>
        /\ \/ skip' = skip \/ skip' = Append(skip, Open(tok)) \/ skip' = SubSeq(skip, 1, Len(skip) - 1)
    BY <1>5, Zenon DEF SkipField
  <2>2. Open(tok) \in [num : Nat \ {0}, start : Nat]
    BY <1>2, <1>3 DEF Open
  <2>3. PICK P : P = [num : Nat \ {0}, start : Nat]
    OBVIOUS
  <2>4. skip \in Seq(P) /\ skip # <<>>
    BY <2>3 DEF TypeOK, SkipField
  <2>5. SubSeq(skip, 1, Len(skip) - 1) \in Seq(P)
    BY <2>4
  <2>6. Append(skip, Open(tok)) \in Seq(P)
    BY <2>2, <2>3, <2>4
  <2>7. skip' \in Seq(P)
    BY <2>1, <2>4, <2>5, <2>6
  <2>8. b' \in Nat
    BY <1>2, <1>3, <2>1
  <2> QED
    BY <1>2, <2>1, <2>3, <2>7, <2>8 DEF TypeOK, Grows
<1> QED
  BY <1>4, <1>5

LEMMA EntersType ==
  ASSUME TypeOK, Layout, NEW tok \in Tokens, Enter(tok) \/ EnterGroup(tok)
  PROVE  TypeOK'
<1>1. Read(tok, <<>>) /\ result = "run" /\ vi(tok.num).typ \in {"message", "group", "map"} /\ vi(tok.num).mi # Nil
  BY DEF Enter, EnterGroup, Field, Read
<1>2. /\ Grows /\ input' \in Seq(Token) /\ b > 0 /\ tok.num \in Nat \ {0} /\ tok.size \in Nat
  BY <1>1, ReadFacts DEF Contained
<1>3. states # <<>> /\ b \in Nat
  BY <1>1, Running
<1>4. ASSUME NEW endGroup \in Nat, NEW tail \in Nat, NEW size \in Nat, Push(tok, endGroup, tail, size)
      PROVE  TypeOK'
  <2>1. PICK y : y = Child(tok, endGroup, tail, size)
    OBVIOUS
  <2>2. Pushes(tok, y, size)
    BY <1>1, <1>2, <1>3, <1>4, <2>1, PushFacts
  <2>3. ChildIs(y, tok, endGroup, tail, size)
    BY <1>1, <1>2, <1>3, <2>1, ChildFacts
  <2>4. y \in validationState
    BY <2>3, Zenon DEF ChildIs
  <2> QED
    BY <1>2, <1>3, <2>2, <2>4, PushedType DEF Grows
<1>5. CASE Enter(tok)
  <2>1. tok.size < b /\ Push(tok, 0, b - 1 - tok.size, tok.size)
    BY <1>5 DEF Enter
  <2>2. b - 1 - tok.size \in Nat
    BY <1>2, <1>3, <2>1
  <2> QED
    BY <1>2, <1>4, <2>1, <2>2
<1>6. CASE EnterGroup(tok)
  <2>1. Push(tok, tok.num, 0, b - 1) /\ b - 1 \in Nat
    BY <1>2, <1>3, <1>6 DEF EnterGroup
  <2> QED
    BY <1>2, <1>4, <2>1
<1> QED
  BY <1>5, <1>6

LEMMA ActionsType ==
  ASSUME TypeOK, Layout, NEW tok \in Tokens, EndGroup(tok) \/ Undecided(tok) \/ Malformed(tok)
  PROVE  TypeOK'
<1>1. Read(tok, <<>>)
  BY DEF EndGroup, Undecided, Malformed, Field
<1>2. /\ Grows /\ input' \in Seq(Token) /\ b > 0 /\ result = "run"
  BY <1>1, ReadFacts DEF Contained
<1>3. states # <<>> /\ b \in Nat
  BY <1>2, Running
<1>4. CASE \E status \in {"invalid", "unknown"} : Return(status)
  BY <1>2, <1>4, ReturnedType DEF Grows
<1>5. CASE PopState(b - 1)
  <2>1. b - 1 \in Nat
    BY <1>2, <1>3
  <2> QED
    BY <1>2, <1>3, <1>5, <2>1, PoppedType DEF Grows
<1> QED
  BY <1>4, <1>5 DEF EndGroup, Undecided, Malformed

LEMMA EndOfSliceType ==
  ASSUME TypeOK, Layout, EndOfSlice
  PROVE  TypeOK'
<1>1. result = "run" /\ groupTag' = groupTag /\ total' = total /\ input' \in Seq(Token)
  BY DEF EndOfSlice, TypeOK
<1>2. states # <<>> /\ st.tail \in Nat
  BY <1>1, Running
<1>3. CASE PopState(st.tail)
  BY <1>1, <1>2, <1>3, PoppedType
<1>4. CASE Return("invalid")
  BY <1>1, <1>4, ReturnedType
<1> QED
  BY <1>3, <1>4 DEF EndOfSlice

-----------------------------------------------------------------------------
(* The steps of validate keep the layout of the stack. *)

(* A state that has not changed but for its mask. *)
LEMMA SameFrame ==
  ASSUME NEW x, NEW y, Same(x, y)
  PROVE  /\ \A num : FieldIn(x, num) = FieldIn(y, num)
         /\ \A buf, sub : FrameBody(buf, x, sub) = FrameBody(buf, y, sub)
         /\ FrameFirst(x) = FrameFirst(y) /\ \A buf : Sub(buf, x) = Sub(buf, y)
         /\ \A z, tok, at : ChildOf(x, z, tok, at) <=> ChildOf(y, z, tok, at)
         /\ \A z, tok, at : ChildOf(z, x, tok, at) <=> ChildOf(z, y, tok, at)
<1>1. /\ x.typ = y.typ /\ x.mi = y.mi /\ x.endGroup = y.endGroup /\ x.tail = y.tail
      /\ x.slice = y.slice /\ x.level = y.level
  BY Zenon DEF Same
<1>2. \A num : FieldIn(x, num) = FieldIn(y, num)
  BY <1>1, Zenon DEF FieldIn
<1>3. \A buf, sub : FrameBody(buf, x, sub) = FrameBody(buf, y, sub)
  BY <1>1, Zenon DEF FrameBody
<1>4. FrameFirst(x) = FrameFirst(y) /\ \A buf : Sub(buf, x) = Sub(buf, y)
  BY <1>1, Zenon DEF FrameFirst, Sub
<1>5. \A z, tok, at : ChildOf(x, z, tok, at) <=> ChildOf(y, z, tok, at)
  BY <1>1, <1>2 DEF ChildOf
<1>6. \A z, tok, at : ChildOf(z, x, tok, at) <=> ChildOf(z, y, tok, at)
  BY <1>1 DEF ChildOf
<1> QED
  BY <1>2, <1>3, <1>4, <1>5, <1>6

(* The first L states of the stack are those of before. *)
Below(L) ==
  /\ L <= Len(states) /\ L <= Len(states') /\ L > 0
  /\ \A j \in 1 .. L : Same(states'[j], states[j])

LEMMA BelowNested ==
  ASSUME TypeOK, TypeOK', Stack, Grows, NEW L \in Nat, Below(L)
  PROVE  Root' /\ \A j \in 1 .. L : j < L => Nested(j)'
<1>1. L \in 1 .. Len(states) /\ L \in 1 .. Len(states') /\ Len(states) \in Nat /\ Len(states') \in Nat
  BY DEF Below, TypeOK
<1>2. Root'
  <2>1. Same(states'[1], states[1])
    BY <1>1 DEF Below
  <2>2. Root
    BY DEF Stack
  <2> QED
    BY <2>1, <2>2, Zenon DEF Root, Same, Grows
<1>3. ASSUME NEW j \in 1 .. L, j < L
      PROVE  Nested(j)'
  <2>1. j + 1 \in 1 .. L /\ j < Len(states) /\ j \in 1 .. Len(states)
    BY <1>1, <1>3
  <2>2. Same(states'[j], states[j]) /\ Same(states'[j + 1], states[j + 1])
    BY <2>1 DEF Below
  <2>3. Nested(j)
    BY <2>1 DEF Stack
  <2>4. PICK at : at = states[j + 1].slice[1]
    OBVIOUS
  <2>5. at \in 1 .. Len(input) /\ at = states'[j + 1].slice[1]
    BY <2>2, <2>3, <2>4 DEF Nested, Same
  <2>6. input'[at] = input[at] /\ at \in 1 .. Len(input')
    <3>1. Len(input) \in Nat /\ Len(input') \in Nat
      <4>1. input \in Seq(Token) /\ input' \in Seq(Token)
        BY Zenon DEF TypeOK
      <4> QED BY <4>1
    <3>2. Len(input) <= Len(input') /\ input'[at] = input[at]
      BY <2>5, Zenon DEF Grows
    <3> QED
      BY <2>5, <3>1, <3>2
  <2>7. ChildOf(states[j], states[j + 1], input[at], at)
    BY <2>3, <2>4, Zenon DEF Nested
  <2>8. ChildOf(states'[j], states'[j + 1], input'[at], at)
    <3>1. \A z, tok, p : ChildOf(states'[j], z, tok, p) <=> ChildOf(states[j], z, tok, p)
      BY <2>2, SameFrame
    <3>2. \A z, tok, p : ChildOf(z, states'[j + 1], tok, p) <=> ChildOf(z, states[j + 1], tok, p)
      BY <2>2, SameFrame
    <3> QED
      BY <2>6, <2>7, <3>1, <3>2
  <2>9. states'[j].slice[2] = states'[j + 1].slice[2] + states'[j + 1].tail
    BY <2>2, <2>3, Zenon DEF Nested, Same
  <2> QED
    BY <2>5, <2>6, <2>8, <2>9, Zenon DEF Nested
<1> QED
  BY <1>2, <1>3

(* A state keeps its place when what it has read goes on. *)
LEMMA BelowPlaced ==
  ASSUME TypeOK, TypeOK', Grows, deepest <= deepest', NEW j \in 1 .. Len(states), j <= Len(states'),
         Placed(j), Same(states'[j], states[j]), states'[j].slice[1] <= Cur(j)'
  PROVE  Placed(j)'
<1>1. /\ states'[j].typ = states[j].typ /\ states'[j].endGroup = states[j].endGroup
      /\ states'[j].tail = states[j].tail /\ states'[j].slice = states[j].slice /\ states'[j].level = states[j].level
  BY Zenon DEF Same
<1>2. states[j].level \in Nat
  <2>1. states[j] \in validationState
    BY DEF TypeOK
  <2> QED
    BY <2>1 DEF validationState
<1>3. states'[j].level <= deepest'
  BY <1>1, <1>2 DEF Placed, TypeOK
<1> QED
  BY <1>1, <1>3, Zenon DEF Placed, Grows

(* The states below the top one, and what is kept of them. *)
LEMMA BelowTop ==
  ASSUME TypeOK, TypeOK', Stack, Grows, deepest <= deepest', NEW L \in Nat, Below(L),
         NEW j \in 1 .. L, j < L
  PROVE  Placed(j)'
<1>1. L \in 1 .. Len(states) /\ L \in 1 .. Len(states') /\ Len(states) \in Nat /\ Len(states') \in Nat
  BY DEF Below, TypeOK
<1>2. j \in 1 .. Len(states) /\ j < Len(states) /\ j < Len(states') /\ j + 1 \in 1 .. L
  BY <1>1
<1>3. Same(states'[j], states[j]) /\ Same(states'[j + 1], states[j + 1])
  BY <1>2 DEF Below
<1>4. Placed(j)
  BY <1>2 DEF Stack
<1>5. Cur(j) = states[j + 1].slice[1] - 1 /\ Cur(j)' = states'[j + 1].slice[1] - 1
  BY <1>2 DEF Cur
<1>6. states'[j].slice[1] <= Cur(j)'
  BY <1>3, <1>4, <1>5, Zenon DEF Placed, Same
<1> QED
  BY <1>1, <1>2, <1>3, <1>4, <1>6, BelowPlaced

LEMMA SkipType ==
  ASSUME NEW s \in Seq([num : Nat \ {0}, start : Nat])
  PROVE  /\ Len(s) \in Nat /\ (s # <<>> <=> Len(s) > 0)
         /\ \A k \in 1 .. Len(s) : s[k].start \in Nat /\ s[k].num \in Nat \ {0}
<1>1. PICK P : P = [num : Nat \ {0}, start : Nat]
  OBVIOUS
<1>2. s \in Seq(P)
  BY <1>1
<1>3. Len(s) \in Nat /\ (s # <<>> <=> Len(s) > 0) /\ \A k \in 1 .. Len(s) : s[k] \in P
  BY <1>2
<1>4. \A p \in P : p.start \in Nat /\ p.num \in Nat \ {0}
  BY <1>1
<1> QED
  BY <1>3, <1>4

(* The stack keeps its states. *)
LEMMA StackKept ==
  ASSUME TypeOK, TypeOK', Stack, Grows, deepest' = deepest, Len(states') = Len(states), Below(Len(states)),
         Cur(Len(states)) <= Cur(Len(states))', Len(input') + b' = Len(input) + b
  PROVE  Stack'
<1>1. Len(states) \in Nat \ {0}
  BY DEF Stack, TypeOK
<1>2. deepest <= deepest'
  BY DEF TypeOK
<1>3. Root' /\ \A j \in 1 .. Len(states) : j < Len(states) => Nested(j)'
  BY <1>1, BelowNested
<1>4. ASSUME NEW j \in 1 .. Len(states)
      PROVE  Placed(j)'
  <2>1. CASE j < Len(states)
    BY <1>1, <1>2, <2>1, BelowTop
  <2>2. CASE j = Len(states)
    <3>1. Placed(j) /\ Same(states'[j], states[j])
      BY <1>1, <2>2 DEF Stack, Below
    <3>2. states[j].slice[1] <= Cur(j) /\ Cur(j) <= Cur(j)' /\ states'[j].slice = states[j].slice
      BY <2>2, <3>1, Zenon DEF Placed, Same
    <3>3. states[j].slice[1] \in Nat /\ Cur(j) \in Int /\ Cur(j)' \in Int
      <4>1. states[j] \in validationState
        BY DEF TypeOK
      <4>2. states[j].slice[1] \in Nat
        BY <4>1 DEF validationState
      <4>3. skip # <<>> => skip[1].start \in Int
        <5>1. skip # <<>> <=> Len(skip) > 0
          BY SkipType DEF TypeOK
        <5>2. Len(skip) \in Nat /\ \A k \in 1 .. Len(skip) : skip[k].start \in Nat
          BY SkipType DEF TypeOK
        <5> QED
          BY <5>1, <5>2
      <4>4. skip' # <<>> => skip'[1].start \in Int
        <5>1. skip' # <<>> <=> Len(skip') > 0
          BY SkipType DEF TypeOK
        <5>2. Len(skip') \in Nat /\ \A k \in 1 .. Len(skip') : skip'[k].start \in Nat
          BY SkipType DEF TypeOK
        <5> QED
          BY <5>1, <5>2
      <4>5. Cur(j) \in Int
        BY <2>2, <4>3 DEF Cur, TypeOK
      <4>6. Cur(j)' \in Int
        BY <2>2, <4>4 DEF Cur, TypeOK
      <4> QED
        BY <4>2, <4>5, <4>6
    <3>4. states'[j].slice[1] <= Cur(j)'
      BY <3>2, <3>3
    <3> QED
      BY <1>1, <1>2, <2>2, <3>1, <3>4, BelowPlaced
  <2> QED
    BY <1>1, <2>1, <2>2
<1>5. st'.slice[2] = Len(input') + b'
  <2>1. st.slice[2] = Len(input) + b
    BY DEF Stack
  <2>2. Same(st', st)
    BY <1>1 DEF Below, st
  <2> QED
    BY <2>1, <2>2 DEF Same
<1>6. states' # <<>>
  BY <1>1 DEF TypeOK
<1> QED
  BY <1>3, <1>4, <1>5, <1>6, Zenon DEF Stack

(* A state is put on the stack. *)
LEMMA StackPushed ==
  ASSUME TypeOK, TypeOK', Stack, Grows, deepest <= deepest', Len(states') = Len(states) + 1, Below(Len(states)),
         skip = <<>>, skip' = <<>>,
         NEW tok, NEW y, y = states'[Len(states) + 1], NEW at, at = Len(input) + 1, Len(input') = at, input'[at] = tok,
         ChildOf(st, y, tok, at), y.typ = "group" <=> y.endGroup # 0, y.endGroup # 0 => y.tail = 0,
         y.slice[2] = at + b', y.level <= deepest', st.slice[2] = y.slice[2] + y.tail
  PROVE  Stack'
<1>0. PICK L : L = Len(states)
  OBVIOUS
<1>1. L \in Nat \ {0} /\ Len(states') = L + 1 /\ Len(states') \in Nat /\ L + 1 \in 1 .. Len(states')
  BY <1>0 DEF Stack, TypeOK
<1>2. Root' /\ \A j \in 1 .. L : j < L => Nested(j)'
  BY <1>0, <1>1, BelowNested
<1>3. y \in validationState /\ b' \in Nat /\ Len(input) \in Nat /\ total' = total /\ total \in Nat /\ st \in validationState
  BY <1>0, <1>1 DEF TypeOK, Grows, st
<1>4. y.slice[1] \in Nat /\ y.slice[2] \in Nat /\ y.tail \in Nat /\ st.slice[2] \in Nat /\ st.slice[1] \in Nat
  BY <1>3 DEF validationState
<1>5. y.slice[1] = at /\ at \in Nat /\ at \in 1 .. Len(input')
  BY <1>3 DEF ChildOf
<1>6. Placed(L) /\ Same(states'[L], st) /\ states[L] = st
  BY <1>0, <1>1 DEF Stack, Below, st
<1>7. Nested(L)'
  <2>1. \A z, t, p : ChildOf(states'[L], z, t, p) <=> ChildOf(st, z, t, p)
    BY <1>6, SameFrame
  <2>2. ChildOf(states'[L], states'[L + 1], input'[states'[L + 1].slice[1]], states'[L + 1].slice[1])
    BY <1>0, <1>5, <2>1
  <2>3. states'[L].slice[2] = states'[L + 1].slice[2] + states'[L + 1].tail
    BY <1>0, <1>6, Zenon DEF Same
  <2> QED
    BY <1>0, <1>5, <2>2, <2>3, Zenon DEF Nested
<1>8. \A j \in 1 .. Len(states') : j < Len(states') => Nested(j)'
  BY <1>1, <1>2, <1>7
<1>9. Placed(L)'
  <2>1. Cur(L)' = at - 1
    BY <1>0, <1>1, <1>5 DEF Cur
  <2>2. Cur(L) = Len(input)
    BY <1>0, <1>1 DEF Cur
  <2>3. st.slice[1] <= Len(input)
    BY <1>6, <2>2 DEF Placed
  <2>4. states'[L].slice[1] <= Cur(L)'
    BY <1>3, <1>4, <1>6, <2>1, <2>3 DEF Same
  <2>5. L \in 1 .. Len(states) /\ L <= Len(states')
    BY <1>0, <1>1
  <2> QED
    BY <1>6, <2>4, <2>5, BelowPlaced
<1>10. Placed(L + 1)'
  <2>1. Cur(L + 1)' = Len(input')
    BY <1>1 DEF Cur
  <2>2. y.slice[1] <= y.slice[2] /\ y.slice[2] <= total'
    <3>1. st.slice[2] <= total
      BY <1>6 DEF Placed
    <3>2. y.slice[1] <= y.slice[2]
      BY <1>3, <1>5
    <3>3. y.slice[2] <= st.slice[2]
      BY <1>4
    <3> QED
      BY <1>3, <1>4, <3>1, <3>2, <3>3
  <2>3. y.slice[1] <= Len(input')
    BY <1>3, <1>5
  <2> QED
    BY <1>0, <2>1, <2>2, <2>3, Zenon DEF Placed
<1>11. \A j \in 1 .. Len(states') : Placed(j)'
  <2>1. ASSUME NEW j \in 1 .. Len(states')
        PROVE  Placed(j)'
    <3>1. CASE j \in 1 .. L /\ j < L
      BY <1>0, <1>1, <3>1, BelowTop
    <3>2. j = L \/ j = L + 1 \/ (j \in 1 .. L /\ j < L)
      BY <1>1
    <3> QED
      BY <1>9, <1>10, <3>1, <3>2
  <2> QED
    BY <2>1
<1>12. st' = y /\ states' # <<>>
  <2>1. states' # <<>>
    BY <1>1 DEF TypeOK
  <2> QED
    BY <1>0, <1>1, <2>1 DEF st
<1> QED
  BY <1>2, <1>8, <1>11, <1>12, Zenon DEF Stack

(* The top of the stack is taken off. *)
LEMMA StackPopped ==
  ASSUME TypeOK, TypeOK', Stack, Grows, deepest' = deepest, Len(states) > 1, Len(states') = Len(states) - 1,
         \A j \in 1 .. Len(states) - 1 : states'[j] = states[j],
         skip = <<>>, skip' = <<>>, Len(input') + b' = Len(input) + b + st.tail
  PROVE  Stack'
<1>0. PICK L : L = Len(states) - 1
  OBVIOUS
<1>1. L \in Nat \ {0} /\ Len(states) = L + 1 /\ Len(states') = L /\ L \in 1 .. Len(states) /\ L < Len(states)
  <2>1. states \in Seq(validationState)
    BY Zenon DEF TypeOK
  <2>2. Len(states) \in Nat
    BY <2>1
  <2> QED
    BY <1>0, <2>2
<1>2. Below(L)
  <2>1. \A j \in 1 .. L : Same(states[j], states[j])
    BY Zenon DEF Same
  <2> QED
    BY <1>0, <1>1, <2>1 DEF Below
<1>3. Root' /\ \A j \in 1 .. L : j < L => Nested(j)'
  BY <1>1, <1>2, BelowNested
<1>4. deepest <= deepest' /\ Len(input) \in Nat /\ Len(input') \in Nat /\ b \in Nat
  BY DEF TypeOK
<1>5. Placed(L) /\ Nested(L) /\ Placed(L + 1) /\ states'[L] = states[L] /\ st = states[L + 1] /\ st' = states[L]
      /\ st.slice[2] = Len(input) + b
  BY <1>0, <1>1 DEF Stack, st
<1>6. states[L] \in validationState /\ states[L + 1] \in validationState
  BY <1>1 DEF TypeOK
<1>7. states[L].slice[1] \in Nat /\ states[L].slice[2] \in Nat /\ states[L + 1].slice[1] \in Nat
      /\ states[L + 1].tail \in Nat
  BY <1>6 DEF validationState
<1>8. Placed(L)'
  <2>1. Cur(L)' = Len(input')
    BY <1>1 DEF Cur
  <2>2. Cur(L) = states[L + 1].slice[1] - 1 /\ Cur(L + 1) = Len(input)
    BY <1>1 DEF Cur
  <2>3. states[L].slice[1] <= Cur(L) /\ states[L + 1].slice[1] <= Cur(L + 1)
    BY <1>5 DEF Placed
  <2>4. states'[L].slice[1] <= Cur(L)'
    <3>1. PICK p, q : p = states[L].slice[1] /\ q = states[L + 1].slice[1]
      OBVIOUS
    <3>2. p \in Nat /\ q \in Nat /\ p <= q - 1 /\ q <= Len(input) /\ Len(input) <= Len(input')
      BY <1>7, <2>2, <2>3, <3>1 DEF Grows
    <3>3. p <= Len(input')
      BY <1>4, <3>2
    <3> QED
      BY <1>5, <2>1, <3>1, <3>3
  <2>5. Same(states'[L], states[L])
    BY <1>5, Zenon DEF Same
  <2> QED
    BY <1>1, <1>4, <1>5, <2>4, <2>5, BelowPlaced
<1>9. \A j \in 1 .. L : Placed(j)'
  <2>1. ASSUME NEW j \in 1 .. L
        PROVE  Placed(j)'
    <3>1. CASE j < L
      BY <1>1, <1>2, <1>4, <3>1, BelowTop
    <3>2. CASE j = L
      BY <1>8, <3>2
    <3> QED
      BY <1>1, <3>1, <3>2
  <2> QED
    BY <2>1
<1>10. st'.slice[2] = Len(input') + b'
  BY <1>5 DEF Nested
<1>11. states' # <<>>
  BY <1>1 DEF TypeOK
<1> QED
  BY <1>1, <1>3, <1>9, <1>10, <1>11, Zenon DEF Stack

(* A group that is skipped stays where it is. *)
LEMMA SkippedOn ==
  ASSUME TypeOK, TypeOK', Grows, NEW k \in 1 .. Len(skip), Skipped(k), skip'[k] = skip[k], SkipCur(k) <= SkipCur(k)',
         k <= Len(skip')
  PROVE  Skipped(k)'
<1>1. \A i \in 1 .. Len(skip) : skip[i].start \in Nat
  BY SkipType DEF TypeOK
<1>2. \A i \in 1 .. Len(skip') : skip'[i].start \in Nat
  BY SkipType DEF TypeOK
<1>a. Len(skip) \in Nat
  BY SkipType DEF TypeOK
<1>d. input \in Seq(Token) /\ input' \in Seq(Token)
  BY Zenon DEF TypeOK
<1>c. Len(input) \in Nat /\ Len(input') \in Nat
  BY <1>d
<1>b. Len(skip') \in Nat
  BY SkipType DEF TypeOK
<1>3. Len(skip) \in Nat /\ Len(skip') \in Nat /\ Len(input) \in Nat /\ Len(input') \in Nat
  BY <1>a, <1>b, <1>c
<1>4. SkipCur(k) \in Int /\ SkipCur(k)' \in Int
  <2>1. k < Len(skip) => k + 1 \in 1 .. Len(skip)
    BY <1>3
  <2>2. k < Len(skip') => k + 1 \in 1 .. Len(skip')
    BY <1>3
  <2>3. SkipCur(k) \in Int
    BY <1>1, <1>3, <2>1 DEF SkipCur
  <2>4. SkipCur(k)' \in Int
    BY <1>2, <1>3, <2>2 DEF SkipCur
  <2> QED
    BY <2>3, <2>4
<1>5. PICK at : at = skip[k].start
  OBVIOUS
<1>6. at \in Nat /\ at \in 1 .. Len(input) /\ at <= SkipCur(k) /\ input[at].wtyp = "start" /\ input[at].num = skip[k].num
  BY <1>1, <1>5 DEF Skipped
<1>7. at \in 1 .. Len(input') /\ input'[at] = input[at] /\ at <= SkipCur(k)'
  BY <1>3, <1>4, <1>6 DEF Grows
<1> QED
  BY <1>5, <1>6, <1>7, Zenon DEF Skipped

(* The record that opens a group is skipped after. *)
LEMMA SkipPushed ==
  ASSUME TypeOK, TypeOK', Grows, \A k \in 1 .. Len(skip) : Skipped(k), Len(skip) <= DefaultRecursionLimit,
         NEW tok, tok.wtyp = "start", skip' = Append(skip, Open(tok)),
         Len(input') = Len(input) + 1, input'[Len(input) + 1] = tok, Same(st', st),
         skip = <<>> => FieldIn(st, tok.num).resolves /\ FieldIn(st, tok.num).typ # "group",
         skip # <<>> => FieldIn(st, skip[1].num).resolves /\ FieldIn(st, skip[1].num).typ # "group"
  PROVE  SkipStack'
<1>0. PICK K : K = Len(skip)
  OBVIOUS
<1>1. K \in Nat /\ (skip # <<>> <=> K > 0) /\ Len(input) \in Nat /\ Len(input') \in Nat
  BY <1>0, SkipType DEF TypeOK
<1>2. /\ Len(skip') = K + 1 /\ skip'[K + 1] = Open(tok) /\ \A k \in 1 .. K : skip'[k] = skip[k]
  BY <1>0 DEF TypeOK
<1>3. Open(tok).start = Len(input) + 1 /\ Open(tok).num = tok.num
  BY DEF Open
<1>4. ASSUME NEW k \in 1 .. K
      PROVE  Skipped(k)'
  <2>1. Skipped(k) /\ skip'[k] = skip[k] /\ k <= Len(skip')
    BY <1>0, <1>1, <1>2
  <2>2. SkipCur(k) <= SkipCur(k)'
    <3>1. CASE k < K
      <4>0. \A i \in 1 .. K : skip[i].start \in Nat
        BY <1>0, SkipType DEF TypeOK
      <4>1. k + 1 \in 1 .. K /\ skip[k + 1].start \in Nat
        BY <1>1, <3>1, <4>0
      <4>2. SkipCur(k) = skip[k + 1].start - 1 /\ SkipCur(k)' = skip[k + 1].start - 1
        BY <1>0, <1>1, <1>2, <3>1, <4>1 DEF SkipCur
      <4> QED
        BY <4>1, <4>2
    <3>2. CASE k = K
      <4>1. SkipCur(k) = Len(input)
        BY <1>0, <1>1, <3>2 DEF SkipCur
      <4>2. SkipCur(k)' = Len(input)
        BY <1>1, <1>2, <1>3, <3>2 DEF SkipCur
      <4> QED
        BY <1>1, <4>1, <4>2
    <3> QED
      BY <1>1, <3>1, <3>2
  <2> QED
    BY <1>0, <2>1, <2>2, SkippedOn
<1>5. Skipped(K + 1)'
  <2>1. SkipCur(K + 1)' = Len(input')
    BY <1>1, <1>2 DEF SkipCur
  <2> QED
    BY <1>1, <1>2, <1>3, <2>1 DEF Skipped
<1>6. \A k \in 1 .. Len(skip') : Skipped(k)'
  BY <1>1, <1>2, <1>4, <1>5
<1>7. Len(skip') <= DefaultRecursionLimit + 1
  BY <1>0, <1>1, <1>2, ValidateAssumption
<1>8. FieldIn(st', skip'[1].num).resolves /\ FieldIn(st', skip'[1].num).typ # "group"
  <2>1. \A num : FieldIn(st', num) = FieldIn(st, num)
    BY SameFrame
  <2>2. CASE K = 0
    BY <1>1, <1>2, <1>3, <2>1, <2>2
  <2>3. CASE K # 0
    <3>1. skip # <<>> /\ skip'[1] = skip[1]
      BY <1>1, <1>2, <2>3
    <3> QED
      BY <2>1, <3>1
  <2> QED
    BY <2>2, <2>3
<1> QED
  BY <1>6, <1>7, <1>8, Zenon DEF SkipStack

(* Records inside the innermost group, and its end. *)
LEMMA SkipStays ==
  ASSUME TypeOK, TypeOK', Grows, SkipStack, Same(st', st), NEW K \in Nat, Len(skip') = K,
         skip' # <<>>, K <= Len(skip), \A k \in 1 .. K : skip'[k] = skip[k]
  PROVE  SkipStack'
<1>1. Len(skip) \in Nat /\ K # 0 /\ skip # <<>> /\ Len(input) \in Nat /\ Len(input') \in Nat
  <2>1. PICK P : P = [num : Nat \ {0}, start : Nat]
    OBVIOUS
  <2>2. skip \in Seq(P) /\ skip' \in Seq(P) /\ input \in Seq(Token) /\ input' \in Seq(Token)
    BY <2>1, Zenon DEF TypeOK
  <2>3. Len(skip) \in Nat /\ K # 0
    BY <2>2
  <2>4. skip # <<>>
    BY <2>2, <2>3
  <2> QED
    BY <2>2, <2>3, <2>4
<1>2. ASSUME NEW k \in 1 .. K
      PROVE  Skipped(k)'
  <2>1. k \in 1 .. Len(skip) /\ Skipped(k) /\ skip'[k] = skip[k]
    BY <1>1 DEF SkipStack
  <2>2. SkipCur(k) <= SkipCur(k)'
    <3>1. CASE k < K
      <4>1. k + 1 \in 1 .. K /\ k + 1 \in 1 .. Len(skip)
        BY <1>1, <3>1
      <4>2. skip[k + 1].start \in Nat
        BY <4>1, SkipType DEF TypeOK
      <4>3. SkipCur(k) = skip[k + 1].start - 1 /\ SkipCur(k)' = skip[k + 1].start - 1
        BY <1>1, <3>1, <4>1 DEF SkipCur
      <4> QED
        BY <4>2, <4>3
    <3>2. CASE k = K
      <4>1. SkipCur(k)' = Len(input')
        BY <3>2 DEF SkipCur
      <4>2. SkipCur(k) <= Len(input)
        <5>1. CASE k < Len(skip)
          <6>1. k + 1 \in 1 .. Len(skip)
            BY <1>1, <5>1
          <6>2. skip[k + 1].start \in 1 .. Len(input)
            BY <6>1, Zenon DEF SkipStack, Skipped
          <6> QED
            BY <1>1, <5>1, <6>2 DEF SkipCur
        <5>2. CASE ~(k < Len(skip))
          BY <1>1, <5>2 DEF SkipCur
        <5> QED
          BY <5>1, <5>2
      <4>3. SkipCur(k) \in Int
        <5>1. k < Len(skip) => k + 1 \in 1 .. Len(skip)
          BY <1>1
        <5>2. \A i \in 1 .. Len(skip) : skip[i].start \in Nat
          BY SkipType DEF TypeOK
        <5> QED
          BY <1>1, <5>1, <5>2 DEF SkipCur
      <4> QED
        BY <1>1, <4>1, <4>2, <4>3 DEF Grows
    <3> QED
      BY <1>1, <3>1, <3>2
  <2> QED
    BY <2>1, <2>2, SkippedOn
<1>3. Len(skip') <= DefaultRecursionLimit + 1
  BY <1>1, ValidateAssumption DEF SkipStack
<1>4. FieldIn(st', skip'[1].num).resolves /\ FieldIn(st', skip'[1].num).typ # "group"
  <2>1. \A num : FieldIn(st', num) = FieldIn(st, num)
    BY SameFrame
  <2>2. skip'[1] = skip[1]
    BY <1>1
  <2> QED
    BY <1>1, <2>1, <2>2 DEF SkipStack
<1> QED
  BY <1>2, <1>3, <1>4, Zenon DEF SkipStack

-----------------------------------------------------------------------------
(* What the steps of validate do, by what becomes of the stack. *)

(* One more record is read, with n records after it that nobody looks at. *)
Reads(tok, n) ==
  /\ Grows /\ tok \in Token /\ result = "run" /\ n \in Nat /\ n < b /\ result = "run"
  /\ Len(input') = Len(input) + 1 + n /\ input'[Len(input) + 1] = tok

Ends == Grows /\ Len(input') = Len(input) /\ result = "run" /\ b = 0

Keeps == Len(states') = Len(states) /\ Below(Len(states)) /\ deepest' = deepest /\ result' = "run"

Stops == result' \in {"invalid", "unknown"} /\ deepest' = deepest

(* A field is passed over, or a group is skipped from there on. *)
Passed(tok, n) ==
  /\ Reads(tok, n) /\ skip = <<>> /\ skip' = <<>> /\ Keeps /\ b' = b - 1 - n
  /\ n = Width(tok) /\ Passes(st, tok)

Opened(tok) ==
  /\ Reads(tok, 0) /\ Keeps /\ b' = b - 1 /\ tok.wtyp = "start" /\ skip' = Append(skip, Open(tok))
  /\ skip = <<>> => FieldIn(st, tok.num).resolves /\ FieldIn(st, tok.num).typ # "group"
  /\ Len(skip) <= DefaultRecursionLimit

SkippedOver(tok, n) ==
  /\ Reads(tok, n) /\ skip # <<>> /\ skip' = skip /\ Keeps /\ b' = b - 1 - n
  /\ tok.wtyp \in {"varint", "bytes"} /\ n = Width(tok)

Closed(tok) ==
  /\ Reads(tok, 0) /\ skip # <<>> /\ Keeps /\ b' = b - 1
  /\ tok.wtyp = "end" /\ tok.num = skip[Len(skip)].num /\ skip' = SubSeq(skip, 1, Len(skip) - 1)

(* The field is validated. *)
Entered(tok, y) ==
  /\ Reads(tok, 0) /\ skip = <<>> /\ skip' = <<>> /\ result' = "run"
  /\ Len(states') = Len(states) + 1 /\ Below(Len(states)) /\ y = states'[Len(states) + 1]
  /\ y \in validationState /\ y.requiredMask = {}
  /\ ChildOf(st, y, tok, Len(input) + 1) /\ y.tail \in Nat
  /\ y.typ = "group" <=> y.endGroup # 0
  /\ y.endGroup # 0 => y.tail = 0
  /\ y.slice[2] = Len(input) + 1 + b' /\ st.slice[2] = y.slice[2] + y.tail
  /\ deepest' = IF y.level > deepest THEN y.level ELSE deepest

(* The top of the stack ends. *)
Pops ==
  /\ Len(states') = Len(states) - 1 /\ \A j \in 1 .. Len(states) - 1 : states'[j] = states[j]
  /\ skip = <<>> /\ skip' = <<>> /\ deepest' = deepest /\ Len(input') + b' = Len(input) + b + st.tail
  /\ result' = IF Len(states) = 1 THEN "valid" ELSE "run"

EndedByTag(tok) == Reads(tok, 0) /\ tok.wtyp = "end" /\ st.endGroup = tok.num /\ Pops

EndedBySlice == Ends /\ st.endGroup = 0 /\ Pops

(* validate gives up. *)
Refuses(tok) ==
  /\ Reads(tok, 0) /\ result' = "invalid" /\ Stops
  /\ \/ skip = <<>> /\ tok.wtyp = "end" /\ st.endGroup # tok.num
     \/ skip = <<>> /\ tok.wtyp # "end" /\ IsMalformed(st, tok, b)
     \/ /\ skip # <<>>
        /\ \/ tok.wtyp = "bytes" /\ tok.size >= b
           \/ tok.wtyp = "start" /\ Len(skip) > DefaultRecursionLimit
           \/ tok.wtyp = "end" /\ tok.num # skip[Len(skip)].num
           \/ tok.wtyp = "reserved"

Truncated == Ends /\ result' = "invalid" /\ Stops /\ (skip # <<>> \/ st.endGroup # 0)

Unsure(tok) == Reads(tok, 0) /\ result' = "unknown" /\ Stops

Kinds(tok, n, y) ==
  \/ Passed(tok, n) \/ Opened(tok) \/ SkippedOver(tok, n) \/ Closed(tok) \/ Entered(tok, y)
  \/ EndedByTag(tok) \/ EndedBySlice \/ Refuses(tok) \/ Truncated \/ Unsure(tok)

LEMMA ReadsIs ==
  ASSUME TypeOK, NEW tok \in Tokens, NEW c, Contained(c, tok), Read(tok, c)
  PROVE  Reads(tok, Len(c))
BY ReadFacts DEF Reads

LEMMA MarkedKeeps ==
  ASSUME TypeOK, states # <<>>, NEW tok, tok.num \in Nat, states' = Marked(tok)
  PROVE  Len(states') = Len(states) /\ Below(Len(states))
<1>1. /\ Len(Marked(tok)) = Len(states) /\ \A j \in 1 .. Len(states) : Same(Marked(tok)[j], states[j])
  BY MarkedFacts
<1>2. Len(states) \in Nat \ {0}
  BY DEF TypeOK
<1> QED
  BY <1>1, <1>2 DEF Below

LEMMA KindPass ==
  ASSUME TypeOK, Layout, NEW tok \in Tokens, NEW c, Contained(c, tok), PassOver(tok, c)
  PROVE  Passed(tok, Len(c)) \/ Opened(tok)
<1>1. Read(tok, c) /\ result = "run" /\ skip = <<>> /\ vi(tok.num).resolves /\ states' = Marked(tok)
      /\ deepest' = deepest /\ result' = result /\ b' = b - 1 - Len(c)
      /\ skip' = (IF tok.wtyp = "start" THEN << Open(tok) >> ELSE <<>>)
      /\ Len(c) = (IF tok.wtyp = "bytes" THEN tok.size ELSE 0)
  BY DEF PassOver, Field, Read
<1>2. Reads(tok, Len(c))
  BY <1>1, ReadsIs
<1>3. tok.num \in Nat /\ states # <<>> /\ b \in Nat
  BY <1>1, <1>2, ReadFacts, Running
<1>4. Keeps
  BY <1>1, <1>3, MarkedKeeps DEF Keeps
<1>5. CASE tok.wtyp = "start"
  <2>1. Len(c) = 0 /\ skip' = << Open(tok) >> /\ vi(tok.num).typ # "group"
    BY <1>1, <1>5 DEF PassOver
  <2>4. PICK e : e = Open(tok)
    OBVIOUS
  <2>5. Append(<<>>, e) = << e >>
    OBVIOUS
  <2>6. Len(skip) = 0 /\ DefaultRecursionLimit \in Nat
    BY <1>1, ValidateAssumption
  <2>7. Len(skip) <= DefaultRecursionLimit
    BY <2>6
  <2>2. skip' = Append(skip, Open(tok)) /\ Len(skip) <= DefaultRecursionLimit
    BY <1>1, <2>1, <2>4, <2>5, <2>7, Zenon
  <2>3. Opened(tok)
    BY <1>1, <1>2, <1>3, <1>4, <1>5, <2>1, <2>2 DEF Opened, vi
  <2> QED
    BY <2>3
<1>6. CASE tok.wtyp # "start"
  <2>1. skip' = <<>> /\ Len(c) = Width(tok)
    BY <1>1, <1>6 DEF Width
  <2>2. Passes(st, tok)
    BY <1>1, <1>6 DEF PassOver, Passes, vi
  <2>3. Passed(tok, Len(c))
    BY <1>1, <1>2, <1>4, <2>1, <2>2, Zenon DEF Passed
  <2> QED
    BY <2>3
<1> QED
  BY <1>5, <1>6

LEMMA KindSkip ==
  ASSUME TypeOK, Layout, NEW tok \in Tokens, NEW c, Contained(c, tok), SkipField(tok, c)
  PROVE  Opened(tok) \/ SkippedOver(tok, Len(c)) \/ Closed(tok) \/ Refuses(tok)
<1>1. Read(tok, c) /\ result = "run" /\ skip # <<>>
  BY DEF SkipField, Read
<1>2. Reads(tok, Len(c))
  BY <1>1, ReadsIs
<1>3. states # <<>> /\ b \in Nat /\ Len(states) \in Nat \ {0}
  BY <1>1, Running
<1>a. c = <<>> => Len(c) = 0
  OBVIOUS
<1>4. CASE /\ b' = b - 1 - Len(c) /\ states' = states /\ result' = result /\ deepest' = deepest
           /\ \/ tok.wtyp = "varint" /\ c = <<>> /\ UNCHANGED skip
              \/ tok.wtyp = "bytes" /\ Len(c) = tok.size /\ UNCHANGED skip
              \/ tok.wtyp = "start" /\ c = <<>> /\ Len(skip) <= DefaultRecursionLimit /\ skip' = Append(skip, Open(tok))
              \/ /\ tok.wtyp = "end" /\ c = <<>> /\ tok.num = skip[Len(skip)].num
                 /\ skip' = SubSeq(skip, 1, Len(skip) - 1)
  <2>1. Keeps
    <3>1. \A j \in 1 .. Len(states) : Same(states'[j], states[j])
      BY <1>4, Zenon DEF Same
    <3> QED
      BY <1>1, <1>3, <1>4, <3>1 DEF Keeps, Below
  <2>2. c = <<>> => b' = b - 1
    BY <1>3, <1>4, <1>a
  <2>3. CASE tok.wtyp \in {"varint", "bytes"}
    BY <1>1, <1>2, <1>4, <1>a, <2>1, <2>3 DEF SkippedOver, Width
  <2>4. CASE tok.wtyp = "start"
    BY <1>1, <1>2, <1>4, <1>a, <2>1, <2>2, <2>4 DEF Opened
  <2>5. CASE tok.wtyp = "end"
    BY <1>1, <1>2, <1>4, <1>a, <2>1, <2>2, <2>5 DEF Closed
  <2> QED
    BY <1>4, <2>3, <2>4, <2>5
<1>5. CASE /\ c = <<>> /\ Return("invalid")
           /\ \/ tok.wtyp = "bytes" /\ tok.size >= b
              \/ tok.wtyp = "start" /\ Len(skip) > DefaultRecursionLimit
              \/ tok.wtyp = "end" /\ tok.num # skip[Len(skip)].num
              \/ tok.wtyp = "reserved"
  <2>1. Stops /\ result' = "invalid" /\ Reads(tok, 0)
    BY <1>2, <1>5, <1>a DEF Stops, Return
  <2>2. Refuses(tok)
    BY <1>1, <1>5, <2>1, Zenon DEF Refuses
  <2> QED
    BY <2>2
<1> QED
  BY <1>4, <1>5 DEF SkipField

LEMMA KindEnter ==
  ASSUME TypeOK, Layout, NEW tok \in Tokens, Enter(tok) \/ EnterGroup(tok)
  PROVE  \E y : Entered(tok, y)
<1>1. Read(tok, <<>>) /\ result = "run" /\ skip = <<>> /\ vi(tok.num).mi # Nil
      /\ vi(tok.num).typ \in {"message", "group", "map"}
  BY DEF Enter, EnterGroup, Field, Read
<1>2. Reads(tok, 0)
  <2>1. Reads(tok, Len(<<>>))
    BY <1>1, ReadsIs DEF Contained
  <2> QED
    BY <2>1
<1>3. tok.num \in Nat \ {0} /\ tok.size \in Nat /\ b > 0
  BY <1>1, ReadFacts DEF Contained
<1>4. states # <<>> /\ b \in Nat /\ Len(states) \in Nat \ {0} /\ Stack /\ Len(input) \in Nat /\ st \in validationState
  BY <1>1, Running
<1>5. vi(tok.num).resolves
  <2>1. Proper(vi(tok.num))
    BY <1>3, <1>4, FieldInType DEF vi
  <2> QED
    BY <1>1, <2>1 DEF Proper
<1>6. st.slice[2] = Len(input) + b
  BY <1>4 DEF Stack
<1>7. ASSUME NEW endGroup \in Nat, NEW tail \in Nat, NEW size \in Nat, Push(tok, endGroup, tail, size),
             tok.wtyp \in Expects(vi(tok.num).typ), b = 1 + size + tail,
             vi(tok.num).typ = "group" => endGroup = tok.num /\ tail = 0,
             vi(tok.num).typ # "group" => endGroup = 0 /\ size = tok.size
      PROVE  \E y : Entered(tok, y)
  <2>1. PICK y : y = Child(tok, endGroup, tail, size)
    OBVIOUS
  <2>2. Pushes(tok, y, size)
    BY <1>1, <1>3, <1>4, <1>7, <2>1, PushFacts
  <2>3. ChildIs(y, tok, endGroup, tail, size)
    BY <1>1, <1>3, <1>4, <2>1, ChildFacts
  <2>4. Len(states') = Len(states) + 1 /\ y = states'[Len(states) + 1] /\ Below(Len(states))
    <3>1. /\ Marked(tok) \in Seq(validationState) /\ Len(Marked(tok)) = Len(states)
          /\ \A j \in 1 .. Len(states) : Same(Marked(tok)[j], states[j])
      BY <1>3, <1>4, MarkedFacts
    <3>2. states' = Append(Marked(tok), y) /\ y \in validationState
      BY <2>2, <2>3, Zenon DEF Pushes, ChildIs
    <3>3. /\ Len(states') = Len(states) + 1 /\ states'[Len(states) + 1] = y
          /\ \A j \in 1 .. Len(states) : states'[j] = Marked(tok)[j]
      BY <3>1, <3>2
    <3> QED
      BY <1>4, <3>1, <3>3 DEF Below
  <2>5. /\ y \in validationState /\ y.typ = vi(tok.num).typ /\ y.mi = vi(tok.num).mi /\ y.endGroup = endGroup
        /\ y.tail = tail /\ y.requiredMask = {} /\ y.slice[1] = Len(input) + 1 /\ y.slice[2] = Len(input) + 1 + size
        /\ y.level = IF vi(tok.num).typ = "map" THEN st.level ELSE st.level + 1
    BY <2>3, Zenon DEF ChildIs
  <2>6. y.slice[2] <= st.slice[2] /\ st.slice[2] = y.slice[2] + y.tail
    BY <1>4, <1>6, <1>7, <2>5
  <2>7. ChildOf(st, y, tok, Len(input) + 1)
    <3>1. y.typ = "group" => y.slice[2] = st.slice[2]
      BY <1>4, <1>6, <1>7, <2>5
    <3>2. y.typ # "group" => y.slice[2] = Len(input) + 1 + tok.size
      BY <1>7, <2>5
    <3> QED
      BY <1>5, <1>7, <2>5, <2>6, <3>1, <3>2 DEF ChildOf, vi
  <2>8. (y.typ = "group" <=> y.endGroup # 0) /\ (y.endGroup # 0 => y.tail = 0)
    BY <1>1, <1>3, <1>7, <2>5
  <2>9. b' = size /\ skip' = <<>> /\ result' = "run" /\ deepest' = IF y.level > deepest THEN y.level ELSE deepest
    BY <1>1, <2>2 DEF Pushes
  <2>10. y.slice[2] = Len(input) + 1 + b'
    BY <2>5, <2>9
  <2>11. Entered(tok, y)
    BY <1>1, <1>2, <1>7, <2>4, <2>5, <2>6, <2>7, <2>8, <2>9, <2>10 DEF Entered
  <2> QED
    BY <2>11
<1>8. CASE Enter(tok)
  <2>1. tok.size < b /\ Push(tok, 0, b - 1 - tok.size, tok.size) /\ tok.wtyp = "bytes"
        /\ vi(tok.num).typ \in {"message", "map"}
    BY <1>8 DEF Enter, Field
  <2>2. b - 1 - tok.size \in Nat /\ b = 1 + tok.size + (b - 1 - tok.size)
    BY <1>3, <1>4, <2>1
  <2>3. tok.wtyp \in Expects(vi(tok.num).typ)
    BY <2>1 DEF Expects
  <2> QED
    BY <1>3, <1>7, <2>1, <2>2, <2>3
<1>9. CASE EnterGroup(tok)
  <2>1. Push(tok, tok.num, 0, b - 1) /\ tok.wtyp = "start" /\ vi(tok.num).typ = "group"
    BY <1>9 DEF EnterGroup, Field
  <2>2. b - 1 \in Nat /\ b = 1 + (b - 1) + 0
    BY <1>3, <1>4
  <2>3. tok.wtyp \in Expects(vi(tok.num).typ)
    BY <2>1 DEF Expects
  <2> QED
    BY <1>3, <1>7, <2>1, <2>2, <2>3
<1> QED
  BY <1>8, <1>9

LEMMA KindEnd ==
  ASSUME TypeOK, Layout, EndOfSlice
  PROVE  EndedBySlice \/ Truncated
<1>1. Ends
  BY DEF EndOfSlice, Ends, Grows, TypeOK
<1>2. states # <<>> /\ b = 0 /\ Len(input) \in Nat /\ st.tail \in Nat /\ input' = input
  BY Running DEF EndOfSlice
<1>3. CASE skip = <<>> /\ st.endGroup = 0 /\ PopState(st.tail)
  <2>1. Pops
    BY <1>2, <1>3, PopFacts DEF Pops
  <2> QED
    BY <1>1, <1>3, <2>1 DEF EndedBySlice
<1>4. CASE (skip # <<>> \/ st.endGroup # 0) /\ Return("invalid")
  BY <1>1, <1>4 DEF Truncated, Return, Stops
<1> QED
  BY <1>3, <1>4 DEF EndOfSlice

LEMMA KindTag ==
  ASSUME TypeOK, Layout, NEW tok \in Tokens, EndGroup(tok) \/ Undecided(tok) \/ Malformed(tok)
  PROVE  EndedByTag(tok) \/ Refuses(tok) \/ Unsure(tok)
<1>1. Read(tok, <<>>) /\ result = "run" /\ skip = <<>>
  BY DEF EndGroup, Undecided, Malformed, Field, Read
<1>2. Reads(tok, 0) /\ tok.num \in Nat \ {0}
  <2>1. Reads(tok, Len(<<>>)) /\ tok.num \in Nat \ {0}
    BY <1>1, ReadsIs, ReadFacts DEF Contained
  <2> QED
    BY <2>1
<1>3. states # <<>> /\ b \in Nat /\ Len(input) \in Nat /\ Stack /\ Len(states) \in Nat \ {0}
  BY <1>1, Running
<1>4. CASE EndGroup(tok) /\ st.endGroup = tok.num
  <2>1. PopState(b - 1) /\ tok.wtyp = "end"
    BY <1>4 DEF EndGroup
  <2>2. st.tail = 0
    BY <1>2, <1>3, <1>4 DEF Stack, Placed, st
  <2>3. Len(input') = Len(input) + 1
    BY <1>2, <1>3 DEF Reads
  <2>4. /\ Len(states') = Len(states) - 1 /\ \A j \in 1 .. Len(states) - 1 : states'[j] = states[j]
        /\ b' = b - 1 /\ skip' = skip /\ deepest' = deepest
        /\ result' = IF Len(states) = 1 THEN "valid" ELSE "run"
    BY <1>3, <2>1, PopFacts
  <2>5. Pops
    BY <1>1, <1>3, <2>2, <2>3, <2>4 DEF Pops
  <2> QED
    BY <1>2, <1>4, <2>1, <2>5 DEF EndedByTag
<1>5. CASE EndGroup(tok) /\ st.endGroup # tok.num
  BY <1>1, <1>2, <1>5 DEF EndGroup, Refuses, Return, Stops
<1>6. CASE Undecided(tok)
  BY <1>1, <1>2, <1>6 DEF Undecided, Unsure, Return, Stops
<1>7. CASE Malformed(tok)
  <2>1. IsMalformed(st, tok, b)
    BY <1>7 DEF Malformed, IsMalformed, vi
  <2> QED
    BY <1>1, <1>2, <1>7, <2>1 DEF Malformed, Field, Refuses, Return, Stops
<1> QED
  BY <1>4, <1>5, <1>6, <1>7

LEMMA StepType ==
  ASSUME TypeOK, Layout, Next
  PROVE  TypeOK'
<1>1. CASE EndOfSlice
  BY <1>1, EndOfSliceType
<1>2. ASSUME NEW tok \in Tokens, EndGroup(tok) \/ Undecided(tok) \/ Malformed(tok)
      PROVE  TypeOK'
  BY <1>2, ActionsType
<1>3. ASSUME NEW tok \in Tokens, Enter(tok) \/ EnterGroup(tok)
      PROVE  TypeOK'
  BY <1>3, EntersType
<1>4. ASSUME NEW tok \in Tokens, NEW c \in Contents(tok.size) \cup {<<>>}, PassOver(tok, c) \/ SkipField(tok, c)
      PROVE  TypeOK'
  BY <1>4, PassedType, SkippedType DEF Contained
<1> QED
  BY <1>1, <1>2, <1>3, <1>4 DEF Next

(* Every step is one of these. *)
LEMMA StepKind ==
  ASSUME TypeOK, Layout, Next
  PROVE  \E tok, n, y : Kinds(tok, n, y)
<1>1. CASE EndOfSlice
  BY <1>1, KindEnd DEF Kinds
<1>2. ASSUME NEW tok \in Tokens, EndGroup(tok) \/ Undecided(tok) \/ Malformed(tok)
      PROVE  \E y, n : Kinds(tok, n, y)
  BY <1>2, KindTag DEF Kinds
<1>3. ASSUME NEW tok \in Tokens, Enter(tok) \/ EnterGroup(tok)
      PROVE  \E y, n : Kinds(tok, n, y)
  BY <1>3, KindEnter DEF Kinds
<1>4. ASSUME NEW tok \in Tokens, NEW c \in Contents(tok.size) \cup {<<>>}, PassOver(tok, c) \/ SkipField(tok, c)
      PROVE  \E y, n : Kinds(tok, n, y)
  BY <1>4, KindPass, KindSkip DEF Kinds, Contained
<1> QED
  BY <1>1, <1>2, <1>3, <1>4 DEF Next

(* Sequences that lose their last element, or get one more. *)
LEMMA Butlast ==
  ASSUME NEW P, NEW s \in Seq(P), s # <<>>, NEW r, r = SubSeq(s, 1, Len(s) - 1)
  PROVE  r \in Seq(P) /\ Len(r) = Len(s) - 1 /\ \A i \in 1 .. Len(s) - 1 : r[i] = s[i]
<1>1. PICK m : m = Len(s) - 1
  OBVIOUS
<1>2. m \in Nat /\ m <= Len(s) /\ Len(s) \in Nat
  BY <1>1
<1>3. r = SubSeq(s, 1, m)
  BY <1>1
<1>4. r = [i \in 1 .. m |-> s[i]]
  BY <1>2, <1>3
<1>5. \A i \in 1 .. m : s[i] \in P
  BY <1>2
<1> QED
  BY <1>1, <1>2, <1>4, <1>5

LEMMA OneMore ==
  ASSUME NEW P, NEW s \in Seq(P), NEW e \in P, NEW r, r = Append(s, e)
  PROVE  /\ r \in Seq(P) /\ Len(r) = Len(s) + 1 /\ Len(s) \in Nat /\ r # <<>> /\ r[Len(s) + 1] = e
         /\ \A i \in 1 .. Len(s) : r[i] = s[i]
OBVIOUS

(* The layout is kept. *)
LEMMA ReadWithin ==
  ASSUME TypeOK, TypeOK', Layout, NEW tok, NEW n, Reads(tok, n)
  PROVE  Len(input') <= total' /\ total' = total
<1>1. Stack /\ b \in Nat /\ Len(input) \in Nat /\ total \in Nat /\ Len(states) \in Nat \ {0}
  BY Running DEF Reads
<1>2. Placed(Len(states)) /\ st.slice[2] = Len(input) + b
  BY <1>1 DEF Stack
<1>3. Len(input) + b <= total
  BY <1>2 DEF Placed, st
<1>4. total' = total /\ n \in Nat /\ n < b /\ Len(input') = Len(input) + 1 + n
  BY DEF Reads, Grows
<1> QED
  BY <1>1, <1>3, <1>4

LEMMA KeepsStack ==
  ASSUME TypeOK, TypeOK', Layout, NEW tok, NEW n, Reads(tok, n), Keeps, b' = b - 1 - n,
         Cur(Len(states)) <= Cur(Len(states))'
  PROVE  Stack' /\ Same(st', st)
<1>1. Stack /\ b \in Nat /\ Len(input) \in Nat /\ Len(states) \in Nat \ {0}
  BY Running DEF Reads
<1>2. Len(input') + b' = Len(input) + b /\ Grows
  BY <1>1 DEF Reads
<1>3. Stack'
  BY <1>1, <1>2, StackKept DEF Keeps
<1>4. Same(st', st)
  BY <1>1 DEF Keeps, Below, st
<1> QED
  BY <1>3, <1>4

LEMMA StepLayout ==
  ASSUME TypeOK, TypeOK', Layout, NEW tok, NEW n, NEW y, Kinds(tok, n, y)
  PROVE  Layout'
<1>0. result = "run"
  BY DEF Kinds, Passed, Opened, SkippedOver, Closed, Entered, EndedByTag, EndedBySlice, Refuses, Truncated, Unsure, Reads, Ends
<1>1. Stack /\ SkipStack /\ b \in Nat /\ Len(input) \in Nat /\ Len(states) \in Nat \ {0} /\ Len(skip) \in Nat
      /\ deepest \in Nat /\ st.tail \in Nat
  BY <1>0, Running
<1>2. Len(input') \in Nat /\ DefaultRecursionLimit \in Nat
  BY ValidateAssumption DEF TypeOK
<1>3. CASE Passed(tok, n)
  <2>1. Reads(tok, n) /\ Keeps /\ skip = <<>> /\ skip' = <<>> /\ b' = b - 1 - n
    BY <1>3 DEF Passed
  <2>2. Cur(Len(states)) = Len(input) /\ Cur(Len(states))' = Len(input')
    BY <2>1 DEF Cur, Keeps
  <2>3. Len(input) <= Len(input')
    BY <2>1 DEF Reads, Grows
  <2>4. Stack'
    BY <2>1, <2>2, <2>3, KeepsStack
  <2>5. SkipStack'
    BY <1>2, <2>1 DEF SkipStack
  <2> QED
    BY <2>1, <2>4, <2>5, ReadWithin DEF Layout, Keeps
<1>4. CASE Opened(tok)
  <2>1. Reads(tok, 0) /\ Keeps /\ b' = b - 1 /\ tok.wtyp = "start" /\ skip' = Append(skip, Open(tok))
        /\ Len(skip) <= DefaultRecursionLimit
        /\ (skip = <<>> => FieldIn(st, tok.num).resolves /\ FieldIn(st, tok.num).typ # "group")
    BY <1>4 DEF Opened
  <2>2. Cur(Len(states)) = Cur(Len(states))' /\ Cur(Len(states)) \in Int
    <3>1. CASE skip = <<>>
      <4>1. skip' # <<>> /\ skip'[1] = Open(tok)
        BY <2>1, <3>1
      <4>2. Cur(Len(states))' = Len(input)
        BY <1>1, <2>1, <4>1 DEF Cur, Keeps, Open
      <4> QED
        BY <1>1, <3>1, <4>2 DEF Cur
    <3>2. CASE skip # <<>>
      <4>0. PICK P : P = [num : Nat \ {0}, start : Nat]
        OBVIOUS
      <4>3. Open(tok) \in P
        <5>1. tok.num \in Nat \ {0}
          BY <2>1 DEF Reads, Token
        <5> QED
          BY <1>1, <4>0, <5>1 DEF Open
      <4>4. skip \in Seq(P) /\ Len(skip) > 0
        BY <3>2, <4>0 DEF TypeOK
      <4>1. skip' # <<>> /\ skip'[1] = skip[1]
        BY <1>1, <2>1, <4>3, <4>4, OneMore
      <4>2. skip[1].start \in Nat
        BY <1>1, <3>2, SkipType DEF TypeOK
      <4> QED
        BY <2>1, <3>2, <4>1, <4>2 DEF Cur, Keeps
    <3> QED
      BY <3>1, <3>2
  <2>3. b' = b - 1 - 0 /\ Cur(Len(states)) <= Cur(Len(states))'
    BY <1>1, <2>1, <2>2
  <2>4. Stack' /\ Same(st', st)
    BY <2>1, <2>3, KeepsStack
  <2>5. Grows /\ Len(input') = Len(input) + 1 /\ input'[Len(input) + 1] = tok
    BY <1>1, <2>1 DEF Reads
  <2>6. SkipStack'
    BY <1>1, <2>1, <2>4, <2>5, SkipPushed DEF SkipStack
  <2> QED
    BY <2>1, <2>4, <2>6, ReadWithin DEF Layout, Keeps
<1>5. CASE SkippedOver(tok, n) \/ Closed(tok)
  <2>1. PICK k \in Nat : Reads(tok, k) /\ Keeps /\ b' = b - 1 - k /\ skip # <<>>
    <3>1. CASE SkippedOver(tok, n)
      <4>1. n \in Nat /\ Reads(tok, n) /\ Keeps /\ b' = b - 1 - n /\ skip # <<>>
        BY <3>1 DEF SkippedOver, Reads
      <4> QED
        BY <4>1
    <3>2. CASE Closed(tok)
      <4>1. Reads(tok, 0) /\ Keeps /\ b' = b - 1 - 0 /\ skip # <<>>
        BY <1>1, <3>2 DEF Closed
      <4> QED
        BY <4>1
    <3> QED
      BY <1>5, <3>1, <3>2
  <2>2. /\ Len(skip') \in Nat /\ Len(skip') <= Len(skip) /\ \A i \in 1 .. Len(skip') : skip'[i] = skip[i]
    <3>1. skip' = skip \/ skip' = SubSeq(skip, 1, Len(skip) - 1)
      BY <1>5 DEF SkippedOver, Closed
    <3>2. PICK P : P = [num : Nat \ {0}, start : Nat]
      OBVIOUS
    <3>3. skip \in Seq(P) /\ Len(skip) > 0
      BY <1>1, <2>1, <3>2 DEF TypeOK
    <3>4. CASE skip' = SubSeq(skip, 1, Len(skip) - 1)
      <4>1. Len(skip') = Len(skip) - 1 /\ \A i \in 1 .. Len(skip) - 1 : skip'[i] = skip[i]
        BY <2>1, <3>3, <3>4, Butlast
      <4> QED
        BY <3>3, <4>1
    <3> QED
      BY <1>1, <3>1, <3>4
  <2>3. Len(skip) > 0 /\ (skip' # <<>> <=> Len(skip') > 0) /\ \A i \in 1 .. Len(skip) : skip[i].start \in Nat
    <3>1. (skip' # <<>> <=> Len(skip') > 0)
      BY SkipType DEF TypeOK
    <3> QED
      BY <2>1, <3>1, SkipType DEF TypeOK
  <2>4. Cur(Len(states)) <= Cur(Len(states))'
    <3>1. Cur(Len(states)) = skip[1].start - 1 /\ skip[1].start \in Nat
      BY <1>1, <2>1, <2>3 DEF Cur
    <3>2. CASE skip' # <<>>
      <4>1. skip'[1] = skip[1] /\ Cur(Len(states))' = skip'[1].start - 1
        BY <2>1, <2>2, <2>3, <3>2 DEF Cur, Keeps
      <4> QED
        BY <3>1, <4>1
    <3>3. CASE skip' = <<>>
      <4>1. Cur(Len(states))' = Len(input')
        BY <2>1, <3>3 DEF Cur, Keeps
      <4>2. skip[1].start <= Len(input)
        BY <1>1, <2>3 DEF SkipStack, Skipped
      <4>3. Len(input) <= Len(input')
        BY <2>1 DEF Reads, Grows
      <4> QED
        BY <1>1, <1>2, <3>1, <4>1, <4>2, <4>3
    <3> QED
      BY <3>2, <3>3
  <2>5. Stack' /\ Same(st', st)
    BY <2>1, <2>4, KeepsStack
  <2>6. Grows
    BY <2>1 DEF Reads
  <2>7. SkipStack'
    <3>1. CASE skip' # <<>>
      BY <1>1, <2>2, <2>5, <2>6, <3>1, SkipStays
    <3>2. CASE skip' = <<>>
      BY <1>2, <3>2 DEF SkipStack
    <3> QED
      BY <3>1, <3>2
  <2> QED
    BY <2>1, <2>5, <2>7, ReadWithin DEF Layout, Keeps
<1>6. CASE Entered(tok, y)
  <2>1. PICK at : at = Len(input) + 1
    OBVIOUS
  <2>2. Reads(tok, 0) /\ Grows /\ Len(input') = at /\ input'[at] = tok
    BY <1>1, <1>6, <2>1 DEF Entered, Reads
  <2>3. y.level \in Nat
    BY <1>6 DEF Entered, validationState
  <2>4. deepest <= deepest' /\ y.level <= deepest'
    BY <1>1, <1>6, <2>3 DEF Entered
  <2>5. /\ Len(states') = Len(states) + 1 /\ Below(Len(states)) /\ y = states'[Len(states) + 1]
        /\ skip = <<>> /\ skip' = <<>> /\ ChildOf(st, y, tok, at) /\ (y.typ = "group" <=> y.endGroup # 0)
        /\ (y.endGroup # 0 => y.tail = 0) /\ y.slice[2] = at + b' /\ st.slice[2] = y.slice[2] + y.tail
        /\ result' = "run"
    BY <1>6, <2>1 DEF Entered
  <2>6. Stack'
    BY <1>1, <2>1, <2>2, <2>4, <2>5, StackPushed
  <2>7. SkipStack'
    BY <1>2, <2>5 DEF SkipStack
  <2> QED
    BY <2>2, <2>5, <2>6, <2>7, ReadWithin DEF Layout
<1>7. CASE EndedByTag(tok) \/ EndedBySlice
  <2>1. Grows /\ Pops
    BY <1>7 DEF EndedByTag, EndedBySlice, Reads, Ends
  <2>2. Len(input') <= total' /\ total' = total
    <3>1. CASE EndedByTag(tok)
      BY <3>1, ReadWithin DEF EndedByTag
    <3>2. CASE EndedBySlice
      BY <3>2 DEF EndedBySlice, Ends, Grows, Layout
    <3> QED
      BY <1>7, <3>1, <3>2
  <2>3. CASE Len(states) = 1
    <3>1. result' = "valid" /\ Len(states') = 0
      BY <2>1, <2>3 DEF Pops
    <3>2. states' = <<>>
      BY <3>1 DEF TypeOK
    <3>3. Len(input) + b = total /\ st.tail = 0
      BY <1>1, <2>3 DEF Stack, Root, st
    <3>4. Len(input') + b' = total'
      BY <1>1, <2>1, <2>2, <3>3 DEF Pops
    <3> QED
      BY <2>2, <3>1, <3>2, <3>4 DEF Layout
  <2>4. CASE Len(states) # 1
    <3>1. result' = "run" /\ Len(states) > 1
      BY <1>1, <2>1, <2>4 DEF Pops
    <3>2. Stack'
      BY <1>1, <2>1, <3>1, StackPopped DEF Pops
    <3>3. SkipStack'
      BY <1>2, <2>1 DEF SkipStack, Pops
    <3> QED
      BY <2>2, <3>1, <3>2, <3>3 DEF Layout
  <2> QED
    BY <2>3, <2>4
<1>8. CASE Refuses(tok) \/ Truncated \/ Unsure(tok)
  <2>1. result' \in {"invalid", "unknown"}
    BY <1>8 DEF Refuses, Truncated, Unsure, Stops
  <2>2. Len(input') <= total'
    <3>1. CASE Truncated
      BY <3>1 DEF Truncated, Ends, Grows, Layout
    <3>2. CASE Refuses(tok) \/ Unsure(tok)
      BY <3>2, ReadWithin DEF Refuses, Unsure
    <3> QED
      BY <1>8, <3>1, <3>2
  <2> QED
    BY <2>1, <2>2 DEF Layout
<1> QED
  BY <1>3, <1>4, <1>5, <1>6, <1>7, <1>8 DEF Kinds

LEMMA InitLayout ==
  ASSUME Init
  PROVE  TypeOK /\ Layout
<1>0. PICK x : x = State(IF groupTag = 0 THEN "message" ELSE "group", Top, groupTag, 0, <<0, total>>, 1)
  OBVIOUS
<1>1. /\ groupTag \in {0, Group} /\ total \in Nat /\ input = <<>> /\ b = total /\ skip = <<>> /\ states = << x >>
      /\ initialized = TRUE /\ result = "run" /\ deepest = 1 /\ unreported = FALSE
  BY <1>0, ValidateAssumption DEF Init
<1>2. groupTag \in Nat /\ Top \in DOMAIN Schema
  BY <1>1, ValidateAssumption
<1>3. x \in validationState /\ x.slice = <<0, total>> /\ x.mi = Top /\ x.endGroup = groupTag /\ x.typ # "map"
      /\ x.level = 1 /\ x.tail = 0 /\ (x.typ = "group" <=> groupTag # 0)
  BY <1>0, <1>1, <1>2 DEF State, validationState
<1>4. Len(states) = 1 /\ states[1] = x /\ st = x /\ Len(input) = 0 /\ Len(skip) = 0 /\ states # <<>>
  BY <1>1 DEF st
<1>5. TypeOK
  <2>1. input \in Seq(Token) /\ skip \in Seq([num : Nat \ {0}, start : Nat])
    BY <1>1
  <2>2. states \in Seq(validationState)
    BY <1>1, <1>3
  <2> QED
    BY <1>1, <2>1, <2>2 DEF TypeOK
<1>6. Root /\ st.slice[2] = Len(input) + b
  BY <1>1, <1>3, <1>4 DEF Root
<1>7. Placed(1)
  BY <1>1, <1>3, <1>4 DEF Placed, Cur
<1>8. Stack
  BY <1>1, <1>4, <1>6, <1>7 DEF Stack
<1>9. SkipStack
  BY <1>1, <1>4, ValidateAssumption DEF SkipStack
<1> QED
  BY <1>1, <1>4, <1>5, <1>8, <1>9 DEF Layout

(* The steps of the specification keep the types and the layout. *)
LEMMA StepKeepsLayout ==
  ASSUME TypeOK, Layout, [Next]_vars
  PROVE  TypeOK' /\ Layout'
<1>1. CASE Next
  <2>1. TypeOK'
    BY <1>1, StepType
  <2>2. PICK tok, n, y : Kinds(tok, n, y)
    BY <1>1, StepKind
  <2> QED
    BY <2>1, <2>2, StepLayout
<1>2. CASE vars' = vars
  <2>1. TypeOK'
    BY <1>2 DEF vars, TypeOK
  <2>2. Stack' = Stack /\ SkipStack' = SkipStack
    BY <1>2 DEF vars, Stack, SkipStack, Root, Placed, Nested, Skipped, Cur, SkipCur, st
  <2>3. Layout'
    BY <1>2, <2>2 DEF vars, Layout
  <2> QED
    BY <2>1, <2>3
<1> QED
  BY <1>1, <1>2

(* The variables of validate have their types, and the stack its layout.   *)
THEOREM LayoutTheorem == Spec => [](TypeOK /\ Layout)
<1>1. Init => TypeOK /\ Layout
  BY InitLayout
<1>2. TypeOK /\ Layout /\ [Next]_vars => (TypeOK /\ Layout)'
  BY StepKeepsLayout
<1> QED
  BY <1>1, <1>2, PTL DEF Spec

(* Every variable of validate has a value of its type, in buffers of any    *)
(* length and messages nested to any depth: the bits of requiredMask are    *)
(* below its width, the rest of a slice is never negative.                  *)
THEOREM TypeCorrect == Spec => []TypeOK
BY LayoutTheorem, PTL

(* The slices on the stack and what was read make up the buffer.            *)
THEOREM SlicesAddUpTheorem == Spec => []SlicesAddUp
<1>1. TypeOK /\ Layout => SlicesAddUp
  BY AddsUp
<1> QED
  BY <1>1, LayoutTheorem, PTL

-----------------------------------------------------------------------------
(* The loop of a state, from record to record. *)

RunsTo(buf, x, s) ==
  s \in Outcome(buf) /\ s.err = "run" /\ Runs(FrameBody(buf, x, Sub(buf, x)), FrameFirst(x), s)

Ready(buf, x) == buf \in Seq(Token) /\ FrameOK(buf, x) /\ x.level <= RecursionLimit

LEMMA ReadyFacts ==
  ASSUME NEW buf, NEW x, Ready(buf, x)
  PROVE  /\ Sub(buf, x) \in SubType(buf) /\ x \in validationState
         /\ FrameBody(buf, x, Sub(buf, x)) \in [Outcome(buf) -> Outcome(buf)]
         /\ FrameFirst(x) \in Outcome(buf) /\ FrameFirst(x).n = x.slice[1] /\ FrameFirst(x).err = "run"
         /\ FrameFirst(x).mask = {} /\ (FrameFirst(x).initialized <=> x.typ # "map")
<1>1. buf \in Seq(Token) /\ FrameOK(buf, x) /\ x.level <= RecursionLimit /\ x \in validationState
  BY DEF Ready, FrameOK
<1>2. Sub(buf, x) \in SubType(buf)
  BY <1>1, SubIs
<1> QED
  BY <1>1, <1>2, FrameBodyType

LEMMA RunsFirst ==
  ASSUME NEW buf, NEW x, Ready(buf, x)
  PROVE  RunsTo(buf, x, FrameFirst(x))
<1>1. /\ FrameBody(buf, x, Sub(buf, x)) \in [Outcome(buf) -> Outcome(buf)]
      /\ FrameFirst(x) \in Outcome(buf) /\ FrameFirst(x).err = "run" /\ buf \in Seq(Token)
  BY ReadyFacts DEF Ready
<1>2. Runs(FrameBody(buf, x, Sub(buf, x)), FrameFirst(x), FrameFirst(x))
  BY <1>1, RunStart
<1> QED
  BY <1>1, <1>2 DEF RunsTo

LEMMA RunsNext ==
  ASSUME NEW buf, NEW x, Ready(buf, x), NEW s, RunsTo(buf, x, s),
         NEW r, r = FrameBody(buf, x, Sub(buf, x))[s], r.err = "run", r.n > s.n
  PROVE  RunsTo(buf, x, r)
<1>1. /\ FrameBody(buf, x, Sub(buf, x)) \in [Outcome(buf) -> Outcome(buf)]
      /\ FrameFirst(x) \in Outcome(buf) /\ buf \in Seq(Token) /\ s \in Outcome(buf)
      /\ Runs(FrameBody(buf, x, Sub(buf, x)), FrameFirst(x), s)
  BY ReadyFacts DEF Ready, RunsTo
<1>2. Runs(FrameBody(buf, x, Sub(buf, x)), FrameFirst(x), r)
  BY <1>1, RunStep
<1>3. r \in Outcome(buf)
  BY <1>1
<1> QED
  BY <1>2, <1>3 DEF RunsTo

LEMMA RunsOut ==
  ASSUME NEW buf, NEW x, Ready(buf, x), NEW s, RunsTo(buf, x, s),
         NEW t, FrameBody(buf, x, Sub(buf, x))[s] = t, t.err # "run"
  PROVE  FrameLoop(buf, x, Sub(buf, x)) = t
<1>1. /\ FrameBody(buf, x, Sub(buf, x)) \in [Outcome(buf) -> Outcome(buf)]
      /\ FrameFirst(x) \in Outcome(buf) /\ buf \in Seq(Token) /\ s \in Outcome(buf)
      /\ Runs(FrameBody(buf, x, Sub(buf, x)), FrameFirst(x), s)
  BY ReadyFacts DEF Ready, RunsTo
<1>2. t \in Outcome(buf)
  BY <1>1
<1>3. FrameBody(buf, x, Sub(buf, x))[t] = t
  BY <1>1, <1>2, FrameFix
<1> QED
  BY <1>1, <1>3, RunEnd DEF FrameLoop

(* A record that validate passes over. *)
LEMMA RunsPass ==
  ASSUME NEW buf, NEW x, Ready(buf, x), NEW s, RunsTo(buf, x, s), s.n < x.slice[2], NEW tok, tok = buf[s.n + 1],
         Passes(x, tok), s.n + 1 + Width(tok) <= x.slice[2]
  PROVE  \E r : /\ RunsTo(buf, x, r) /\ r.n = s.n + 1 + Width(tok) /\ r.initialized = s.initialized
                /\ x.typ # "map" => r.mask = s.mask \cup FrameBit(x, tok)
<1>1. /\ buf \in Seq(Token) /\ FrameOK(buf, x) /\ Sub(buf, x) \in SubType(buf) /\ s \in Outcome(buf) /\ s.err = "run"
  BY ReadyFacts DEF Ready, RunsTo
<1>2. PICK r : r = FrameBody(buf, x, Sub(buf, x))[s]
  OBVIOUS
<1>3. r.err = "run" /\ r.n = s.n + 1 + Width(tok) /\ r.initialized = s.initialized
      /\ (x.typ # "map" => r.mask = s.mask \cup FrameBit(x, tok))
  BY <1>1, <1>2, FramePasses
<1>4. s.n \in Nat /\ Width(tok) \in Nat
  <2>1. s.n \in Nat /\ tok.size \in Nat
    BY <1>1, FrameTok
  <2> QED
    BY <2>1 DEF Width
<1>5. r.n > s.n
  BY <1>3, <1>4
<1> QED
  BY <1>2, <1>3, <1>5, RunsNext

(* A value that is consumed, a group. *)
LEMMA RunsOver ==
  ASSUME NEW buf, NEW x, Ready(buf, x), NEW s, RunsTo(buf, x, s), s.n < x.slice[2], NEW tok, tok = buf[s.n + 1],
         FieldIn(x, tok.num).resolves, tok.wtyp \notin Expects(FieldIn(x, tok.num).typ), tok.wtyp # "end",
         NEW m, m = FieldEnd(buf, tok, s.n + 1, x.slice[2])
  PROVE  /\ m > s.n => \E r : RunsTo(buf, x, r) /\ r.n = m /\ r.initialized = s.initialized /\ r.mask = s.mask
         /\ m < 0 => FrameLoop(buf, x, Sub(buf, x)) = Fails("decode")
<1>1. /\ buf \in Seq(Token) /\ FrameOK(buf, x) /\ Sub(buf, x) \in SubType(buf) /\ s \in Outcome(buf) /\ s.err = "run"
  BY ReadyFacts DEF Ready, RunsTo
<1>2. PICK r : r = FrameBody(buf, x, Sub(buf, x))[s]
  OBVIOUS
<1>3. Consumed(s, m, r)
  BY <1>1, <1>2, FrameConsume
<1>4. s.n \in Nat
  BY <1>1, FrameTok
<1>5. m \in (0 .. Len(buf)) \cup {-1}
  BY <1>1, FrameTok
<1>6. ASSUME m > s.n
      PROVE  \E q : RunsTo(buf, x, q) /\ q.n = m /\ q.initialized = s.initialized /\ q.mask = s.mask
  <2>1. m >= 0
    BY <1>4, <1>5, <1>6
  <2>2. r.err = "run" /\ r.n = m /\ r.mask = s.mask /\ r.initialized = s.initialized
    BY <1>3, <2>1, Zenon DEF Consumed
  <2> QED
    BY <1>2, <1>6, <2>2, RunsNext
<1>7. ASSUME m < 0
      PROVE  FrameLoop(buf, x, Sub(buf, x)) = Fails("decode")
  <2>1. r = Fails("decode") /\ r.err # "run"
    BY <1>3, <1>7 DEF Consumed, Fails
  <2> QED
    BY <1>2, <2>1, RunsOut
<1> QED
  BY <1>6, <1>7

(* What stops the loop with an error. *)
LEMMA RunsRefused ==
  ASSUME NEW buf, NEW x, Ready(buf, x), NEW s, RunsTo(buf, x, s),
         \/ s.n = x.slice[2] /\ x.endGroup # 0
         \/ s.n < x.slice[2] /\ buf[s.n + 1].wtyp = "end" /\ x.endGroup # buf[s.n + 1].num
         \/ s.n < x.slice[2] /\ IsMalformed(x, buf[s.n + 1], x.slice[2] - s.n)
  PROVE  FrameLoop(buf, x, Sub(buf, x)) = Fails("decode")
<1>1. /\ buf \in Seq(Token) /\ FrameOK(buf, x) /\ Sub(buf, x) \in SubType(buf) /\ s \in Outcome(buf) /\ s.err = "run"
  BY ReadyFacts DEF Ready, RunsTo
<1>2. FrameBody(buf, x, Sub(buf, x))[s] = Fails("decode")
  <2>1. CASE s.n = x.slice[2] /\ x.endGroup # 0
    BY <1>1, <2>1, FrameEnds
  <2>2. CASE s.n < x.slice[2] /\ buf[s.n + 1].wtyp = "end" /\ x.endGroup # buf[s.n + 1].num
    BY <1>1, <2>2, FrameEndTag
  <2>3. CASE s.n < x.slice[2] /\ IsMalformed(x, buf[s.n + 1], x.slice[2] - s.n)
    BY <1>1, <2>3, FrameMalformed
  <2> QED
    BY <2>1, <2>2, <2>3
<1>3. Fails("decode").err # "run"
  BY DEF Fails
<1> QED
  BY <1>2, <1>3, RunsOut

(* What a loop that is at its end reports. *)
Reports(x, s) ==
  IF x.typ = "map" THEN s.initialized ELSE s.initialized /\ AllSeen(s.mask, numRequiredFields(x.mi))

(* What ends the loop. *)
LEMMA RunsDone ==
  ASSUME NEW buf, NEW x, Ready(buf, x), NEW s, RunsTo(buf, x, s)
  PROVE  /\ s.n = x.slice[2] /\ x.endGroup = 0 =>
               FrameLoop(buf, x, Sub(buf, x)) = Done(s.n, Reports(x, s))
         /\ s.n < x.slice[2] /\ buf[s.n + 1].wtyp = "end" /\ x.endGroup = buf[s.n + 1].num =>
               x.typ = "group" /\ FrameLoop(buf, x, Sub(buf, x)) = Done(s.n + 1, Reports(x, s))
<1>1. /\ buf \in Seq(Token) /\ FrameOK(buf, x) /\ Sub(buf, x) \in SubType(buf) /\ s \in Outcome(buf) /\ s.err = "run"
  BY ReadyFacts DEF Ready, RunsTo
<1>2. \A n, ok : Done(n, ok).err # "run"
  BY DEF Done
<1>3. ASSUME s.n = x.slice[2], x.endGroup = 0
      PROVE  FrameLoop(buf, x, Sub(buf, x)) = Done(s.n, Reports(x, s))
  <2>1. FrameBody(buf, x, Sub(buf, x))[s] = Done(s.n, Reports(x, s))
    <3>1. CASE x.typ = "map"
      <4>1. FrameBody(buf, x, Sub(buf, x))[s] = Done(s.n, s.initialized)
        BY <1>1, <1>3, <3>1, FrameEnds
      <4> QED
        BY <3>1, <4>1, Zenon DEF Reports
    <3>2. CASE x.typ # "map"
      <4>1. FrameBody(buf, x, Sub(buf, x))[s] =
              Done(s.n, s.initialized /\ AllSeen(s.mask, numRequiredFields(x.mi)))
        BY <1>1, <1>3, <3>2, FrameEnds
      <4> QED
        BY <3>2, <4>1, Zenon DEF Reports
    <3> QED
      BY <3>1, <3>2
  <2> QED
    BY <1>2, <2>1, RunsOut
<1>4. ASSUME s.n < x.slice[2], buf[s.n + 1].wtyp = "end", x.endGroup = buf[s.n + 1].num
      PROVE  x.typ = "group" /\ FrameLoop(buf, x, Sub(buf, x)) = Done(s.n + 1, Reports(x, s))
  <2>1. x.typ = "group" /\ FrameBody(buf, x, Sub(buf, x))[s] =
              Done(s.n + 1, s.initialized /\ AllSeen(s.mask, numRequiredFields(x.mi)))
    BY <1>1, <1>4, FrameEndTag
  <2>2. FrameBody(buf, x, Sub(buf, x))[s] = Done(s.n + 1, Reports(x, s))
    BY <2>1, Zenon DEF Reports
  <2> QED
    BY <1>2, <2>1, <2>2, RunsOut
<1> QED
  BY <1>3, <1>4

(* What the loop of the state above makes of the loop of a state. *)
LEMMA RunsChild ==
  ASSUME NEW buf, NEW x, Ready(buf, x), NEW s, RunsTo(buf, x, s), s.n < x.slice[2], NEW tok, tok = buf[s.n + 1],
         NEW y, FrameOK(buf, y), ChildOf(x, y, tok, s.n + 1), NEW c, c = FrameLoop(buf, y, Sub(buf, y))
  PROVE  /\ y.level > RecursionLimit => FrameLoop(buf, x, Sub(buf, x)) = Fails("depth")
         /\ y.level <= RecursionLimit /\ c.err \in {"decode", "depth"} => FrameLoop(buf, x, Sub(buf, x)) = c
         /\ y.level <= RecursionLimit /\ c.err = "none" /\ Result(y, c).n > s.n =>
               \E r : RunsTo(buf, x, r) /\ r.n = Result(y, c).n /\ Advanced(x, s, tok, Result(y, c), r)
<1>1. /\ buf \in Seq(Token) /\ FrameOK(buf, x) /\ Sub(buf, x) \in SubType(buf) /\ s \in Outcome(buf) /\ s.err = "run"
      /\ x.level <= RecursionLimit
  BY ReadyFacts DEF Ready, RunsTo
<1>2. s.n + 1 \in 0 .. Len(buf) /\ tok \in Token
  BY <1>1, FrameTok
<1>3. PICK v : v = FrameValue(buf, x, tok, s.n + 1, Sub(buf, x))
  OBVIOUS
<1>4. PICK r : r = FrameBody(buf, x, Sub(buf, x))[s]
  OBVIOUS
<1>5. Advanced(x, s, tok, v, r)
  BY <1>1, <1>3, <1>4, FrameAdvance DEF ChildOf
<1>6. y.level > RecursionLimit => v = Fails("depth")
  BY <1>1, <1>2, <1>3, ChildValue
<1>7. y.level <= RecursionLimit => v = Result(y, c)
  BY <1>1, <1>2, <1>3, ChildValue
<1>8. ASSUME v.err \in {"decode", "depth"}
      PROVE  FrameLoop(buf, x, Sub(buf, x)) = v
  <2>1. r = v
    BY <1>5, <1>8 DEF Advanced
  <2> QED
    BY <1>4, <1>8, <2>1, RunsOut
<1>9. ASSUME y.level > RecursionLimit
      PROVE  FrameLoop(buf, x, Sub(buf, x)) = Fails("depth")
  BY <1>6, <1>8, <1>9 DEF Fails
<1>10. ASSUME y.level <= RecursionLimit, c.err \in {"decode", "depth"}
       PROVE  FrameLoop(buf, x, Sub(buf, x)) = c
  <2>1. v = c
    BY <1>7, <1>10 DEF Result
  <2> QED
    BY <1>8, <1>10, <2>1
<1>11. ASSUME y.level <= RecursionLimit, c.err = "none", Result(y, c).n > s.n
       PROVE  \E q : RunsTo(buf, x, q) /\ q.n = Result(y, c).n /\ Advanced(x, s, tok, Result(y, c), q)
  <2>1. v = Result(y, c) /\ v.err = "none"
    BY <1>7, <1>11 DEF Result, Done
  <2>2. r.err = "run" /\ r.n = v.n
    BY <1>5, <2>1, Zenon DEF Advanced
  <2>3. RunsTo(buf, x, r)
    BY <1>4, <1>11, <2>1, <2>2, RunsNext
  <2> QED
    BY <1>5, <2>1, <2>2, <2>3
<1> QED
  BY <1>9, <1>10, <1>11

-----------------------------------------------------------------------------
(* The stack of validate, and the loops of the decoder that it stands for. *)

(* The buffers that begin with what was read. *)
Completion(buf) ==
  buf \in Seq(Token) /\ Len(buf) = total /\ \A i \in 1 .. Len(input) : buf[i] = input[i]

Whole(buf) == Unmarshal(buf)[RecursionLimit][Top][groupTag][total][0]

Decoding(buf, j) == \E s : RunsTo(buf, states[j], s) /\ s.n = Cur(j)

SkipsAt(buf, k) ==
  \A n \in Nat \ {0} : n = DefaultRecursionLimit + 2 - k \/ n > total - skip[k].start =>
     GroupRun(buf, skip[k].num, st.slice[2], skip[k].start, SkipCur(k), n)

Skipping(buf) == \A k \in 1 .. Len(skip) : SkipsAt(buf, k)

Agrees(buf) ==
  /\ result = "run" => Skipping(buf)
  /\ result = "run" /\ deepest <= RecursionLimit => \A j \in 1 .. Len(states) : Decoding(buf, j)
  /\ deepest > RecursionLimit => Whole(buf) = Fails("depth")
  /\ result = "invalid" /\ deepest <= RecursionLimit => Whole(buf).err = "decode"
  /\ result = "valid" /\ deepest <= RecursionLimit => Whole(buf).err = "none" /\ Whole(buf).n = Len(input)

(* The states of the stack are ready to be decoded. *)
LEMMA FrameIs ==
  ASSUME TypeOK, Layout, result = "run", NEW buf, Completion(buf), NEW j \in 1 .. Len(states)
  PROVE  FrameOK(buf, states[j]) /\ (deepest <= RecursionLimit => Ready(buf, states[j]))
<1>1. Placed(j) /\ states[j] \in validationState
  BY DEF Layout, Stack, TypeOK
<1>2. states[j].slice[1] \in Nat /\ states[j].slice[2] \in Nat /\ states[j].level \in Nat
  BY <1>1 DEF validationState
<1>3. buf \in Seq(Token) /\ Len(buf) = total /\ total \in Nat /\ deepest \in Nat
  BY DEF Completion, TypeOK
<1>4. states[j].slice[1] \in 0 .. Len(buf) /\ states[j].slice[2] \in 0 .. Len(buf)
  BY <1>1, <1>2, <1>3 DEF Placed
<1>5. FrameOK(buf, states[j])
  BY <1>1, <1>4 DEF FrameOK, Placed
<1>6. deepest <= RecursionLimit => states[j].level <= RecursionLimit
  BY <1>1, <1>2, <1>3, ValidateAssumption DEF Placed
<1> QED
  BY <1>3, <1>5, <1>6 DEF Ready

(* The records that the states below the top are at. *)
LEMMA CurFacts ==
  ASSUME TypeOK, Layout, result = "run", NEW buf, Completion(buf), NEW j \in 1 .. Len(states), j < Len(states)
  PROVE  /\ j + 1 \in 1 .. Len(states) /\ Cur(j) \in Nat /\ Cur(j) < states[j].slice[2] /\ Cur(j) < Len(input)
         /\ states[j + 1].slice[1] = Cur(j) + 1 /\ states[j + 1].slice[2] > Cur(j)
         /\ ChildOf(states[j], states[j + 1], buf[Cur(j) + 1], Cur(j) + 1)
<1>1. j + 1 \in 1 .. Len(states)
  BY DEF TypeOK
<1>2. Placed(j) /\ Placed(j + 1) /\ Nested(j) /\ states[j] \in validationState /\ states[j + 1] \in validationState
  BY <1>1 DEF Layout, Stack, TypeOK
<1>a. Len(input) \in Nat
  BY DEF TypeOK
<1>3. /\ states[j].slice[2] \in Nat /\ states[j + 1].slice[1] \in Nat /\ states[j + 1].slice[2] \in Nat
      /\ states[j + 1].tail \in Nat /\ Len(input) \in Nat
  BY <1>2, <1>a DEF validationState
<1>4. Cur(j) = states[j + 1].slice[1] - 1
  BY DEF Cur
<1>5. states[j + 1].slice[1] \in 1 .. Len(input) /\ states[j + 1].slice[1] <= states[j + 1].slice[2]
      /\ states[j].slice[2] = states[j + 1].slice[2] + states[j + 1].tail
  BY <1>2 DEF Nested, Placed
<1>6. Cur(j) \in Nat /\ Cur(j) < states[j].slice[2] /\ Cur(j) < Len(input) /\ states[j + 1].slice[1] = Cur(j) + 1
      /\ states[j + 1].slice[2] > Cur(j)
  <2>1. PICK c, p, q, r, t : /\ c = Cur(j) /\ p = states[j + 1].slice[1] /\ q = states[j + 1].slice[2]
                             /\ r = states[j].slice[2] /\ t = states[j + 1].tail
    OBVIOUS
  <2>2. p \in Nat /\ q \in Nat /\ r \in Nat /\ t \in Nat /\ c = p - 1 /\ p \in 1 .. Len(input) /\ p <= q /\ r = q + t
    BY <1>3, <1>4, <1>5, <2>1
  <2>3. c \in Nat /\ c < r /\ c < Len(input) /\ p = c + 1 /\ q > c
    BY <1>a, <2>2
  <2> QED
    BY <2>1, <2>3
<1>7. buf[Cur(j) + 1] = input[Cur(j) + 1]
  <2>1. Cur(j) + 1 \in 1 .. Len(input)
    BY <1>5, <1>6
  <2> QED
    BY <2>1 DEF Completion
<1>8. ChildOf(states[j], states[j + 1], input[Cur(j) + 1], Cur(j) + 1)
  BY <1>2, <1>6 DEF Nested
<1> QED
  BY <1>1, <1>6, <1>7, <1>8

(* The bottom of the stack is what was asked for. *)
LEMMA RootLoop ==
  ASSUME TypeOK, Layout, result = "run", NEW buf, Completion(buf)
  PROVE  FrameLoop(buf, states[1], Sub(buf, states[1])) = Whole(buf)
<1>1. Root /\ buf \in Seq(Token) /\ Len(buf) = total /\ total \in Nat /\ groupTag \in Nat /\ Top \in DOMAIN Schema
  BY ValidateAssumption DEF Layout, Stack, Completion, TypeOK
<1>2. PICK x : x = states[1]
  OBVIOUS
<1>3. x.slice[1] = 0 /\ x.slice[2] = total /\ x.mi = Top /\ x.endGroup = groupTag /\ x.typ # "map" /\ x.level = 1
  BY <1>1, <1>2 DEF Root
<1>4. PICK d : d = RecursionLimit - 1
  OBVIOUS
<1>5. d \in Nat /\ d + 1 = RecursionLimit
  BY <1>4, ValidateAssumption
<1>6. PICK sub : sub = Unmarshal(buf)[d]
  OBVIOUS
<1>7. Sub(buf, x) = sub
  BY <1>3, <1>4, <1>6 DEF Sub
<1>8. Unmarshal(buf)[d + 1] = SubStep(buf, sub)
  BY <1>1, <1>5, <1>6, UnmarshalDef
<1>9. SubStep(buf, sub)[Top][groupTag][total][0] = Loop(buf, MessageBody(buf, Top, groupTag, total, sub), Begun(0, TRUE))
  BY <1>1 DEF SubStep
<1>10. FrameFirst(x) = Begun(0, TRUE)
  BY <1>3 DEF FrameFirst
<1>11. FrameBody(buf, x, sub) = MessageBody(buf, Top, groupTag, total, sub)
  BY <1>3 DEF FrameBody
<1> QED
  BY <1>2, <1>5, <1>7, <1>8, <1>9, <1>10, <1>11 DEF Whole, FrameLoop

(* An error at the top of the stack is the result. *)
LEMMA Sinks ==
  ASSUME TypeOK, Layout, result = "run", deepest <= RecursionLimit, NEW buf, Completion(buf),
         \A j \in 1 .. Len(states) : Decoding(buf, j),
         NEW t, t.err \in {"decode", "depth"}, FrameLoop(buf, st, Sub(buf, st)) = t
  PROVE  Whole(buf) = t
<1>1. PICK L : L = Len(states)
  OBVIOUS
<1>2. L \in Nat \ {0}
  BY <1>1, Running
<1> DEFINE T == {k \in Nat : k < L => FrameLoop(buf, states[L - k], Sub(buf, states[L - k])) = t}
<1>3. 0 \in T
  <2>1. states[L - 0] = st
    BY <1>1, <1>2 DEF st
  <2> QED
    BY <2>1
<1>4. ASSUME NEW m \in Nat, m \in T
      PROVE  m + 1 \in T
  <2>1. SUFFICES ASSUME m + 1 < L
                 PROVE  FrameLoop(buf, states[L - (m + 1)], Sub(buf, states[L - (m + 1)])) = t
    OBVIOUS
  <2>2. PICK j : j = L - (m + 1)
    OBVIOUS
  <2>3. j \in 1 .. Len(states) /\ j < Len(states) /\ j + 1 = L - m
    BY <1>1, <1>2, <2>1, <2>2
  <2>4. PICK x, y : x = states[j] /\ y = states[j + 1]
    OBVIOUS
  <2>5. FrameLoop(buf, y, Sub(buf, y)) = t
    BY <1>2, <1>4, <2>1, <2>3, <2>4
  <2>6. PICK s : RunsTo(buf, x, s) /\ s.n = Cur(j)
    BY <2>3, <2>4 DEF Decoding
  <2>7. /\ j + 1 \in 1 .. Len(states) /\ Cur(j) < x.slice[2] /\ ChildOf(x, y, buf[Cur(j) + 1], Cur(j) + 1)
    BY <2>3, <2>4, CurFacts
  <2>8. Ready(buf, x) /\ FrameOK(buf, y) /\ Ready(buf, y)
    BY <2>3, <2>4, <2>7, FrameIs
  <2>9. y.level <= RecursionLimit
    BY <2>8 DEF Ready
  <2>10. FrameLoop(buf, x, Sub(buf, x)) = t
    BY <2>5, <2>6, <2>7, <2>8, <2>9, RunsChild
  <2> QED
    BY <2>2, <2>4, <2>10
<1> HIDE DEF T
<1>5. Nat \subseteq T
  BY <1>3, <1>4, InductiveSet
<1>6. L - 1 \in Nat /\ L - (L - 1) = 1
  BY <1>2
<1>7. FrameLoop(buf, states[1], Sub(buf, states[1])) = t
  BY <1>2, <1>5, <1>6 DEF T
<1> QED
  BY <1>7, RootLoop

(* The value after the tag of a group. *)
ConsumesTo(buf, tok, at, end, n, m) == ConsumeFieldValue(tok, at, end, ConsumeGroup(buf)[n]) = m

LEMMA ConsumeStart ==
  ASSUME NEW buf, NEW tok, tok.wtyp = "start", NEW at, NEW end, NEW n, NEW t,
         GroupGives(buf, tok.num, end, at, n, t)
  PROVE  /\ t.err # "none" => ConsumesTo(buf, tok, at, end, n, -1)
         /\ t.err = "none" => ConsumesTo(buf, tok, at, end, n, t.n)
BY DEF ConsumeFieldValue, GroupGives, ConsumesTo

(* The arguments of the calls that skip groups. *)
LEMMA SkipArgs ==
  ASSUME TypeOK, Layout, result = "run", NEW buf, Completion(buf), NEW k \in 1 .. Len(skip), NEW n \in Nat \ {0}
  PROVE  /\ GroupArgs(buf, skip[k].num, st.slice[2], skip[k].start, n)
         /\ SkipCur(k) \in 0 .. Len(buf) /\ skip[k].start <= SkipCur(k) /\ SkipCur(k) <= st.slice[2]
         /\ skip[k].start \in 1 .. Len(input) /\ buf[skip[k].start].wtyp = "start"
         /\ buf[skip[k].start].num = skip[k].num /\ skip[k].start \in Nat
<1>1. /\ Stack /\ SkipStack /\ Len(states) \in Nat \ {0} /\ st.slice[2] \in Nat /\ Len(input) \in Nat
      /\ Len(skip) \in Nat /\ b \in Nat /\ total \in Nat
  BY Running
<1>2. Skipped(k) /\ st.slice[2] = Len(input) + b /\ Placed(Len(states))
  BY <1>1 DEF SkipStack, Stack
<1>3. skip[k].start \in Nat /\ skip[k].num \in Nat
  BY SkipType DEF TypeOK
<1>4. st.slice[2] <= total /\ Len(buf) = total /\ buf \in Seq(Token)
  BY <1>2 DEF Placed, st, Completion
<1>5. skip[k].start \in 1 .. Len(input) /\ skip[k].start <= SkipCur(k)
      /\ input[skip[k].start].wtyp = "start" /\ input[skip[k].start].num = skip[k].num
  BY <1>2 DEF Skipped
<1>6. buf[skip[k].start] = input[skip[k].start]
  BY <1>5 DEF Completion
<1>7. SkipCur(k) \in Nat /\ SkipCur(k) <= Len(input)
  <2>1. CASE k < Len(skip)
    <3>1. k + 1 \in 1 .. Len(skip)
      BY <1>1, <2>1
    <3>2. Skipped(k + 1)
      BY <1>1, <3>1 DEF SkipStack
    <3>3. skip[k + 1].start \in 1 .. Len(input) /\ SkipCur(k) = skip[k + 1].start - 1
      BY <2>1, <3>2 DEF Skipped, SkipCur
    <3> QED
      BY <1>1, <3>3
  <2>2. CASE ~(k < Len(skip))
    BY <1>1, <2>2 DEF SkipCur
  <2> QED
    BY <2>1, <2>2
<1>8. SkipCur(k) \in 0 .. Len(buf) /\ SkipCur(k) <= st.slice[2]
  BY <1>1, <1>2, <1>4, <1>7
<1>9. GroupArgs(buf, skip[k].num, st.slice[2], skip[k].start, n)
  <2>1. skip[k].start \in 0 .. Len(buf) /\ st.slice[2] \in 0 .. Len(buf)
    BY <1>1, <1>2, <1>3, <1>4, <1>5
  <2> QED
    BY <1>3, <1>4, <2>1 DEF GroupArgs
<1> QED
  BY <1>3, <1>5, <1>6, <1>8, <1>9

(* A group inside a group. *)
LEMMA SkipInner ==
  ASSUME TypeOK, Layout, result = "run", NEW buf, Completion(buf), NEW k \in 1 .. Len(skip), k < Len(skip)
  PROVE  /\ k + 1 \in 1 .. Len(skip) /\ SkipCur(k) + 1 = skip[k + 1].start /\ SkipCur(k) < st.slice[2]
         /\ buf[SkipCur(k) + 1].wtyp = "start" /\ buf[SkipCur(k) + 1].num = skip[k + 1].num
         /\ skip[k].start < skip[k + 1].start
<1>1. Len(skip) \in Nat /\ 1 \in Nat \ {0}
  BY SkipType DEF TypeOK
<1>2. k + 1 \in 1 .. Len(skip)
  BY <1>1
<1>3. /\ skip[k + 1].start \in Nat /\ skip[k + 1].start <= SkipCur(k + 1) /\ SkipCur(k + 1) <= st.slice[2]
      /\ SkipCur(k + 1) \in 0 .. Len(buf)
      /\ buf[skip[k + 1].start].wtyp = "start" /\ buf[skip[k + 1].start].num = skip[k + 1].num
  BY <1>1, <1>2, SkipArgs
<1>4. skip[k].start \in Nat /\ skip[k].start <= SkipCur(k) /\ SkipCur(k) \in 0 .. Len(buf)
  BY <1>1, SkipArgs
<1>5. SkipCur(k) = skip[k + 1].start - 1
  BY DEF SkipCur
<1>6. st.slice[2] \in Nat /\ Len(buf) \in Nat
  BY Running DEF Completion, TypeOK
<1>7. SkipCur(k) + 1 = skip[k + 1].start /\ SkipCur(k) < st.slice[2] /\ skip[k].start < skip[k + 1].start
  <2>1. PICK c, d, p, q, e : /\ c = SkipCur(k) /\ d = SkipCur(k + 1) /\ p = skip[k].start /\ q = skip[k + 1].start
                             /\ e = st.slice[2]
    OBVIOUS
  <2>2. /\ c \in 0 .. Len(buf) /\ d \in 0 .. Len(buf) /\ p \in Nat /\ q \in Nat /\ e \in Nat
        /\ q <= d /\ d <= e /\ p <= c /\ c = q - 1
    BY <1>3, <1>4, <1>5, <1>6, <2>1
  <2>3. c + 1 = q /\ c < e /\ p < q
    BY <1>6, <2>2
  <2> QED
    BY <2>1, <2>3
<1> QED
  BY <1>2, <1>3, <1>7

(* An error in the innermost group is one of the outermost. *)
LEMMA SkipSinks ==
  ASSUME TypeOK, Layout, result = "run", NEW buf, Completion(buf), Skipping(buf), skip # <<>>,
         NEW K, K = Len(skip),
         GroupGives(buf, skip[K].num, st.slice[2], skip[K].start, DefaultRecursionLimit + 2 - K, Fails("decode"))
  PROVE  GroupGives(buf, skip[1].num, st.slice[2], skip[1].start, DefaultRecursionLimit + 1, Fails("decode"))
<1>1. K \in Nat \ {0} /\ K <= DefaultRecursionLimit + 1 /\ DefaultRecursionLimit \in Nat
  <2>1. K \in Nat /\ K # 0
    BY SkipType DEF TypeOK
  <2> QED
    BY <2>1, Running, ValidateAssumption DEF SkipStack
<1> DEFINE fails(k) == GroupGives(buf, skip[k].num, st.slice[2], skip[k].start, DefaultRecursionLimit + 2 - k, Fails("decode"))
           T == {m \in Nat : m < K => fails(K - m)}
<1> HIDE DEF fails
<1>2. fails(K)
  BY DEF fails
<1>3. 0 \in T
  BY <1>1, <1>2
<1>4. ASSUME NEW m \in Nat, m \in T
      PROVE  m + 1 \in T
  <2>1. SUFFICES ASSUME m + 1 < K
                 PROVE  fails(K - (m + 1))
    OBVIOUS
  <2>2. PICK k : k = K - (m + 1)
    OBVIOUS
  <2>3. k \in 1 .. Len(skip) /\ k < Len(skip) /\ K - m = k + 1
    BY <1>1, <2>1, <2>2
  <2>4. fails(k + 1)
    BY <1>1, <1>4, <2>1, <2>3
  <2>5. PICK n : n = DefaultRecursionLimit + 2 - k
    OBVIOUS
  <2>6. n \in Nat \ {0} /\ n - 1 = DefaultRecursionLimit + 2 - (k + 1)
    BY <1>1, <2>3, <2>5
  <2>7. PICK cur, end, tok : cur = SkipCur(k) /\ end = st.slice[2] /\ tok = buf[cur + 1]
    OBVIOUS
  <2>8. /\ GroupArgs(buf, skip[k].num, end, skip[k].start, n) /\ cur \in 0 .. Len(buf)
    BY <2>3, <2>6, <2>7, SkipArgs
  <2>9. /\ cur + 1 = skip[k + 1].start /\ cur < end /\ tok.wtyp = "start" /\ tok.num = skip[k + 1].num
    BY <2>3, <2>7, SkipInner
  <2>10. GroupRun(buf, skip[k].num, end, skip[k].start, cur, n)
    BY <2>3, <2>5, <2>6, <2>7 DEF Skipping, SkipsAt
  <2>11. GroupGives(buf, tok.num, end, cur + 1, n - 1, Fails("decode"))
    BY <2>4, <2>6, <2>7, <2>9 DEF fails
  <2>12. ConsumeFieldValue(tok, cur + 1, end, ConsumeGroup(buf)[n - 1]) = -1
    <3>1. PICK t, i, at : t = Fails("decode") /\ i = n - 1 /\ at = cur + 1
      OBVIOUS
    <3>2. t.err # "none"
      BY <3>1 DEF Fails
    <3>3. GroupGives(buf, tok.num, end, at, i, t)
      BY <2>11, <3>1
    <3>4. ConsumesTo(buf, tok, at, end, i, -1)
      BY <2>9, <3>2, <3>3, ConsumeStart
    <3> QED
      BY <3>1, <3>4 DEF ConsumesTo
  <2>13. ConsumeFieldValue(buf[cur + 1], cur + 1, end, ConsumeGroup(buf)[n - 1]) < 0 /\ buf[cur + 1].wtyp # "end"
    BY <2>7, <2>9, <2>12
  <2>14. GroupGives(buf, skip[k].num, end, skip[k].start, n, Fails("decode"))
    BY <2>8, <2>9, <2>10, <2>13, GroupEnds
  <2> QED
    BY <2>2, <2>5, <2>7, <2>14 DEF fails
<1> HIDE DEF T
<1>5. Nat \subseteq T
  BY <1>3, <1>4, InductiveSet
<1>6. fails(1)
  <2>1. K - 1 \in T /\ K - 1 \in Nat /\ K - (K - 1) = 1
    BY <1>1, <1>5
  <2> QED
    BY <1>1, <2>1 DEF T
<1>7. DefaultRecursionLimit + 2 - 1 = DefaultRecursionLimit + 1
  BY <1>1
<1> QED
  BY <1>6, <1>7 DEF fails

-----------------------------------------------------------------------------
(* The decoder keeps up with validate. *)

LEMMA CompletionBack ==
  ASSUME TypeOK, TypeOK', Grows, NEW buf, Completion(buf)'
  PROVE  Completion(buf) /\ Whole(buf)' = Whole(buf)
<1>1. Completion(buf)
  <2>1. buf \in Seq(Token) /\ Len(buf) = total
    BY DEF Completion, Grows
  <2>2. Len(input) \in Nat /\ Len(input') \in Nat
    <3>1. input \in Seq(Token) /\ input' \in Seq(Token)
      BY Zenon DEF TypeOK
    <3> QED
      BY <3>1
  <2>3. ASSUME NEW i \in 1 .. Len(input) PROVE buf[i] = input[i]
    <3>1. i \in 1 .. Len(input')
      BY <2>2 DEF Grows
    <3>2. buf[i] = input'[i]
      BY <3>1, Zenon DEF Completion
    <3>3. input'[i] = input[i]
      BY Zenon DEF Grows
    <3> QED
      BY <3>2, <3>3
  <2> QED
    BY <2>1, <2>3 DEF Completion
<1>2. Whole(buf)' = Whole(buf)
  BY DEF Whole, Grows
<1> QED
  BY <1>1, <1>2

LEMMA CompletionHas ==
  ASSUME TypeOK, TypeOK', NEW tok, NEW n, Reads(tok, n), NEW buf, Completion(buf)'
  PROVE  buf[Len(input) + 1] = tok
<1>1. Len(input') = Len(input) + 1 + n /\ n \in Nat /\ input'[Len(input) + 1] = tok /\ Len(input) \in Nat
  BY DEF Reads, TypeOK
<1>2. Len(input) + 1 \in 1 .. Len(input')
  BY <1>1
<1> QED
  BY <1>1, <1>2 DEF Completion

(* A state whose loop has not moved. *)
LEMMA DecodingKept ==
  ASSUME NEW buf, NEW j, Decoding(buf, j), Same(states'[j], states[j]), Cur(j)' = Cur(j)
  PROVE  Decoding(buf, j)'
<1>1. PICK x, y : x = states[j] /\ y = states'[j]
  OBVIOUS
<1>2. PICK s : RunsTo(buf, x, s) /\ s.n = Cur(j)
  BY <1>1 DEF Decoding
<1>3. /\ \A sub : FrameBody(buf, y, sub) = FrameBody(buf, x, sub)
      /\ FrameFirst(y) = FrameFirst(x) /\ Sub(buf, y) = Sub(buf, x)
  BY <1>1, SameFrame
<1>4. RunsTo(buf, y, s)
  BY <1>2, <1>3 DEF RunsTo
<1> QED
  BY <1>1, <1>2, <1>4 DEF Decoding

(* The states below the top are kept when it moves. *)
LEMMA DecodingBelow ==
  ASSUME TypeOK, TypeOK', NEW buf, NEW L \in Nat, Below(L), NEW j \in 1 .. L, j < L, Decoding(buf, j)
  PROVE  Decoding(buf, j)'
<1>1. L <= Len(states) /\ L <= Len(states') /\ Len(states) \in Nat /\ Len(states') \in Nat
  BY DEF Below, TypeOK
<1>2. j < Len(states) /\ j < Len(states') /\ j + 1 \in 1 .. L
  BY <1>1
<1>3. Same(states'[j], states[j]) /\ Same(states'[j + 1], states[j + 1])
  BY <1>2 DEF Below
<1>4. Cur(j)' = Cur(j)
  BY <1>2, <1>3 DEF Cur, Same
<1> QED
  BY <1>3, <1>4, DecodingKept

(* The top of the stack is at s. *)
LEMMA DecodingTop ==
  ASSUME NEW buf, NEW L, L = Len(states), NEW s, Same(states'[L], st), RunsTo(buf, st, s), s.n = Cur(L)'
  PROVE  Decoding(buf, L)'
<1>1. PICK x, y : x = st /\ y = states'[L]
  OBVIOUS
<1>3. /\ \A sub : FrameBody(buf, y, sub) = FrameBody(buf, x, sub)
      /\ FrameFirst(y) = FrameFirst(x) /\ Sub(buf, y) = Sub(buf, x)
  BY <1>1, SameFrame
<1>4. RunsTo(buf, y, s)
  BY <1>1, <1>3 DEF RunsTo
<1> QED
  BY <1>1, <1>4 DEF Decoding

LEMMA TopKept ==
  ASSUME TypeOK, TypeOK', Keeps, NEW buf, \A j \in 1 .. Len(states) : Decoding(buf, j),
         NEW L, L = Len(states), Decoding(buf, L)'
  PROVE  \A j \in 1 .. Len(states') : Decoding(buf, j)'
<1>1. Len(states) \in Nat /\ Len(states') = Len(states) /\ Below(Len(states))
  BY DEF Keeps, TypeOK
<1>2. ASSUME NEW j \in 1 .. Len(states'), j < Len(states)
      PROVE  Decoding(buf, j)'
  BY <1>1, <1>2, DecodingBelow
<1> QED
  BY <1>1, <1>2

(* The step over a field. *)
LEMMA AgreesPassed ==
  ASSUME TypeOK, TypeOK', Layout, NEW tok, NEW n, Passed(tok, n), NEW buf, Completion(buf)', Agrees(buf)
  PROVE  Agrees(buf)'
<1>1. /\ Reads(tok, n) /\ Grows /\ Keeps /\ skip = <<>> /\ skip' = <<>> /\ n = Width(tok) /\ Passes(st, tok)
      /\ result = "run" /\ result' = "run" /\ deepest' = deepest /\ n < b /\ n \in Nat
  BY DEF Passed, Reads, Keeps
<1>2. Completion(buf) /\ Whole(buf)' = Whole(buf) /\ buf[Len(input) + 1] = tok
  BY <1>1, CompletionBack, CompletionHas
<1>3. Skipping(buf)'
  <2>1. Len(skip') = 0
    BY <1>1
  <2> QED
    BY <2>1 DEF Skipping
<1>4. ASSUME deepest <= RecursionLimit
      PROVE  \A j \in 1 .. Len(states') : Decoding(buf, j)'
  <2>1. PICK L : L = Len(states)
    OBVIOUS
  <2>2. L \in Nat \ {0} /\ L \in 1 .. Len(states) /\ Stack /\ b \in Nat /\ Len(input) \in Nat
    BY <1>1, <2>1, Running
  <2>3. \A j \in 1 .. Len(states) : Decoding(buf, j)
    BY <1>1, <1>4 DEF Agrees
  <2>4. PICK s : RunsTo(buf, st, s) /\ s.n = Cur(L)
    BY <2>1, <2>2, <2>3 DEF Decoding, st
  <2>5. s.n = Len(input) /\ Cur(L)' = Len(input') /\ Len(input') = Len(input) + 1 + n
    BY <1>1, <2>1, <2>4 DEF Cur, Keeps, Reads
  <2>6. Ready(buf, st) /\ st.slice[2] = Len(input) + b
    BY <1>1, <1>2, <1>4, <2>1, <2>2, FrameIs DEF st, Stack
  <2>7. s.n < st.slice[2] /\ s.n + 1 + Width(tok) <= st.slice[2] /\ tok = buf[s.n + 1]
    BY <1>1, <1>2, <2>2, <2>5, <2>6
  <2>8. PICK r : RunsTo(buf, st, r) /\ r.n = s.n + 1 + Width(tok)
    BY <1>1, <2>4, <2>6, <2>7, RunsPass
  <2>9. Same(states'[L], st)
    BY <1>1, <2>1, <2>2 DEF Keeps, Below, st
  <2>10. Decoding(buf, L)'
    BY <1>1, <2>1, <2>5, <2>8, <2>9, DecodingTop
  <2> QED
    BY <1>1, <2>1, <2>3, <2>10, TopKept
<1> QED
  BY <1>1, <1>2, <1>3, <1>4 DEF Agrees

(* A group whose contents have not moved. *)
LEMMA SkipsKept ==
  ASSUME NEW buf, NEW k, SkipsAt(buf, k), skip'[k] = skip[k], SkipCur(k)' = SkipCur(k), Same(st', st), total' = total
  PROVE  SkipsAt(buf, k)'
<1>1. st'.slice = st.slice
  BY DEF Same
<1> QED
  BY <1>1 DEF SkipsAt

(* The innermost group goes on to m. *)
LEMMA SkipsOn ==
  ASSUME TypeOK, Layout, result = "run", NEW buf, Completion(buf), NEW k \in 1 .. Len(skip), SkipsAt(buf, k),
         skip'[k] = skip[k], Same(st', st), total' = total, NEW m, SkipCur(k)' = m, m \in Nat,
         NEW cur, cur = SkipCur(k), m > cur, m <= Len(buf), cur < st.slice[2], buf[cur + 1].wtyp # "end",
         \A n \in Nat \ {0} : n = DefaultRecursionLimit + 2 - k \/ n > total - skip[k].start =>
            ConsumeFieldValue(buf[cur + 1], cur + 1, st.slice[2], ConsumeGroup(buf)[n - 1]) = m
  PROVE  SkipsAt(buf, k)'
<1>1. st'.slice = st.slice
  BY DEF Same
<1>2. ASSUME NEW n \in Nat \ {0}, n = DefaultRecursionLimit + 2 - k \/ n > total - skip[k].start
      PROVE  GroupRun(buf, skip[k].num, st.slice[2], skip[k].start, m, n)
  <2>1. GroupArgs(buf, skip[k].num, st.slice[2], skip[k].start, n) /\ cur \in 0 .. Len(buf)
    BY SkipArgs
  <2>2. GroupRun(buf, skip[k].num, st.slice[2], skip[k].start, cur, n)
    BY <1>2 DEF SkipsAt
  <2>3. m = ConsumeFieldValue(buf[cur + 1], cur + 1, st.slice[2], ConsumeGroup(buf)[n - 1])
    BY <1>2
  <2> QED
    BY <2>1, <2>2, <2>3, GroupOn
<1> QED
  BY <1>1, <1>2 DEF SkipsAt

(* The top of the stack does not move while a group is skipped. *)
LEMMA TopWaits ==
  ASSUME TypeOK, TypeOK', Layout, result = "run", Keeps, NEW buf, \A j \in 1 .. Len(states) : Decoding(buf, j),
         NEW L, L = Len(states), Cur(L)' = Cur(L)
  PROVE  \A j \in 1 .. Len(states') : Decoding(buf, j)'
<1>1. L \in Nat \ {0} /\ L \in 1 .. Len(states)
  BY Running
<1>2. Same(states'[L], states[L])
  BY <1>1 DEF Keeps, Below
<1>3. Decoding(buf, L)'
  BY <1>1, <1>2, DecodingKept
<1> QED
  BY <1>3, TopKept

LEMMA AgreesOpened ==
  ASSUME TypeOK, TypeOK', Layout, NEW tok, Opened(tok), NEW buf, Completion(buf)', Agrees(buf)
  PROVE  Agrees(buf)'
<1>1. /\ Reads(tok, 0) /\ Grows /\ Keeps /\ skip' = Append(skip, Open(tok)) /\ tok.wtyp = "start"
      /\ result = "run" /\ result' = "run" /\ deepest' = deepest
  BY DEF Opened, Reads, Keeps
<1>2. Completion(buf) /\ Whole(buf)' = Whole(buf)
  BY <1>1, CompletionBack
<1>3. PICK K : K = Len(skip)
  OBVIOUS
<1>4. /\ Len(input) \in Nat /\ Len(input') = Len(input) + 1 /\ Len(states) \in Nat \ {0}
  BY <1>1, Running DEF Reads
<1>5. /\ K \in Nat /\ Len(skip') = K + 1 /\ skip'[K + 1] = Open(tok) /\ \A k \in 1 .. K : skip'[k] = skip[k]
      /\ skip' # <<>>
  <2>1. PICK P : P = [num : Nat \ {0}, start : Nat]
    OBVIOUS
  <2>2. tok.num \in Nat \ {0}
    BY <1>1 DEF Reads, Token
  <2>3. Open(tok) \in P /\ skip \in Seq(P)
    BY <1>4, <2>1, <2>2 DEF Open, TypeOK
  <2> QED
    BY <1>1, <1>3, <2>3, OneMore
<1>6. Open(tok).start = Len(input) + 1 /\ Open(tok).num = tok.num
  BY DEF Open
<1>7. Same(st', st) /\ total' = total
  BY <1>1, <1>4 DEF Keeps, Below, st, Grows
<1>8. ASSUME NEW k \in 1 .. K
      PROVE  SkipsAt(buf, k)'
  <2>1. SkipsAt(buf, k)
    BY <1>1, <1>3 DEF Agrees, Skipping
  <2>2. SkipCur(k)' = SkipCur(k)
    <3>1. CASE k < K
      <4>1. k + 1 \in 1 .. K
        BY <1>5, <3>1
      <4> QED
        BY <1>3, <1>5, <3>1, <4>1 DEF SkipCur
    <3>2. CASE k = K
      <4>1. SkipCur(k) = Len(input)
        BY <1>3, <1>5, <3>2 DEF SkipCur
      <4>2. SkipCur(k)' = (Len(input) + 1) - 1
        BY <1>5, <1>6, <3>2 DEF SkipCur
      <4> QED
        BY <1>4, <4>1, <4>2
    <3> QED
      BY <1>5, <3>1, <3>2
  <2> QED
    BY <1>5, <1>7, <2>1, <2>2, SkipsKept
<1>9. SkipsAt(buf, K + 1)'
  <2>1. SkipCur(K + 1)' = Len(input) + 1
    BY <1>4, <1>5 DEF SkipCur
  <2>2. ASSUME NEW n \in Nat \ {0}
        PROVE  GroupRun(buf, tok.num, st.slice[2], Len(input) + 1, Len(input) + 1, n)
    <3>1. st.slice[2] \in 0 .. Len(buf) /\ Len(input) + 1 \in 0 .. Len(buf) /\ buf \in Seq(Token) /\ tok.num \in Nat
      <4>1. Stack /\ b \in Nat /\ st.slice[2] \in Nat /\ total \in Nat
        BY <1>1, Running
      <4>2. st.slice[2] = Len(input) + b /\ Placed(Len(states)) /\ 0 < b
        BY <1>1, <1>4, <4>1 DEF Stack, Reads
      <4>3. st.slice[2] <= total /\ Len(buf) = total /\ buf \in Seq(Token)
        BY <1>2, <4>2 DEF Placed, st, Completion
      <4>4. tok.num \in Nat
        BY <1>1 DEF Reads, Token
      <4> QED
        BY <1>4, <4>1, <4>2, <4>3, <4>4
    <3>2. GroupArgs(buf, tok.num, st.slice[2], Len(input) + 1, n)
      BY <3>1 DEF GroupArgs
    <3> QED
      BY <3>2, GroupStart
  <2>3. st'.slice = st.slice
    BY <1>7 DEF Same
  <2>4. SkipsAt(buf, K + 1)' <=> \A n \in Nat \ {0} : n = DefaultRecursionLimit + 2 - (K + 1) \/ n > total' - (Len(input) + 1) =>
                                    GroupRun(buf, tok.num, st.slice[2], Len(input) + 1, Len(input) + 1, n)
    BY <1>5, <1>6, <2>1, <2>3 DEF SkipsAt
  <2> QED
    BY <2>2, <2>4
<1>10. Skipping(buf)'
  BY <1>5, <1>8, <1>9 DEF Skipping
<1>11. ASSUME deepest <= RecursionLimit
       PROVE  \A j \in 1 .. Len(states') : Decoding(buf, j)'
  <2>1. PICK L : L = Len(states)
    OBVIOUS
  <2>2. \A j \in 1 .. Len(states) : Decoding(buf, j)
    BY <1>1, <1>11 DEF Agrees
  <2>3. Cur(L)' = Cur(L)
    <3>1. CASE skip = <<>>
      <4>1. K = 0
        BY <1>3, <3>1
      <4>2. Cur(L)' = (Len(input) + 1) - 1
        BY <1>1, <1>5, <1>6, <2>1, <4>1 DEF Cur, Keeps
      <4>3. Cur(L) = Len(input)
        BY <1>4, <2>1, <3>1 DEF Cur
      <4> QED
        BY <1>4, <4>2, <4>3
    <3>2. CASE skip # <<>>
      <4>1. K > 0
        BY <1>3, <1>5, <3>2, SkipType DEF TypeOK
      <4>2. skip'[1] = skip[1]
        BY <1>5, <4>1
      <4> QED
        BY <1>1, <1>4, <1>5, <2>1, <3>2, <4>2 DEF Cur, Keeps
    <3> QED
      BY <3>1, <3>2
  <2> QED
    BY <1>1, <2>1, <2>2, <2>3, TopWaits
<1> QED
  BY <1>1, <1>2, <1>10, <1>11 DEF Agrees

LEMMA AgreesSkipped ==
  ASSUME TypeOK, TypeOK', Layout, NEW tok, NEW n, SkippedOver(tok, n), NEW buf, Completion(buf)', Agrees(buf)
  PROVE  Agrees(buf)'
<1>1. /\ Reads(tok, n) /\ Grows /\ Keeps /\ skip' = skip /\ skip # <<>> /\ tok.wtyp \in {"varint", "bytes"}
      /\ n = Width(tok) /\ result = "run" /\ result' = "run" /\ deepest' = deepest /\ n < b /\ n \in Nat
      /\ total' = total /\ tok \in Token
  BY DEF SkippedOver, Reads, Keeps, Grows
<1>2. Completion(buf) /\ Whole(buf)' = Whole(buf) /\ buf[Len(input) + 1] = tok
  BY <1>1, CompletionBack, CompletionHas
<1>3. PICK K : K = Len(skip)
  OBVIOUS
<1>4. /\ Len(input) \in Nat /\ Len(input') = Len(input) + 1 + n /\ Len(states) \in Nat \ {0} /\ b \in Nat
      /\ K \in Nat /\ Stack
  BY <1>1, <1>3, Running DEF Reads
<1>5. Same(st', st)
  BY <1>1, <1>4 DEF Keeps, Below, st
<1>6. Skipping(buf)'
  <2>1. ASSUME NEW k \in 1 .. K, k < K
        PROVE  SkipsAt(buf, k)'
    <3>1. SkipsAt(buf, k)
      BY <1>1, <1>3 DEF Agrees, Skipping
    <3>2. SkipCur(k)' = SkipCur(k)
      BY <1>1, <1>3, <2>1 DEF SkipCur
    <3> QED
      BY <1>1, <1>5, <3>1, <3>2, SkipsKept
  <2>2. ASSUME NEW k \in 1 .. K, k = K
        PROVE  SkipsAt(buf, k)'
    <3>1. SkipsAt(buf, k)
      BY <1>1, <1>3 DEF Agrees, Skipping
    <3>2. PICK cur, m, end : cur = Len(input) /\ m = Len(input) + 1 + n /\ end = st.slice[2]
      OBVIOUS
    <3>3. SkipCur(k) = cur /\ SkipCur(k)' = m
      BY <1>1, <1>3, <1>4, <2>2, <3>2 DEF SkipCur
    <3>4. end = Len(input) + b /\ Placed(Len(states)) /\ Len(buf) = total /\ total \in Nat
      BY <1>2, <1>4, <3>2 DEF Stack, Completion, TypeOK
    <3>5. end <= total
      BY <3>2, <3>4 DEF Placed, st
    <3>6. m \in Nat /\ m > cur /\ m <= Len(buf) /\ cur < end /\ m <= end
      BY <1>1, <1>4, <3>2, <3>4, <3>5
    <3>7. \A i \in Nat : ConsumeFieldValue(tok, cur + 1, end, ConsumeGroup(buf)[i]) = m
      <4>1. tok.size \in Nat
        BY <1>1 DEF Token
      <4>2. CASE tok.wtyp = "varint"
        BY <1>1, <1>4, <3>2, <4>2 DEF ConsumeFieldValue, Width
      <4>3. CASE tok.wtyp = "bytes"
        <5>1. n = tok.size /\ m = cur + 1 + tok.size /\ ~(cur + 1 + tok.size > end)
          BY <1>1, <1>4, <3>2, <3>4, <3>6, <4>1, <4>3 DEF Width
        <5> QED
          BY <4>3, <5>1 DEF ConsumeFieldValue
      <4> QED
        BY <1>1, <4>2, <4>3
    <3>8. buf[cur + 1] = tok /\ buf[cur + 1].wtyp # "end"
      BY <1>1, <1>2, <3>2
    <3>9. \A i \in Nat \ {0} : ConsumeFieldValue(buf[cur + 1], cur + 1, st.slice[2], ConsumeGroup(buf)[i - 1]) = m
      <4>1. ASSUME NEW i \in Nat \ {0}
            PROVE  ConsumeFieldValue(buf[cur + 1], cur + 1, st.slice[2], ConsumeGroup(buf)[i - 1]) = m
        <5>1. PICK h : h = i - 1
          OBVIOUS
        <5>2. h \in Nat
          BY <5>1
        <5> QED
          BY <3>2, <3>7, <3>8, <5>1, <5>2
      <4> QED
        BY <4>1
    <3> QED
      BY <1>1, <1>2, <1>3, <1>5, <3>1, <3>2, <3>3, <3>6, <3>8, <3>9, SkipsOn
  <2>3. \A k \in 1 .. K : k < K \/ k = K
    BY <1>4
  <2> QED
    BY <1>1, <1>3, <2>1, <2>2, <2>3 DEF Skipping
<1>7. ASSUME deepest <= RecursionLimit
      PROVE  \A j \in 1 .. Len(states') : Decoding(buf, j)'
  <2>1. PICK L : L = Len(states)
    OBVIOUS
  <2>2. \A j \in 1 .. Len(states) : Decoding(buf, j)
    BY <1>1, <1>7 DEF Agrees
  <2>3. Cur(L)' = Cur(L)
    BY <1>1, <1>4, <2>1 DEF Cur, Keeps
  <2> QED
    BY <1>1, <2>1, <2>2, <2>3, TopWaits
<1> QED
  BY <1>1, <1>2, <1>6, <1>7 DEF Agrees

(* What skipping a group gives when its end tag comes. *)
LEMMA GroupCloses ==
  ASSUME TypeOK, Layout, result = "run", NEW buf, Completion(buf), Skipping(buf), skip # <<>>,
         NEW K, K = Len(skip), NEW tok, buf[Len(input) + 1] = tok, 0 < b, tok.wtyp = "end", tok.num = skip[K].num,
         NEW n \in Nat \ {0}, n = DefaultRecursionLimit + 2 - K \/ n > total - skip[K].start
  PROVE  GroupGives(buf, skip[K].num, st.slice[2], skip[K].start, n, Done(Len(input) + 1, TRUE))
<1>1. K \in 1 .. Len(skip) /\ Len(input) \in Nat /\ b \in Nat /\ st.slice[2] = Len(input) + b
  <2>1. K \in Nat /\ K > 0
    BY SkipType DEF TypeOK
  <2> QED
    BY <2>1, Running DEF Stack
<1>2. PICK cur, end : cur = Len(input) /\ end = st.slice[2]
  OBVIOUS
<1>3. SkipCur(K) = cur
  BY <1>1, <1>2 DEF SkipCur
<1>4. GroupArgs(buf, skip[K].num, end, skip[K].start, n) /\ cur \in 0 .. Len(buf)
  BY <1>1, <1>2, <1>3, SkipArgs
<1>5. GroupRun(buf, skip[K].num, end, skip[K].start, cur, n)
  BY <1>1, <1>2, <1>3 DEF Skipping, SkipsAt
<1>6. cur < end /\ buf[cur + 1].wtyp = "end" /\ buf[cur + 1].num = skip[K].num
  BY <1>1, <1>2
<1>7. GroupGives(buf, skip[K].num, end, skip[K].start, n, Done(cur + 1, TRUE))
  BY <1>4, <1>5, <1>6, GroupEnds
<1> QED
  BY <1>2, <1>7

(* The record of the group that the top of the stack is at. *)
LEMMA OuterGroup ==
  ASSUME TypeOK, Layout, result = "run", NEW buf, Completion(buf), skip # <<>>, NEW L, L = Len(states)
  PROVE  /\ 1 \in 1 .. Len(skip) /\ Cur(L) + 1 = skip[1].start /\ Cur(L) \in Nat /\ Cur(L) < st.slice[2]
         /\ buf[Cur(L) + 1].wtyp = "start" /\ buf[Cur(L) + 1].num = skip[1].num /\ Cur(L) < Len(input)
         /\ FieldIn(st, skip[1].num).resolves /\ "start" \notin Expects(FieldIn(st, skip[1].num).typ)
<1>1. 1 \in 1 .. Len(skip) /\ L \in Nat /\ SkipStack /\ Len(input) \in Nat /\ st.slice[2] \in Nat
  <2>1. Len(skip) \in Nat /\ Len(skip) > 0
    BY SkipType DEF TypeOK
  <2> QED
    BY <2>1, Running
<1>2. Cur(L) = skip[1].start - 1
  BY DEF Cur
<1>3. 1 \in Nat \ {0} /\ Len(buf) \in Nat
  BY DEF Completion, TypeOK
<1>4. /\ skip[1].start \in 1 .. Len(input) /\ buf[skip[1].start].wtyp = "start" /\ skip[1].start \in Nat
      /\ buf[skip[1].start].num = skip[1].num /\ skip[1].start <= SkipCur(1) /\ SkipCur(1) <= st.slice[2]
      /\ SkipCur(1) \in 0 .. Len(buf)
  BY <1>1, <1>3, SkipArgs
<1>5. Cur(L) + 1 = skip[1].start /\ Cur(L) \in Nat /\ Cur(L) < st.slice[2] /\ Cur(L) < Len(input)
  BY <1>1, <1>2, <1>3, <1>4
<1>6. FieldIn(st, skip[1].num).resolves /\ FieldIn(st, skip[1].num).typ # "group"
  BY <1>1 DEF SkipStack
<1>7. "start" \notin Expects(FieldIn(st, skip[1].num).typ)
  BY <1>6 DEF Expects
<1> QED
  BY <1>1, <1>4, <1>5, <1>6, <1>7

LEMMA AgreesClosed ==
  ASSUME TypeOK, TypeOK', Layout, NEW tok, Closed(tok), NEW buf, Completion(buf)', Agrees(buf)
  PROVE  Agrees(buf)'
<1>1. /\ Reads(tok, 0) /\ Grows /\ Keeps /\ skip # <<>> /\ skip' = SubSeq(skip, 1, Len(skip) - 1)
      /\ tok.wtyp = "end" /\ tok.num = skip[Len(skip)].num /\ result = "run" /\ result' = "run"
      /\ deepest' = deepest /\ 0 < b /\ total' = total
  BY DEF Closed, Reads, Keeps, Grows
<1>2. Completion(buf) /\ Whole(buf)' = Whole(buf) /\ buf[Len(input) + 1] = tok
  BY <1>1, CompletionBack, CompletionHas
<1>3. PICK K : K = Len(skip)
  OBVIOUS
<1>4. /\ Len(input) \in Nat /\ Len(input') = Len(input) + 1 /\ Len(states) \in Nat \ {0} /\ b \in Nat
      /\ K \in Nat \ {0} /\ Stack /\ SkipStack /\ DefaultRecursionLimit \in Nat /\ total \in Nat
  <2>1. K \in Nat /\ K > 0
    BY <1>1, <1>3, SkipType DEF TypeOK
  <2> QED
    BY <1>1, <2>1, Running, ValidateAssumption DEF Reads
<1>5. Same(st', st)
  BY <1>1, <1>4 DEF Keeps, Below, st
<1>6. Len(skip') = K - 1 /\ \A k \in 1 .. K - 1 : skip'[k] = skip[k]
  BY <1>1, <1>3, Butlast DEF TypeOK
<1>7. Skipping(buf) /\ K <= DefaultRecursionLimit + 1 /\ K \in 1 .. Len(skip)
  BY <1>1, <1>3, <1>4 DEF Agrees, SkipStack
<1>8. ASSUME NEW n \in Nat \ {0}, n = DefaultRecursionLimit + 2 - K \/ n > total - skip[K].start
      PROVE  GroupGives(buf, skip[K].num, st.slice[2], skip[K].start, n, Done(Len(input) + 1, TRUE))
  BY <1>1, <1>2, <1>3, <1>7, <1>8, GroupCloses
<1>9. PICK d : d = Done(Len(input) + 1, TRUE)
  OBVIOUS
<1>10. d.err = "none" /\ d.n = Len(input) + 1
  BY <1>9 DEF Done
<1>11. Skipping(buf)'
  <2>1. ASSUME NEW k \in 1 .. K - 1, k < K - 1
        PROVE  SkipsAt(buf, k)'
    <3>0. k \in 1 .. Len(skip) /\ k + 1 \in 1 .. K - 1 /\ k < Len(skip)
      BY <1>3, <1>4, <2>1
    <3>1. SkipsAt(buf, k)
      BY <1>7, <3>0 DEF Skipping
    <3>2. SkipCur(k)' = SkipCur(k)
      BY <1>3, <1>4, <1>6, <2>1, <3>0 DEF SkipCur
    <3> QED
      BY <1>1, <1>5, <1>6, <3>1, <3>2, SkipsKept
  <2>2. ASSUME NEW k \in 1 .. K - 1, k = K - 1
        PROVE  SkipsAt(buf, k)'
    <3>0. k \in 1 .. Len(skip) /\ k + 1 = K /\ k < Len(skip)
      BY <1>3, <1>4, <2>2
    <3>1. SkipsAt(buf, k)
      BY <1>7, <3>0 DEF Skipping
    <3>2. PICK cur, m, end : cur = SkipCur(k) /\ m = Len(input) + 1 /\ end = st.slice[2]
      OBVIOUS
    <3>3. /\ cur + 1 = skip[K].start /\ cur < end /\ buf[cur + 1].wtyp = "start" /\ buf[cur + 1].num = skip[K].num
          /\ skip[k].start < skip[K].start
      BY <1>1, <1>2, <3>0, <3>2, SkipInner
    <3>4. SkipCur(k)' = m
      BY <1>4, <1>6, <2>2, <3>2 DEF SkipCur
    <3>5. cur \in Nat /\ skip[k].start \in Nat /\ skip[K].start \in Nat /\ skip[K].start <= Len(input)
      <4>1. 1 \in Nat \ {0} /\ Len(buf) \in Nat
        BY <1>2 DEF Completion, TypeOK
      <4>2. cur \in 0 .. Len(buf) /\ skip[k].start \in Nat
        BY <1>1, <1>2, <3>0, <3>2, <4>1, SkipArgs
      <4>3. skip[K].start \in Nat /\ skip[K].start \in 1 .. Len(input)
        BY <1>1, <1>2, <1>7, <4>1, SkipArgs
      <4> QED
        BY <1>4, <4>1, <4>2, <4>3
    <3>6. m \in Nat /\ m > cur /\ m <= Len(buf)
      <4>1. m <= total
        BY <1>1, <1>4, <3>2, ReadWithin
      <4> QED
        BY <1>2, <1>4, <3>2, <3>3, <3>5, <4>1 DEF Completion
    <3>7. ASSUME NEW n \in Nat \ {0}, n = DefaultRecursionLimit + 2 - k \/ n > total - skip[k].start
          PROVE  ConsumeFieldValue(buf[cur + 1], cur + 1, end, ConsumeGroup(buf)[n - 1]) = m
      <4>1. PICK i, at, t : i = n - 1 /\ at = cur + 1 /\ t = buf[cur + 1]
        OBVIOUS
      <4>2. i \in Nat \ {0}
        <5>1. CASE n = DefaultRecursionLimit + 2 - k
          BY <1>4, <1>7, <2>2, <4>1, <5>1
        <5>2. CASE n > total - skip[k].start
          <6>1. skip[K].start <= total
            BY <1>4, <3>5 DEF Layout
          <6> QED
            BY <1>4, <3>3, <3>5, <4>1, <5>2, <6>1
        <5> QED
          BY <3>7, <5>1, <5>2
      <4>3. i = DefaultRecursionLimit + 2 - K \/ i > total - skip[K].start
        <5>1. PICK p, q : p = skip[k].start /\ q = skip[K].start
          OBVIOUS
        <5>2. p \in Nat /\ q \in Nat /\ p < q /\ (n = DefaultRecursionLimit + 2 - k \/ n > total - p)
          BY <3>3, <3>5, <3>7, <5>1
        <5>3. i = DefaultRecursionLimit + 2 - K \/ i > total - q
          BY <1>4, <2>2, <4>1, <5>2
        <5> QED
          BY <5>1, <5>3
      <4>4. GroupGives(buf, t.num, end, at, i, d)
        BY <1>8, <1>9, <3>2, <3>3, <4>1, <4>2, <4>3
      <4>5. ConsumesTo(buf, t, at, end, i, d.n)
        BY <1>10, <3>3, <4>1, <4>4, ConsumeStart
      <4>6. d.n = m
        BY <1>10, <3>2
      <4> QED
        BY <4>1, <4>5, <4>6 DEF ConsumesTo
    <3>8. buf[cur + 1].wtyp # "end"
      BY <3>3
    <3>9. skip'[k] = skip[k]
      BY <1>6
    <3> QED
      BY <1>1, <1>2, <1>5, <3>0, <3>1, <3>2, <3>3, <3>4, <3>6, <3>7, <3>8, <3>9, SkipsOn
  <2>3. \A k \in 1 .. K - 1 : k < K - 1 \/ k = K - 1
    BY <1>4
  <2> QED
    BY <1>6, <2>1, <2>2, <2>3 DEF Skipping
<1>12. ASSUME deepest <= RecursionLimit
       PROVE  \A j \in 1 .. Len(states') : Decoding(buf, j)'
  <2>1. PICK L : L = Len(states)
    OBVIOUS
  <2>2. \A j \in 1 .. Len(states) : Decoding(buf, j)
    BY <1>1, <1>12 DEF Agrees
  <2>3. CASE K # 1
    <3>1. skip'[1] = skip[1] /\ skip' # <<>>
      <4>1. Len(skip') # 0 /\ 1 \in 1 .. K - 1
        BY <1>4, <1>6, <2>3
      <4> QED
        BY <1>6, <4>1
    <3>2. Cur(L)' = Cur(L)
      BY <1>1, <1>4, <2>1, <3>1 DEF Cur, Keeps
    <3> QED
      BY <1>1, <2>1, <2>2, <3>2, TopWaits
  <2>4. CASE K = 1
    <3>1. skip' = <<>>
      <4>1. Len(skip') = 0
        BY <1>6, <2>4
      <4> QED
        BY <4>1 DEF TypeOK
    <3>2. Cur(L)' = Len(input) + 1
      BY <1>1, <1>4, <2>1, <3>1 DEF Cur, Keeps
    <3>3. PICK cur, at, t, end : cur = Cur(L) /\ at = cur + 1 /\ t = buf[cur + 1] /\ end = st.slice[2]
      OBVIOUS
    <3>4. /\ at = skip[1].start /\ cur \in Nat /\ cur < end /\ cur < Len(input)
          /\ t.wtyp = "start" /\ t.num = skip[1].num
          /\ FieldIn(st, t.num).resolves /\ t.wtyp \notin Expects(FieldIn(st, t.num).typ)
      BY <1>1, <1>2, <2>1, <3>3, OuterGroup
    <3>5. PICK i : i = DefaultRecursionLimit + 1
      OBVIOUS
    <3>6. i \in Nat \ {0} /\ i = DefaultRecursionLimit + 2 - K
      BY <1>4, <2>4, <3>5
    <3>7. GroupGives(buf, t.num, end, at, i, d)
      BY <1>8, <1>9, <2>4, <3>3, <3>4, <3>6
    <3>8. ConsumesTo(buf, t, at, end, i, d.n)
      BY <1>10, <3>4, <3>7, ConsumeStart
    <3>9. FieldEnd(buf, t, at, end) = Len(input) + 1
      BY <1>10, <3>5, <3>8 DEF ConsumesTo, FieldEnd
    <3>10. L \in 1 .. Len(states) /\ Ready(buf, st)
      BY <1>1, <1>2, <1>4, <1>12, <2>1, FrameIs DEF st
    <3>11. PICK s : RunsTo(buf, st, s) /\ s.n = cur
      BY <2>1, <2>2, <3>3, <3>10 DEF Decoding, st
    <3>12. PICK m : m = Len(input) + 1
      OBVIOUS
    <3>13. m > s.n /\ s.n < st.slice[2] /\ t = buf[s.n + 1] /\ m = FieldEnd(buf, t, s.n + 1, st.slice[2])
      BY <1>4, <3>3, <3>4, <3>9, <3>11, <3>12
    <3>14. t.wtyp # "end"
      BY <3>4
    <3>15. PICK r : RunsTo(buf, st, r) /\ r.n = m
      BY <3>4, <3>10, <3>11, <3>13, <3>14, RunsOver
    <3>16. Same(states'[L], st)
      BY <1>1, <2>1, <3>10 DEF Keeps, Below, st
    <3>17. Decoding(buf, L)'
      BY <2>1, <3>2, <3>12, <3>15, <3>16, DecodingTop
    <3> QED
      BY <1>1, <2>1, <2>2, <3>17, TopKept
  <2> QED
    BY <2>3, <2>4
<1> QED
  BY <1>1, <1>2, <1>11, <1>12 DEF Agrees

LEMMA AgreesEntered ==
  ASSUME TypeOK, TypeOK', Layout, NEW tok, NEW y, Entered(tok, y), NEW buf, Completion(buf)', Agrees(buf)
  PROVE  Agrees(buf)'
<1>1. /\ Reads(tok, 0) /\ Grows /\ skip = <<>> /\ skip' = <<>> /\ result = "run" /\ result' = "run" /\ 0 < b
      /\ Len(states') = Len(states) + 1 /\ Below(Len(states)) /\ y = states'[Len(states) + 1] /\ y \in validationState
      /\ ChildOf(st, y, tok, Len(input) + 1) /\ (y.typ = "group" <=> y.endGroup # 0)
      /\ y.slice[2] = Len(input) + 1 + b' /\ st.slice[2] = y.slice[2] + y.tail /\ y.tail \in Nat
      /\ deepest' = IF y.level > deepest THEN y.level ELSE deepest
  BY DEF Entered, Reads
<1>2. Completion(buf) /\ Whole(buf)' = Whole(buf) /\ buf[Len(input) + 1] = tok
  BY <1>1, CompletionBack, CompletionHas
<1>3. /\ Len(input) \in Nat /\ Len(input') = Len(input) + 1 /\ Len(states) \in Nat \ {0} /\ b \in Nat
      /\ Stack /\ deepest \in Nat /\ y.level \in Nat /\ b' \in Nat /\ total \in Nat /\ Len(buf) = total
  <2>1. y.level \in Nat
    BY <1>1 DEF validationState
  <2> QED
    BY <1>1, <1>2, <2>1, Running DEF Reads, TypeOK, Completion
<1>4. Skipping(buf)'
  <2>1. Len(skip') = 0
    BY <1>1
  <2> QED
    BY <2>1 DEF Skipping
<1>5. PICK L : L = Len(states)
  OBVIOUS
<1>6. L \in 1 .. Len(states) /\ L \in Nat
  BY <1>3, <1>5
<1>7. FrameOK(buf, y)
  <2>1. Placed(L) /\ st.slice[2] = Len(input) + b
    BY <1>3, <1>6 DEF Stack
  <2>2. st.slice[2] <= total
    BY <1>5, <2>1 DEF Placed, st
  <2>3. y.slice[1] = Len(input) + 1
    BY <1>1 DEF ChildOf
  <2>4. y.slice[1] \in 0 .. Len(buf) /\ y.slice[2] \in 0 .. Len(buf)
    BY <1>1, <1>3, <2>1, <2>2, <2>3
  <2> QED
    BY <1>1, <2>4 DEF FrameOK
<1>8. ASSUME deepest <= RecursionLimit
      PROVE  /\ Ready(buf, st) /\ Same(states'[L], st) /\ \A j \in 1 .. Len(states) : Decoding(buf, j)
             /\ \E s : RunsTo(buf, st, s) /\ s.n = Len(input) /\ s.n = Cur(L)' /\ s.n < st.slice[2]
  <2>1. Ready(buf, st)
    BY <1>1, <1>2, <1>5, <1>6, <1>8, FrameIs DEF st
  <2>2. \A j \in 1 .. Len(states) : Decoding(buf, j)
    BY <1>1, <1>8 DEF Agrees
  <2>3. PICK s : RunsTo(buf, st, s) /\ s.n = Cur(L)
    BY <1>5, <1>6, <2>2 DEF Decoding, st
  <2>4. Cur(L) = Len(input)
    BY <1>1, <1>5, <1>6 DEF Cur
  <2>5. Cur(L)' = (Len(input) + 1) - 1
    <3>1. states'[L + 1].slice[1] = Len(input) + 1
      BY <1>1, <1>5 DEF ChildOf
    <3>2. L < Len(states')
      BY <1>1, <1>5, <1>6
    <3> QED
      BY <3>1, <3>2 DEF Cur
  <2>6. Same(states'[L], st)
    BY <1>1, <1>5, <1>6 DEF Below, st
  <2>7. st.slice[2] = Len(input) + b
    BY <1>3 DEF Stack
  <2>8. s.n = Len(input) /\ s.n = Cur(L)' /\ s.n < st.slice[2]
    BY <1>1, <1>3, <2>3, <2>4, <2>5, <2>7
  <2> QED
    BY <2>1, <2>2, <2>3, <2>6, <2>8
<1>9. ASSUME deepest' <= RecursionLimit
      PROVE  \A j \in 1 .. Len(states') : Decoding(buf, j)'
  <2>1. deepest <= RecursionLimit /\ y.level <= RecursionLimit
    BY <1>1, <1>3, <1>9, ValidateAssumption
  <2>2. /\ Same(states'[L], st) /\ \A j \in 1 .. Len(states) : Decoding(buf, j)
    BY <1>8, <2>1
  <2>3. PICK s : RunsTo(buf, st, s) /\ s.n = Cur(L)'
    BY <1>8, <2>1
  <2>4. Decoding(buf, L)'
    BY <1>5, <2>2, <2>3, DecodingTop
  <2>5. Decoding(buf, L + 1)'
    <3>1. Ready(buf, y)
      BY <1>2, <1>7, <2>1 DEF Ready, Completion
    <3>2. RunsTo(buf, y, FrameFirst(y)) /\ FrameFirst(y).n = y.slice[1]
      BY <3>1, RunsFirst, ReadyFacts
    <3>3. Cur(L + 1)' = Len(input) + 1
      BY <1>1, <1>3, <1>5, <1>6 DEF Cur
    <3>4. y.slice[1] = Len(input) + 1
      BY <1>1 DEF ChildOf
    <3> QED
      BY <1>1, <1>5, <3>2, <3>3, <3>4 DEF Decoding
  <2>6. ASSUME NEW j \in 1 .. L, j < L
        PROVE  Decoding(buf, j)'
    BY <1>1, <1>5, <1>6, <2>2, <2>6, DecodingBelow
  <2> QED
    BY <1>1, <1>5, <1>6, <2>4, <2>5, <2>6
<1>10. ASSUME deepest' > RecursionLimit
       PROVE  Whole(buf)' = Fails("depth")
  <2>1. CASE deepest > RecursionLimit
    BY <1>2, <2>1 DEF Agrees
  <2>2. CASE ~(deepest > RecursionLimit)
    <3>1. deepest <= RecursionLimit /\ y.level > RecursionLimit
      BY <1>1, <1>3, <1>10, <2>2, ValidateAssumption
    <3>2. Ready(buf, st) /\ \A j \in 1 .. Len(states) : Decoding(buf, j)
      BY <1>8, <3>1
    <3>3. PICK s : RunsTo(buf, st, s) /\ s.n = Len(input) /\ s.n < st.slice[2]
      BY <1>8, <3>1
    <3>4. tok = buf[s.n + 1] /\ ChildOf(st, y, tok, s.n + 1)
      BY <1>1, <1>2, <3>3
    <3>5. FrameLoop(buf, st, Sub(buf, st)) = Fails("depth")
      BY <1>7, <3>1, <3>2, <3>3, <3>4, RunsChild
    <3>6. PICK t : t = Fails("depth")
      OBVIOUS
    <3>7. t.err = "depth"
      BY <3>6 DEF Fails
    <3>8. Whole(buf) = t
      BY <1>1, <1>2, <3>1, <3>2, <3>5, <3>6, <3>7, Sinks
    <3> QED
      BY <1>2, <3>6, <3>8
  <2> QED
    BY <2>1, <2>2
<1> QED
  BY <1>1, <1>4, <1>9, <1>10 DEF Agrees

(* The top of the stack ends without an error, at the position m. *)
LEMMA AgreesPops ==
  ASSUME TypeOK, TypeOK', Layout, result = "run", Grows, Pops, NEW buf, Completion(buf)', Agrees(buf),
         NEW m, m = Len(input'), st.typ # "group" => m = st.slice[2],
         deepest <= RecursionLimit =>
            LET c == FrameLoop(buf, st, Sub(buf, st)) IN c.err = "none" /\ c.n = m
  PROVE  Agrees(buf)'
<1>1. Completion(buf) /\ Whole(buf)' = Whole(buf)
  BY CompletionBack
<1>2. /\ skip = <<>> /\ skip' = <<>> /\ deepest' = deepest /\ Len(states') = Len(states) - 1
      /\ \A j \in 1 .. Len(states) - 1 : states'[j] = states[j]
      /\ result' = IF Len(states) = 1 THEN "valid" ELSE "run"
  BY DEF Pops
<1>3. Len(states) \in Nat \ {0} /\ Len(input) \in Nat /\ Len(input') \in Nat /\ Stack /\ Len(input) <= Len(input')
  BY Running DEF TypeOK, Grows
<1>4. Skipping(buf)'
  <2>1. Len(skip') = 0
    BY <1>2
  <2> QED
    BY <2>1 DEF Skipping
<1>5. deepest <= RecursionLimit => \A j \in 1 .. Len(states) : Decoding(buf, j)
  BY DEF Agrees
<1>6. PICK c : c = FrameLoop(buf, st, Sub(buf, st))
  OBVIOUS
<1>7. deepest <= RecursionLimit => c.err = "none" /\ c.n = m
  BY <1>6
<1>8. CASE Len(states) = 1
  <2>1. result' = "valid" /\ st = states[1]
    BY <1>2, <1>8 DEF st
  <2>2. c = Whole(buf)
    BY <1>1, <1>6, <2>1, RootLoop
  <2> QED
    BY <1>1, <1>2, <1>7, <2>1, <2>2 DEF Agrees
<1>9. CASE Len(states) # 1
  <2>1. PICK L : L = Len(states) - 1
    OBVIOUS
  <2>2. L \in Nat \ {0} /\ L + 1 = Len(states) /\ L \in 1 .. Len(states) /\ L < Len(states) /\ L = Len(states')
        /\ L + 1 \in 1 .. Len(states) /\ result' = "run"
    BY <1>2, <1>3, <1>9, <2>1
  <2>3. ASSUME deepest <= RecursionLimit
        PROVE  \A j \in 1 .. Len(states') : Decoding(buf, j)'
    <3>1. Below(L)
      <4>1. \A j \in 1 .. L : Same(states[j], states[j])
        BY Zenon DEF Same
      <4> QED
        BY <1>2, <2>1, <2>2, <4>1 DEF Below
    <3>2. ASSUME NEW j \in 1 .. L, j < L
          PROVE  Decoding(buf, j)'
      <4>1. Decoding(buf, j)
        BY <1>5, <2>2, <2>3
      <4> QED
        BY <2>2, <3>1, <3>2, <4>1, DecodingBelow
    <3>3. PICK x : x = states[L]
      OBVIOUS
    <3>4. st = states[L + 1]
      BY <2>2 DEF st
    <3>5. PICK s : RunsTo(buf, x, s) /\ s.n = Cur(L)
      BY <1>5, <2>2, <2>3, <3>3 DEF Decoding
    <3>6. /\ Cur(L) \in Nat /\ Cur(L) < x.slice[2] /\ Cur(L) < Len(input) /\ ChildOf(x, st, buf[Cur(L) + 1], Cur(L) + 1)
      BY <1>1, <2>2, <3>3, <3>4, CurFacts
    <3>7. Ready(buf, x) /\ FrameOK(buf, st) /\ Ready(buf, st)
      BY <1>1, <2>2, <2>3, <3>3, <3>4, FrameIs
    <3>8. st.level <= RecursionLimit
      BY <3>7 DEF Ready
    <3>9. c.err = "none" /\ c.n = m
      BY <1>7, <2>3
    <3>10. Result(st, c).n = m
      BY <3>9 DEF Result, Done
    <3>11. m > s.n
      BY <1>3, <3>5, <3>6
    <3>12. PICK tok : tok = buf[s.n + 1]
      OBVIOUS
    <3>13. s.n < x.slice[2] /\ ChildOf(x, st, tok, s.n + 1) /\ Result(st, c).n > s.n
      BY <3>5, <3>6, <3>10, <3>11, <3>12
    <3>14. PICK r : RunsTo(buf, x, r) /\ r.n = Result(st, c).n
      BY <1>6, <3>5, <3>7, <3>8, <3>9, <3>12, <3>13, RunsChild
    <3>15. Cur(L)' = m
      BY <1>2, <2>2 DEF Cur
    <3>16. states'[L] = x
      BY <1>2, <2>1, <2>2, <3>3
    <3>17. Decoding(buf, L)'
      BY <3>10, <3>14, <3>15, <3>16 DEF Decoding
    <3> QED
      BY <2>2, <3>2, <3>17
  <2> QED
    BY <1>1, <1>2, <1>4, <2>2, <2>3 DEF Agrees
<1> QED
  BY <1>8, <1>9

LEMMA TopRuns ==
  ASSUME TypeOK, Layout, result = "run", deepest <= RecursionLimit, NEW buf, Completion(buf), Agrees(buf)
  PROVE  /\ Ready(buf, st) /\ \A j \in 1 .. Len(states) : Decoding(buf, j)
         /\ \E s : RunsTo(buf, st, s) /\ s.n = Cur(Len(states))
<1>1. Len(states) \in 1 .. Len(states)
  BY Running
<1>2. \A j \in 1 .. Len(states) : Decoding(buf, j)
  BY DEF Agrees
<1> QED
  BY <1>1, <1>2, FrameIs DEF Decoding, st

LEMMA AgreesEnded ==
  ASSUME TypeOK, TypeOK', Layout, NEW tok, EndedByTag(tok) \/ EndedBySlice, NEW buf, Completion(buf)', Agrees(buf)
  PROVE  Agrees(buf)'
<1>1. Grows /\ Pops /\ result = "run" /\ skip = <<>>
  BY DEF EndedByTag, EndedBySlice, Reads, Ends, Pops
<1>2. Completion(buf)
  BY <1>1, CompletionBack
<1>3. /\ Stack /\ Len(states) \in Nat \ {0} /\ Len(input) \in Nat /\ b \in Nat /\ st.slice[2] = Len(input) + b
      /\ Placed(Len(states))
  BY <1>1, Running DEF Stack
<1>4. st.typ = "group" <=> st.endGroup # 0
  BY <1>3 DEF Placed, st
<1>5. PICK m : m = Len(input')
  OBVIOUS
<1>6. st.typ # "group" => m = st.slice[2]
  <2>1. CASE EndedBySlice
    BY <1>3, <1>5, <2>1 DEF EndedBySlice, Ends
  <2>2. CASE EndedByTag(tok)
    <3>1. tok.num \in Nat \ {0} /\ st.endGroup = tok.num
      BY <2>2 DEF EndedByTag, Reads, Token
    <3> QED
      BY <1>4, <3>1
  <2> QED
    BY <2>1, <2>2
<1>7. ASSUME deepest <= RecursionLimit
      PROVE  FrameLoop(buf, st, Sub(buf, st)).err = "none" /\ FrameLoop(buf, st, Sub(buf, st)).n = m
  <2>1. Ready(buf, st)
    BY <1>1, <1>2, <1>7, TopRuns
  <2>2. PICK s : RunsTo(buf, st, s) /\ s.n = Cur(Len(states))
    BY <1>1, <1>2, <1>7, TopRuns
  <2>3. s.n = Len(input)
    BY <1>1, <1>3, <2>2 DEF Cur
  <2>4. \A n, ok : Done(n, ok).err = "none" /\ Done(n, ok).n = n
    BY DEF Done
  <2>5. CASE EndedBySlice
    <3>1. s.n = st.slice[2] /\ st.endGroup = 0 /\ m = s.n
      BY <1>3, <1>5, <2>3, <2>5 DEF EndedBySlice, Ends
    <3>2. FrameLoop(buf, st, Sub(buf, st)) = Done(s.n, Reports(st, s))
      BY <2>1, <2>2, <3>1, RunsDone
    <3> QED
      BY <2>4, <3>1, <3>2
  <2>6. CASE EndedByTag(tok)
    <3>1. Reads(tok, 0) /\ tok.wtyp = "end" /\ st.endGroup = tok.num
      BY <2>6 DEF EndedByTag
    <3>2. buf[Len(input) + 1] = tok /\ 0 < b /\ m = Len(input) + 1
      <4>1. buf[Len(input) + 1] = tok
        BY <3>1, CompletionHas
      <4>2. 0 < b /\ Len(input') = Len(input) + 1 + 0
        BY <3>1 DEF Reads
      <4> QED
        BY <1>3, <1>5, <4>1, <4>2
    <3>3. s.n < st.slice[2] /\ buf[s.n + 1].wtyp = "end" /\ st.endGroup = buf[s.n + 1].num
      BY <1>3, <2>3, <3>1, <3>2
    <3>4. FrameLoop(buf, st, Sub(buf, st)) = Done(s.n + 1, Reports(st, s))
      BY <2>1, <2>2, <3>3, RunsDone
    <3> QED
      BY <2>3, <2>4, <3>2, <3>4
  <2> QED
    BY <2>5, <2>6
<1> QED
  BY <1>1, <1>5, <1>6, <1>7, AgreesPops

(* A group that cannot be skipped. *)
LEMMA SkipRefused ==
  ASSUME TypeOK, Layout, result = "run", NEW buf, Completion(buf), Agrees(buf), skip # <<>>,
         NEW K, K = Len(skip), NEW n, n = DefaultRecursionLimit + 2 - K,
         NEW cur, cur = Len(input), NEW end, end = st.slice[2],
         \/ cur >= end
         \/ cur < end /\ buf[cur + 1].wtyp = "end" /\ buf[cur + 1].num # skip[K].num
         \/ /\ cur < end /\ buf[cur + 1].wtyp # "end"
            /\ ConsumeFieldValue(buf[cur + 1], cur + 1, end, ConsumeGroup(buf)[n - 1]) < 0,
         deepest <= RecursionLimit
  PROVE  Whole(buf).err = "decode"
<1>1. K \in Nat \ {0} /\ K \in 1 .. Len(skip) /\ K <= DefaultRecursionLimit + 1 /\ DefaultRecursionLimit \in Nat
  <2>1. K \in Nat /\ K > 0
    BY SkipType DEF TypeOK
  <2> QED
    BY <2>1, Running, ValidateAssumption DEF SkipStack
<1>2. n \in Nat \ {0} /\ Skipping(buf)
  BY <1>1 DEF Agrees
<1>3. SkipCur(K) = cur
  BY <1>1 DEF SkipCur
<1>4. GroupArgs(buf, skip[K].num, end, skip[K].start, n) /\ cur \in 0 .. Len(buf)
  BY <1>1, <1>2, <1>3, SkipArgs
<1>5. GroupRun(buf, skip[K].num, end, skip[K].start, cur, n)
  BY <1>1, <1>2, <1>3 DEF Skipping, SkipsAt
<1>6. GroupGives(buf, skip[K].num, end, skip[K].start, n, Fails("decode"))
  BY <1>4, <1>5, GroupEnds
<1>7. PICK i, t : i = DefaultRecursionLimit + 1 /\ t = Fails("decode")
  OBVIOUS
<1>8. GroupGives(buf, skip[1].num, end, skip[1].start, i, t)
  BY <1>2, <1>6, <1>7, SkipSinks
<1>9. PICK L, p, at, tok : L = Len(states) /\ p = Cur(L) /\ at = p + 1 /\ tok = buf[p + 1]
  OBVIOUS
<1>10. /\ at = skip[1].start /\ p < st.slice[2] /\ tok.wtyp = "start" /\ tok.num = skip[1].num
       /\ FieldIn(st, tok.num).resolves /\ tok.wtyp \notin Expects(FieldIn(st, tok.num).typ) /\ tok.wtyp # "end"
  BY <1>9, OuterGroup
<1>11. t.err = "decode"
  BY <1>7 DEF Fails
<1>12. ConsumesTo(buf, tok, at, end, i, -1)
  BY <1>8, <1>10, <1>11, ConsumeStart
<1>13. FieldEnd(buf, tok, at, end) = -1
  BY <1>7, <1>12 DEF ConsumesTo, FieldEnd
<1>14. Ready(buf, st) /\ \A j \in 1 .. Len(states) : Decoding(buf, j)
  BY TopRuns
<1>15. PICK s : RunsTo(buf, st, s) /\ s.n = p
  BY <1>9, TopRuns
<1>16. PICK m : m = FieldEnd(buf, tok, s.n + 1, st.slice[2])
  OBVIOUS
<1>17. m < 0 /\ s.n < st.slice[2] /\ tok = buf[s.n + 1]
  BY <1>9, <1>10, <1>13, <1>15, <1>16
<1>18. FrameLoop(buf, st, Sub(buf, st)) = t
  BY <1>7, <1>10, <1>14, <1>15, <1>16, <1>17, RunsOver
<1>19. Whole(buf) = t
  BY <1>11, <1>14, <1>18, Sinks
<1> QED
  BY <1>11, <1>19

(* A record that the top of the stack refuses. *)
LEMMA TopRefused ==
  ASSUME TypeOK, Layout, result = "run", NEW buf, Completion(buf), Agrees(buf), deepest <= RecursionLimit,
         skip = <<>>, NEW cur, cur = Len(input),
         \/ cur = st.slice[2] /\ st.endGroup # 0
         \/ cur < st.slice[2] /\ buf[cur + 1].wtyp = "end" /\ st.endGroup # buf[cur + 1].num
         \/ cur < st.slice[2] /\ IsMalformed(st, buf[cur + 1], st.slice[2] - cur)
  PROVE  Whole(buf).err = "decode"
<1>1. Ready(buf, st) /\ \A j \in 1 .. Len(states) : Decoding(buf, j)
  BY TopRuns
<1>2. PICK s : RunsTo(buf, st, s) /\ s.n = Cur(Len(states))
  BY TopRuns
<1>3. s.n = cur
  <2>1. Len(states) \in Nat
    BY DEF TypeOK
  <2> QED
    BY <1>2, <2>1 DEF Cur
<1>4. FrameLoop(buf, st, Sub(buf, st)) = Fails("decode")
  BY <1>1, <1>2, <1>3, RunsRefused
<1>5. PICK t : t = Fails("decode")
  OBVIOUS
<1>6. t.err = "decode"
  BY <1>5 DEF Fails
<1>7. Whole(buf) = t
  BY <1>1, <1>4, <1>5, <1>6, Sinks
<1> QED
  BY <1>6, <1>7

LEMMA AgreesRefused ==
  ASSUME TypeOK, TypeOK', Layout, NEW tok, Refuses(tok), NEW buf, Completion(buf)', Agrees(buf)
  PROVE  Agrees(buf)'
<1>1. Reads(tok, 0) /\ Grows /\ result = "run" /\ result' = "invalid" /\ deepest' = deepest /\ tok \in Token /\ 0 < b
  BY DEF Refuses, Reads, Stops
<1>2. Completion(buf) /\ Whole(buf)' = Whole(buf) /\ buf[Len(input) + 1] = tok
  BY <1>1, CompletionBack, CompletionHas
<1>3. Stack /\ Len(input) \in Nat /\ b \in Nat /\ st.slice[2] = Len(input) + b /\ tok.size \in Nat /\ Len(skip) \in Nat
  BY <1>1, Running DEF Stack, Token
<1>4. ASSUME deepest <= RecursionLimit
      PROVE  Whole(buf).err = "decode"
  <2>1. PICK cur, end : cur = Len(input) /\ end = st.slice[2]
    OBVIOUS
  <2>2. cur < end /\ buf[cur + 1] = tok /\ end = cur + b
    BY <1>1, <1>2, <1>3, <2>1
  <2>3. CASE skip = <<>>
    <3>1. CASE tok.wtyp = "end" /\ st.endGroup # tok.num
      <4>1. cur < st.slice[2] /\ buf[cur + 1].wtyp = "end" /\ st.endGroup # buf[cur + 1].num
        BY <2>1, <2>2, <3>1
      <4> QED
        BY <1>1, <1>2, <1>4, <2>1, <2>3, <4>1, TopRefused
    <3>2. CASE IsMalformed(st, tok, b)
      <4>1. st.slice[2] - cur = b
        BY <1>3, <2>1
      <4>2. cur < st.slice[2] /\ IsMalformed(st, buf[cur + 1], st.slice[2] - cur)
        BY <2>1, <2>2, <3>2, <4>1
      <4> QED
        BY <1>1, <1>2, <1>4, <2>1, <2>3, <4>2, TopRefused
    <3> QED
      BY <2>3, <3>1, <3>2 DEF Refuses
  <2>4. CASE skip # <<>>
    <3>1. PICK K, n : K = Len(skip) /\ n = DefaultRecursionLimit + 2 - K
      OBVIOUS
    <3>2. K \in Nat \ {0} /\ K <= DefaultRecursionLimit + 1 /\ DefaultRecursionLimit \in Nat
      <4>1. K \in Nat /\ K > 0
        BY <2>4, <3>1, SkipType DEF TypeOK
      <4> QED
        BY <1>1, <3>1, <4>1, Running, ValidateAssumption DEF SkipStack
    <3>3. CASE tok.wtyp = "end" /\ tok.num # skip[Len(skip)].num
      <4>1. cur < end /\ buf[cur + 1].wtyp = "end" /\ buf[cur + 1].num # skip[K].num
        BY <2>2, <3>1, <3>3
      <4> QED
        BY <1>1, <1>2, <1>4, <2>1, <2>4, <3>1, <4>1, SkipRefused
    <3>4. CASE \/ tok.wtyp = "bytes" /\ tok.size >= b
               \/ tok.wtyp = "start" /\ Len(skip) > DefaultRecursionLimit
               \/ tok.wtyp = "reserved"
      <4>1. PICK i, at : i = n - 1 /\ at = cur + 1
        OBVIOUS
      <4>2. ConsumesTo(buf, tok, at, end, i, -1)
        <5>1. CASE tok.wtyp = "bytes" /\ tok.size >= b
          <6>1. at + tok.size > end
            BY <1>3, <2>1, <2>2, <4>1, <5>1
          <6> QED
            BY <5>1, <6>1 DEF ConsumesTo, ConsumeFieldValue
        <5>2. CASE tok.wtyp = "reserved"
          BY <5>2 DEF ConsumesTo, ConsumeFieldValue
        <5>3. CASE tok.wtyp = "start" /\ Len(skip) > DefaultRecursionLimit
          <6>1. i = 0
            BY <3>1, <3>2, <4>1, <5>3
          <6>2. tok.num \in Nat /\ end \in 0 .. Len(buf) /\ at \in 0 .. Len(buf) /\ buf \in Seq(Token)
            <7>1. 1 \in Nat \ {0} /\ K \in 1 .. Len(skip)
              BY <3>1, <3>2
            <7>2. GroupArgs(buf, skip[K].num, st.slice[2], skip[K].start, 1)
              BY <1>1, <1>2, <7>1, SkipArgs
            <7>3. tok.num \in Nat
              BY <1>1 DEF Token
            <7>4. end \in 0 .. Len(buf) /\ buf \in Seq(Token)
              BY <2>1, <7>2 DEF GroupArgs
            <7> QED
              BY <1>3, <2>1, <2>2, <4>1, <7>3, <7>4
          <6>3. PICK t : t = Fails("decode")
            OBVIOUS
          <6>4. GroupGives(buf, tok.num, end, at, i, t)
            BY <6>1, <6>2, <6>3, ConsumeGroupDef DEF GroupGives
          <6>5. t.err # "none"
            BY <6>3 DEF Fails
          <6> QED
            BY <5>3, <6>4, <6>5, ConsumeStart
        <5> QED
          BY <3>4, <5>1, <5>2, <5>3
      <4>3. ConsumeFieldValue(buf[cur + 1], cur + 1, end, ConsumeGroup(buf)[n - 1]) < 0 /\ buf[cur + 1].wtyp # "end"
        BY <2>2, <3>4, <4>1, <4>2 DEF ConsumesTo
      <4> QED
        BY <1>1, <1>2, <1>4, <2>1, <2>2, <2>4, <3>1, <4>3, SkipRefused
    <3> QED
      BY <2>4, <3>3, <3>4 DEF Refuses
  <2> QED
    BY <2>3, <2>4
<1> QED
  BY <1>1, <1>2, <1>4 DEF Agrees

LEMMA AgreesTruncated ==
  ASSUME TypeOK, TypeOK', Layout, Truncated, NEW buf, Completion(buf)', Agrees(buf)
  PROVE  Agrees(buf)'
<1>1. Grows /\ result = "run" /\ result' = "invalid" /\ deepest' = deepest /\ b = 0 /\ (skip # <<>> \/ st.endGroup # 0)
  BY DEF Truncated, Ends, Stops
<1>2. Completion(buf) /\ Whole(buf)' = Whole(buf)
  BY <1>1, CompletionBack
<1>3. Stack /\ Len(input) \in Nat /\ st.slice[2] = Len(input)
  BY <1>1, Running DEF Stack
<1>4. ASSUME deepest <= RecursionLimit
      PROVE  Whole(buf).err = "decode"
  <2>1. PICK cur, end, K, n : cur = Len(input) /\ end = st.slice[2] /\ K = Len(skip) /\ n = DefaultRecursionLimit + 2 - K
    OBVIOUS
  <2>2. cur = st.slice[2] /\ cur >= end
    BY <1>3, <2>1
  <2>3. CASE skip = <<>>
    BY <1>1, <1>2, <1>4, <2>1, <2>2, <2>3, TopRefused
  <2>4. CASE skip # <<>>
    BY <1>1, <1>2, <1>4, <2>1, <2>2, <2>4, SkipRefused
  <2> QED
    BY <2>3, <2>4
<1> QED
  BY <1>1, <1>2, <1>4 DEF Agrees

LEMMA AgreesUnsure ==
  ASSUME TypeOK, TypeOK', NEW tok, Unsure(tok), NEW buf, Completion(buf)', Agrees(buf)
  PROVE  Agrees(buf)'
<1>1. Grows /\ result' = "unknown" /\ deepest' = deepest
  BY DEF Unsure, Reads, Stops
<1>2. Whole(buf)' = Whole(buf)
  BY <1>1, CompletionBack
<1> QED
  BY <1>1, <1>2 DEF Agrees

(* What validate says of the buffers that begin with what it read. *)
Agreement == \A buf : Completion(buf) => Agrees(buf)

LEMMA StepAgrees ==
  ASSUME TypeOK, TypeOK', Layout, Agreement, NEW tok, NEW n, NEW y, Kinds(tok, n, y)
  PROVE  Agreement'
<1>1. Grows
  BY DEF Kinds, Passed, Opened, SkippedOver, Closed, Entered, EndedByTag, EndedBySlice, Refuses, Truncated, Unsure, Reads, Ends
<1>2. SUFFICES ASSUME NEW buf, Completion(buf)'
               PROVE  Agrees(buf)'
  BY DEF Agreement
<1>3. Agrees(buf)
  BY <1>1, <1>2, CompletionBack DEF Agreement
<1>4. CASE Passed(tok, n)
  BY <1>2, <1>3, <1>4, AgreesPassed
<1>5. CASE Opened(tok)
  BY <1>2, <1>3, <1>5, AgreesOpened
<1>6. CASE SkippedOver(tok, n)
  BY <1>2, <1>3, <1>6, AgreesSkipped
<1>7. CASE Closed(tok)
  BY <1>2, <1>3, <1>7, AgreesClosed
<1>8. CASE Entered(tok, y)
  BY <1>2, <1>3, <1>8, AgreesEntered
<1>9. CASE EndedByTag(tok) \/ EndedBySlice
  BY <1>2, <1>3, <1>9, AgreesEnded
<1>10. CASE Refuses(tok)
  BY <1>2, <1>3, <1>10, AgreesRefused
<1>11. CASE Truncated
  BY <1>2, <1>3, <1>11, AgreesTruncated
<1>12. CASE Unsure(tok)
  BY <1>2, <1>3, <1>12, AgreesUnsure
<1> QED
  BY <1>4, <1>5, <1>6, <1>7, <1>8, <1>9, <1>10, <1>11, <1>12 DEF Kinds

LEMMA InitAgrees ==
  ASSUME Init
  PROVE  Agreement
<1>1. TypeOK /\ Layout /\ result = "run" /\ skip = <<>> /\ deepest = 1 /\ input = <<>>
  BY InitLayout DEF Init
<1>2. SUFFICES ASSUME NEW buf, Completion(buf)
               PROVE  Agrees(buf)
  BY DEF Agreement
<1>3. Len(states) = 1
  BY DEF Init
<1>4. Skipping(buf)
  <2>1. Len(skip) = 0
    BY <1>1
  <2> QED
    BY <2>1 DEF Skipping
<1>5. deepest <= RecursionLimit
  BY <1>1, ValidateAssumption
<1>6. Decoding(buf, 1)
  <2>1. 1 \in 1 .. Len(states)
    BY <1>3
  <2>2. Ready(buf, states[1])
    BY <1>1, <1>2, <1>5, <2>1, FrameIs
  <2>3. RunsTo(buf, states[1], FrameFirst(states[1])) /\ FrameFirst(states[1]).n = states[1].slice[1]
    BY <2>2, RunsFirst, ReadyFacts
  <2>4. states[1].slice[1] = 0
    BY <1>1 DEF Layout, Stack, Root
  <2>5. Cur(1) = 0
    BY <1>1, <1>3 DEF Cur
  <2> QED
    BY <2>3, <2>4, <2>5 DEF Decoding
<1>7. ~(deepest > RecursionLimit)
  BY <1>1, ValidateAssumption
<1> QED
  BY <1>1, <1>3, <1>4, <1>6, <1>7 DEF Agrees

(* The inductive invariant: the layout of the stack, and what every buffer  *)
(* that begins with the records read will decode to.                        *)
AgreesInv == TypeOK /\ Layout /\ Agreement

LEMMA AgreesInvStep ==
  ASSUME AgreesInv, [Next]_vars
  PROVE  AgreesInv'
<1>1. TypeOK /\ Layout /\ Agreement
  BY DEF AgreesInv
<1>2. TypeOK' /\ Layout'
  BY <1>1, StepKeepsLayout
<1>3. CASE Next
  <2>1. PICK tok, n, y : Kinds(tok, n, y)
    BY <1>1, <1>3, StepKind
  <2>2. Agreement'
    BY <1>1, <1>2, <2>1, StepAgrees
  <2> QED
    BY <1>2, <2>2 DEF AgreesInv
<1>4. CASE vars' = vars
  <2>1. Agreement' = Agreement
    BY <1>4 DEF vars, Agreement, Completion, Agrees, Whole, Skipping, SkipsAt, SkipCur, Decoding, Cur, st
  <2> QED
    BY <1>1, <1>2, <2>1 DEF AgreesInv
<1> QED
  BY <1>3, <1>4

THEOREM AgreementTheorem == Spec => []AgreesInv
<1>1. Init => AgreesInv
  BY InitLayout, InitAgrees DEF AgreesInv
<1>2. AgreesInv /\ [Next]_vars => AgreesInv'
  BY AgreesInvStep
<1> QED
  BY <1>1, <1>2, PTL DEF Spec

LEMMA BufferIs ==
  ASSUME TypeOK, Layout
  PROVE  Completion(Buffer) /\ Decoded = Whole(Buffer)
<1>1. PICK f : f = [num |-> 1, wtyp |-> "varint", size |-> 0, utf8 |-> TRUE]
  OBVIOUS
<1>2. f \in Token
  BY <1>1 DEF Token, WireTypes
<1>3. PICK m : m = total - Len(input)
  OBVIOUS
<1>4. m \in Nat /\ Len(input) \in Nat /\ total \in Nat /\ input \in Seq(Token) /\ Len(input) + m = total
  BY <1>3 DEF TypeOK, Layout
<1>5. PICK rest : rest = [i \in 1 .. m |-> f]
  OBVIOUS
<1>6. rest \in Seq(Token) /\ Len(rest) = m
  BY <1>2, <1>4, <1>5
<1>7. Buffer = input \o rest
  BY <1>1, <1>3, <1>5 DEF Buffer
<1>8. input \o rest \in Seq(Token) /\ Len(input \o rest) = Len(input) + m
      /\ \A i \in 1 .. Len(input) : (input \o rest)[i] = input[i]
  BY <1>4, <1>6
<1>9. Completion(Buffer)
  BY <1>4, <1>7, <1>8 DEF Completion
<1>10. Decoded = Whole(Buffer)
  BY DEF Decoded, Whole
<1> QED
  BY <1>9, <1>10

(* What validate reports as invalid unmarshaling refuses, and what it       *)
(* reports as valid unmarshaling accepts, consuming as many bytes, unless   *)
(* messages nest deeper than the limit of unmarshaling.                     *)
THEOREM AgreesWithUnmarshalTheorem == Spec => []AgreesWithUnmarshal
<1>1. AgreesInv => AgreesWithUnmarshal
  <2> SUFFICES ASSUME AgreesInv
               PROVE  AgreesWithUnmarshal
    OBVIOUS
  <2>1. PICK buf : buf = Buffer
    OBVIOUS
  <2>2. Completion(buf) /\ Decoded = Whole(buf)
    BY <2>1, BufferIs DEF AgreesInv
  <2>3. Agrees(buf)
    BY <2>2 DEF AgreesInv, Agreement
  <2>4. deepest <= RecursionLimit \/ deepest > RecursionLimit
    BY ValidateAssumption DEF AgreesInv, TypeOK
  <2>5. "depth" # "none" /\ "decode" # "none" /\ Fails("depth").err = "depth"
    BY DEF Fails
  <2> QED
    BY <2>2, <2>3, <2>4, <2>5, Zenon DEF Agrees, AgreesWithUnmarshal
<1> QED
  BY <1>1, AgreementTheorem, PTL

-----------------------------------------------------------------------------
(* What being initialized means, one level of nesting at a time. *)

(* The fields of a message are there, and init holds of what they contain. *)
FieldHolds(buf, mt, slices, num, init) ==
  LET f == Schema[mt][num]
      of == Occurrences(buf, slices, num, f.typ)
  IN  /\ f.required => of # {}
      /\ f.mi # Nil /\ of # {} =>
             IF f.typ = "map" THEN \A o \in of : init[f.mi][Occurrences(buf, {o}, 2, "message")]
             ELSE init[f.mi][of]

Holds(buf, mt, slices, init) == \A num \in DOMAIN Schema[mt] : FieldHolds(buf, mt, slices, num, init)

InitType(buf) == [DOMAIN Schema -> [SUBSET Slices(buf) -> BOOLEAN]]

InitStep(buf, init) ==
  [mt \in DOMAIN Schema |-> [slices \in SUBSET Slices(buf) |-> Holds(buf, mt, slices, init)]]

LEMMA InitStepType ==
  ASSUME NEW buf, NEW init
  PROVE  InitStep(buf, init) \in InitType(buf)
<1>1. ASSUME NEW mt \in DOMAIN Schema, NEW slices \in SUBSET Slices(buf)
      PROVE  Holds(buf, mt, slices, init) \in BOOLEAN
  BY Zenon DEF Holds
<1> QED
  BY <1>1 DEF InitStep, InitType

LEMMA InitializedToDef ==
  ASSUME NEW buf
  PROVE  \A mt \in DOMAIN Schema, slices \in SUBSET Slices(buf) :
            /\ InitializedTo(buf)[0][mt][slices]
            /\ \A n \in Nat : InitializedTo(buf)[n + 1][mt][slices] <=> Holds(buf, mt, slices, InitializedTo(buf)[n])
<1> DEFINE H(mt, slices, init) == Holds(buf, mt, slices, init)
           E(f) == f = [depth \in Nat |-> [mt \in DOMAIN Schema |-> [slices \in SUBSET Slices(buf) |->
                          depth = 0 \/ H(mt, slices, f[depth - 1])]]]
           g == CHOOSE f : E(f)
           base == [mt \in DOMAIN Schema |-> [slices \in SUBSET Slices(buf) |-> TRUE]]
           step == [init \in InitType(buf) |-> InitStep(buf, init)]
<1>1. base \in InitType(buf) /\ step \in [InitType(buf) -> InitType(buf)]
  <2>1. base \in InitType(buf)
    BY DEF InitType
  <2>2. \A init \in InitType(buf) : InitStep(buf, init) \in InitType(buf)
    BY InitStepType
  <2> QED
    BY <2>1, <2>2
<1>2. PICK f : Follows(f, InitType(buf), base, step)
  <2> HIDE DEF base, step
  <2> QED BY <1>1, Recursion
<1>3. E(f)
  <2>1. ASSUME NEW n \in Nat
        PROVE  f[n] = [mt \in DOMAIN Schema |-> [slices \in SUBSET Slices(buf) |->
                          n = 0 \/ H(mt, slices, f[n - 1])]]
    <3>1. CASE n = 0
      <4>1. f[n] = base
        BY <1>2, <3>1 DEF Follows
      <4> HIDE DEF H
      <4> QED BY <3>1, <4>1
    <3>2. CASE n # 0
      <4>1. n - 1 \in Nat /\ (n - 1) + 1 = n
        BY <3>2
      <4>2. f[(n - 1) + 1] = step[f[n - 1]] /\ f[n - 1] \in InitType(buf)
        BY <1>2, <4>1 DEF Follows
      <4>3. f[n] = InitStep(buf, f[n - 1])
        BY <4>1, <4>2
      <4>4. \A mt \in DOMAIN Schema, slices \in SUBSET Slices(buf) :
                (n = 0 \/ H(mt, slices, f[n - 1])) = H(mt, slices, f[n - 1])
        BY <3>2, Zenon DEF Holds
      <4>5. InitStep(buf, f[n - 1]) =
              [mt \in DOMAIN Schema |-> [slices \in SUBSET Slices(buf) |-> H(mt, slices, f[n - 1])]]
        BY DEF InitStep
      <4> HIDE DEF H
      <4> QED
        BY <4>3, <4>4, <4>5
    <3> QED
      BY <3>1, <3>2
  <2>2. f = [n \in Nat |-> f[n]]
    BY <1>2 DEF Follows
  <2> HIDE DEF H
  <2> QED
    BY <2>1, <2>2
<1>4. E(g)
  BY <1>3
<1>5. InitializedTo(buf) = g
  BY DEF InitializedTo, Holds, FieldHolds
<1> HIDE DEF g, H
<1>6. ASSUME NEW n \in Nat, NEW mt \in DOMAIN Schema, NEW slices \in SUBSET Slices(buf)
      PROVE  g[n][mt][slices] = (n = 0 \/ H(mt, slices, g[n - 1]))
  <2>1. g[n] = [m \in DOMAIN Schema |-> [sl \in SUBSET Slices(buf) |-> n = 0 \/ H(m, sl, g[n - 1])]]
    BY <1>4
  <2>2. g[n][mt] = [sl \in SUBSET Slices(buf) |-> n = 0 \/ H(mt, sl, g[n - 1])]
    BY <2>1
  <2> QED
    BY <2>2, Zenon
<1>7. ASSUME NEW mt \in DOMAIN Schema, NEW slices \in SUBSET Slices(buf)
      PROVE  g[0][mt][slices]
  BY <1>6
<1>8. ASSUME NEW mt \in DOMAIN Schema, NEW slices \in SUBSET Slices(buf), NEW n \in Nat
      PROVE  g[n + 1][mt][slices] <=> H(mt, slices, g[n])
  <2>1. n + 1 \in Nat /\ n + 1 # 0 /\ (n + 1) - 1 = n
    OBVIOUS
  <2>2. g[n + 1][mt][slices] = (n + 1 = 0 \/ H(mt, slices, g[(n + 1) - 1]))
    BY <1>6, <2>1
  <2>3. PICK z : z = g[n + 1][mt][slices]
    OBVIOUS
  <2>4. PICK w : w = n + 1
    OBVIOUS
  <2>5. w # 0 /\ z = (w = 0 \/ H(mt, slices, g[n]))
    BY <2>1, <2>2, <2>3, <2>4
  <2>6. z <=> H(mt, slices, g[n])
    BY <2>5, Zenon
  <2> QED
    BY <2>3, <2>6
<1>9. \A mt \in DOMAIN Schema, slices \in SUBSET Slices(buf) : \A n \in Nat : H(mt, slices, g[n]) <=> Holds(buf, mt, slices, g[n])
  BY DEF H
<1> QED
  BY <1>5, <1>7, <1>8, <1>9

-----------------------------------------------------------------------------
(* The records of a slice. *)

(* From the record at the position at to the next one. *)
JumpIs(buf, end, at) ==
  /\ Jump(buf, end)[at] \in 0 .. Len(buf) /\ Jump(buf, end)[at] >= at
  /\ at >= end => Jump(buf, end)[at] = at
  /\ \A m : at < end /\ ConsumesTo(buf, buf[at + 1], at + 1, end, Len(buf) + 1, m) =>
        Jump(buf, end)[at] = IF m > at THEN m ELSE at

LEMMA JumpFacts ==
  ASSUME NEW buf \in Seq(Token), NEW end \in 0 .. Len(buf), NEW at \in 0 .. Len(buf)
  PROVE  JumpIs(buf, end, at)
<1>1. PICK m : m = ConsumeFieldValue(buf[at + 1], at + 1, end, ConsumeGroup(buf)[Len(buf) + 1])
  OBVIOUS
<1>2. Jump(buf, end)[at] = IF at < end /\ m > at THEN m ELSE at
  BY <1>1 DEF Jump
<1>3. at < end => m \in (0 .. Len(buf)) \cup {-1}
  <2>1. SUFFICES ASSUME at < end PROVE m \in (0 .. Len(buf)) \cup {-1}
    OBVIOUS
  <2>2. at + 1 \in 0 .. Len(buf) /\ buf[at + 1] \in Token /\ Len(buf) + 1 \in Nat
    BY <2>1
  <2>3. ConsumeGroup(buf)[Len(buf) + 1] \in GroupType(buf)
    BY <2>2, ConsumeGroupDef
  <2> QED
    BY <1>1, <2>2, <2>3, ConsumeFieldValueType
<1>4. Jump(buf, end)[at] \in 0 .. Len(buf) /\ Jump(buf, end)[at] >= at /\ (at >= end => Jump(buf, end)[at] = at)
  BY <1>2, <1>3
<1>5. ASSUME NEW k, at < end, ConsumesTo(buf, buf[at + 1], at + 1, end, Len(buf) + 1, k)
      PROVE  Jump(buf, end)[at] = IF k > at THEN k ELSE at
  <2>1. k = m
    BY <1>1, <1>5 DEF ConsumesTo
  <2> QED
    BY <1>2, <1>5, <2>1
<1> QED
  BY <1>4, <1>5 DEF JumpIs

LEMMA JumpType ==
  ASSUME NEW buf \in Seq(Token), NEW end \in 0 .. Len(buf)
  PROVE  Jump(buf, end) \in [0 .. Len(buf) -> 0 .. Len(buf)]
<1>1. \A at \in 0 .. Len(buf) : Jump(buf, end)[at] \in 0 .. Len(buf)
  BY JumpFacts DEF JumpIs
<1> QED
  BY <1>1 DEF Jump

(* Going from record to record in a slice comes to at. *)
Visits(buf, slice) == Iterations(Jump(buf, slice[2]), slice[1])

Reaches(buf, slice, at) == \E i \in 0 .. Len(buf) : Visits(buf, slice)[i] = at

LEMMA VisitsType ==
  ASSUME NEW buf \in Seq(Token), NEW slice \in Slices(buf)
  PROVE  Follows(Visits(buf, slice), 0 .. Len(buf), slice[1], Jump(buf, slice[2]))
<1>1. slice[1] \in 0 .. Len(buf) /\ slice[2] \in 0 .. Len(buf)
  BY DEF Slices
<1>2. Jump(buf, slice[2]) \in [0 .. Len(buf) -> 0 .. Len(buf)]
  BY <1>1, JumpType
<1> QED
  BY <1>1, <1>2, IterationsDef DEF Visits

LEMMA RecordsIs ==
  ASSUME NEW buf \in Seq(Token), NEW slice \in Slices(buf), NEW at
  PROVE  /\ at \in Records(buf, slice) <=> Reaches(buf, slice, at) /\ at < slice[2]
         /\ Reaches(buf, slice, at) => at \in 0 .. Len(buf)
         /\ at \in Records(buf, slice) => at + 1 \in 1 .. Len(buf) /\ buf[at + 1] \in Token
<1>1. at \in Records(buf, slice) <=> Reaches(buf, slice, at) /\ at < slice[2]
  BY DEF Records, Reaches, Visits
<1>2. Reaches(buf, slice, at) => at \in 0 .. Len(buf)
  <2>1. Follows(Visits(buf, slice), 0 .. Len(buf), slice[1], Jump(buf, slice[2]))
    BY VisitsType
  <2>2. \A i \in 0 .. Len(buf) : Visits(buf, slice)[i] \in 0 .. Len(buf)
    BY <2>1 DEF Follows
  <2> QED
    BY <2>2 DEF Reaches
<1>3. slice[2] \in 0 .. Len(buf)
  BY DEF Slices
<1>4. at \in Records(buf, slice) => at + 1 \in 1 .. Len(buf)
  BY <1>1, <1>2, <1>3
<1> QED
  BY <1>1, <1>2, <1>4

(* The record at p is one of the field num of type typ. *)
OfField(buf, p, num, typ) == buf[p + 1].num = num /\ buf[p + 1].wtyp \in Expects(typ)

LEMMA OccurrencesIs ==
  ASSUME NEW buf, NEW slices, NEW num, NEW typ, NEW o
  PROVE  o \in Occurrences(buf, slices, num, typ) <=>
            \E slice \in slices : \E p \in Records(buf, slice) :
               OfField(buf, p, num, typ) /\ o = Inside(buf, p, slice[2])
<1> DEFINE Q(slice) == {p \in Records(buf, slice) : OfField(buf, p, num, typ)}
           G(slice) == {Inside(buf, p, slice[2]) : p \in Q(slice)}
<1>1. Occurrences(buf, slices, num, typ) = UNION {G(slice) : slice \in slices}
  BY DEF Occurrences, OfField
<1>2. o \in UNION {G(slice) : slice \in slices} <=> \E slice \in slices : o \in G(slice)
  <2> HIDE DEF G
  <2> QED OBVIOUS
<1>3. \A slice : o \in G(slice) <=> \E p \in Q(slice) : o = Inside(buf, p, slice[2])
  <2> HIDE DEF Q
  <2> QED OBVIOUS
<1>4. \A slice, p : p \in Q(slice) <=> p \in Records(buf, slice) /\ OfField(buf, p, num, typ)
  OBVIOUS
<1> HIDE DEF Q, G
<1> QED
  BY <1>1, <1>2, <1>3, <1>4, Zenon

LEMMA InsideType ==
  ASSUME NEW buf \in Seq(Token), NEW slice \in Slices(buf), NEW p \in Records(buf, slice)
  PROVE  Inside(buf, p, slice[2]) \in Slices(buf) /\ Inside(buf, p, slice[2])[1] = p + 1
<1>1. p + 1 \in 1 .. Len(buf) /\ buf[p + 1] \in Token /\ p \in 0 .. Len(buf)
  BY RecordsIs
<1>2. buf[p + 1].size \in Nat /\ slice[2] \in 0 .. Len(buf) /\ Len(buf) \in Nat
  BY <1>1 DEF Token, Slices
<1>3. PICK stop, end : end = slice[2] /\ stop = IF buf[p + 1].wtyp = "bytes" /\ p + 1 + buf[p + 1].size <= end
                                               THEN p + 1 + buf[p + 1].size ELSE end
  OBVIOUS
<1>4. stop \in 0 .. Len(buf)
  BY <1>1, <1>2, <1>3
<1>5. Inside(buf, p, slice[2]) = <<p + 1, stop>>
  BY <1>3 DEF Inside
<1> QED
  BY <1>1, <1>4, <1>5 DEF Slices

LEMMA OccurrencesType ==
  ASSUME NEW buf \in Seq(Token), NEW slices \in SUBSET Slices(buf), NEW num, NEW typ
  PROVE  Occurrences(buf, slices, num, typ) \in SUBSET Slices(buf)
<1>1. ASSUME NEW o \in Occurrences(buf, slices, num, typ)
      PROVE  o \in Slices(buf)
  <2>1. PICK slice \in slices : \E p \in Records(buf, slice) : o = Inside(buf, p, slice[2])
    BY <1>1, OccurrencesIs
  <2> QED
    BY <2>1, InsideType
<1> QED
  BY <1>1

(* The occurrences in the slices of a family are those in its members. *)
LEMMA OccurrencesOfUnion ==
  ASSUME NEW buf, NEW F, NEW num, NEW typ, NEW o
  PROVE  o \in Occurrences(buf, UNION F, num, typ) <=> \E S \in F : o \in Occurrences(buf, S, num, typ)
<1>1. o \in Occurrences(buf, UNION F, num, typ) <=>
            \E slice \in UNION F : \E p \in Records(buf, slice) :
               OfField(buf, p, num, typ) /\ o = Inside(buf, p, slice[2])
  BY OccurrencesIs
<1>2. \A S : o \in Occurrences(buf, S, num, typ) <=>
            \E slice \in S : \E p \in Records(buf, slice) :
               OfField(buf, p, num, typ) /\ o = Inside(buf, p, slice[2])
  BY OccurrencesIs
<1> QED
  BY <1>1, <1>2, Zenon

LEMMA NoOccurrences ==
  ASSUME NEW buf, NEW num, NEW typ
  PROVE  Occurrences(buf, {}, num, typ) = {}
BY Zenon DEF Occurrences

-----------------------------------------------------------------------------
(* Messages that are initialized, however deep one looks. *)

Good(buf, mt, slices) == \A k \in Nat : InitializedTo(buf)[k][mt][slices]

GoodField(buf, mt, slices, num) ==
  LET f == Schema[mt][num]
      of == Occurrences(buf, slices, num, f.typ)
  IN  /\ f.required => of # {}
      /\ f.mi # Nil /\ of # {} =>
             IF f.typ = "map" THEN \A o \in of : Good(buf, f.mi, Occurrences(buf, {o}, 2, "message"))
             ELSE Good(buf, f.mi, of)

LEMMA GoodIf ==
  ASSUME NEW buf, NEW mt \in DOMAIN Schema, NEW slices \in SUBSET Slices(buf),
         \A num \in DOMAIN Schema[mt] : GoodField(buf, mt, slices, num)
  PROVE  Good(buf, mt, slices)
<1>1. SUFFICES ASSUME NEW k \in Nat PROVE InitializedTo(buf)[k][mt][slices]
  BY DEF Good
<1>2. CASE k = 0
  BY <1>2, InitializedToDef
<1>3. CASE k # 0
  <2>1. PICK n \in Nat : k = n + 1
    <3>1. k - 1 \in Nat /\ k = (k - 1) + 1
      BY <1>3
    <3> QED BY <3>1
  <2>2. PICK init : init = InitializedTo(buf)[n]
    OBVIOUS
  <2>3. ASSUME NEW num \in DOMAIN Schema[mt]
        PROVE  FieldHolds(buf, mt, slices, num, init)
    <3>1. \A m, S : Good(buf, m, S) => init[m][S]
      BY <2>2 DEF Good
    <3>2. GoodField(buf, mt, slices, num)
      OBVIOUS
    <3> QED
      BY <3>1, <3>2, Zenon DEF GoodField, FieldHolds
  <2>4. Holds(buf, mt, slices, init)
    BY <2>3 DEF Holds
  <2>5. InitializedTo(buf)[n + 1][mt][slices] <=> Holds(buf, mt, slices, InitializedTo(buf)[n])
    BY InitializedToDef
  <2> QED
    BY <2>1, <2>2, <2>4, <2>5
<1> QED
  BY <1>2, <1>3

LEMMA FieldType ==
  ASSUME NEW mt \in DOMAIN Schema, NEW num \in DOMAIN Schema[mt]
  PROVE  Schema[mt][num].mi # Nil => Schema[mt][num].mi \in DOMAIN Schema
<1>1. Schema[mt][num] \in FieldInfo
  BY SchemaAssumption
<1> QED
  BY <1>1 DEF FieldInfo

(* A field in the slices of a family whose members are initialized. *)
LEMMA FieldOfUnion ==
  ASSUME NEW buf \in Seq(Token), NEW init,
         \A m \in DOMAIN Schema : \A G \in SUBSET SUBSET Slices(buf) :
            G # {} /\ (\A S \in G : init[m][S]) => init[m][UNION G],
         NEW mt \in DOMAIN Schema, NEW F \in SUBSET SUBSET Slices(buf), F # {}, NEW num \in DOMAIN Schema[mt],
         \A S \in F : FieldHolds(buf, mt, S, num, init)
  PROVE  FieldHolds(buf, mt, UNION F, num, init)
<1>1. PICK f : f = Schema[mt][num]
  OBVIOUS
<1> DEFINE of(S) == Occurrences(buf, S, num, f.typ)
<1>2. \A S \in F : /\ f.required => of(S) # {}
                   /\ f.mi # Nil /\ of(S) # {} =>
                        IF f.typ = "map" THEN \A o \in of(S) : init[f.mi][Occurrences(buf, {o}, 2, "message")]
                        ELSE init[f.mi][of(S)]
  BY <1>1, Zenon DEF FieldHolds
<1>3. \A o : o \in of(UNION F) <=> \E S \in F : o \in of(S)
  BY OccurrencesOfUnion
<1>4. \A S \in F : of(S) \in SUBSET Slices(buf)
  BY OccurrencesType
<1> HIDE DEF of
<1>5. f.required => of(UNION F) # {}
  BY <1>2, <1>3, Zenon
<1>6. ASSUME f.mi # Nil, of(UNION F) # {}, f.typ = "map", NEW o \in of(UNION F)
      PROVE  init[f.mi][Occurrences(buf, {o}, 2, "message")]
  <2>1. PICK S \in F : o \in of(S)
    BY <1>3, <1>6
  <2> QED
    BY <1>2, <1>6, <2>1, Zenon
<1>7. ASSUME f.mi # Nil, of(UNION F) # {}, f.typ # "map"
      PROVE  init[f.mi][of(UNION F)]
  <2> DEFINE G == {of(S) : S \in {R \in F : of(R) # {}}}
  <2>1. f.mi \in DOMAIN Schema
    BY <1>1, <1>7, FieldType
  <2>2. G \in SUBSET SUBSET Slices(buf)
    BY <1>4
  <2>3. G # {}
    BY <1>3, <1>7
  <2>4. \A S \in G : init[f.mi][S]
    BY <1>2, <1>7, Zenon
  <2>5. UNION G = of(UNION F)
    <3>1. \A o : o \in UNION G <=> \E S \in F : of(S) # {} /\ o \in of(S)
      OBVIOUS
    <3>2. \A o : o \in UNION G <=> o \in of(UNION F)
      BY <1>3, <3>1, Zenon
    <3> HIDE DEF G
    <3> QED
      BY <3>2
  <2> HIDE DEF G
  <2>6. init[f.mi][UNION G]
    BY <2>1, <2>2, <2>3, <2>4, Zenon
  <2> QED
    BY <2>5, <2>6
<1> QED
  BY <1>1, <1>5, <1>6, <1>7, Zenon DEF FieldHolds, of

(* Initialized messages merge to an initialized message. *)
LEMMA GoodUnion ==
  ASSUME NEW buf \in Seq(Token), NEW mt \in DOMAIN Schema, NEW F \in SUBSET SUBSET Slices(buf), F # {},
         \A S \in F : Good(buf, mt, S)
  PROVE  Good(buf, mt, UNION F)
<1> DEFINE I == InitializedTo(buf)
           P(k) == \A m \in DOMAIN Schema : \A G \in SUBSET SUBSET Slices(buf) :
                      G # {} /\ (\A S \in G : I[k][m][S]) => I[k][m][UNION G]
           T == {k \in Nat : P(k)}
<1>1. P(0)
  <2>1. \A m \in DOMAIN Schema : \A G \in SUBSET SUBSET Slices(buf) : I[0][m][UNION G]
    <3>1. \A G \in SUBSET SUBSET Slices(buf) : UNION G \in SUBSET Slices(buf)
      OBVIOUS
    <3> QED BY <3>1, InitializedToDef
  <2> QED BY <2>1
<1>2. ASSUME NEW k \in Nat, P(k) PROVE P(k + 1)
  <2>1. PICK init : init = I[k]
    OBVIOUS
  <2>2. \A m \in DOMAIN Schema, S \in SUBSET Slices(buf) : I[k + 1][m][S] <=> Holds(buf, m, S, init)
    BY <2>1, InitializedToDef
  <2>3. \A m \in DOMAIN Schema : \A G \in SUBSET SUBSET Slices(buf) :
            G # {} /\ (\A S \in G : init[m][S]) => init[m][UNION G]
    BY <1>2, <2>1
  <2> HIDE DEF I
  <2>4. ASSUME NEW m \in DOMAIN Schema, NEW G \in SUBSET SUBSET Slices(buf), G # {}, \A S \in G : I[k + 1][m][S]
        PROVE  I[k + 1][m][UNION G]
    <3>1. UNION G \in SUBSET Slices(buf) /\ \A S \in G : S \in SUBSET Slices(buf)
      OBVIOUS
    <3>2. \A S \in G : Holds(buf, m, S, init)
      BY <2>2, <2>4, <3>1, Zenon
    <3>3. ASSUME NEW num \in DOMAIN Schema[m]
          PROVE  FieldHolds(buf, m, UNION G, num, init)
      <4>1. \A S \in G : FieldHolds(buf, m, S, num, init)
        BY <3>2, Zenon DEF Holds
      <4> QED
        BY <2>3, <2>4, <4>1, FieldOfUnion
    <3>4. Holds(buf, m, UNION G, init)
      BY <3>3 DEF Holds
    <3> QED
      BY <2>2, <3>1, <3>4, Zenon
  <2> QED
    BY <2>4
<1> HIDE DEF P
<1>3. Nat \subseteq T
  <2>1. 0 \in T /\ \A k \in Nat : k \in T => k + 1 \in T
    BY <1>1, <1>2
  <2> HIDE DEF T
  <2> QED BY <2>1, InductiveSet
<1>4. ASSUME NEW k \in Nat PROVE I[k][mt][UNION F]
  <2>1. P(k)
    BY <1>3
  <2>2. \A S \in F : I[k][mt][S]
    BY DEF Good
  <2> QED
    BY <2>1, <2>2, Zenon DEF P
<1> QED
  BY <1>4 DEF Good

(* The types that need no check, and their fields. *)
LEMMA NoCheck ==
  ASSUME NEW mt \in DOMAIN Schema, mt \notin CanLack
  PROVE  Required(mt) = {} /\ \A num \in DOMAIN Schema[mt] : Schema[mt][num].mi \notin CanLack
<1> DEFINE closed(S) == \A m \in DOMAIN Schema :
              Required(m) # {} \/ (\E num \in DOMAIN Schema[m] : Schema[m][num].mi \in S) => m \in S
<1>1. CanLack = {m \in DOMAIN Schema : \A S \in SUBSET DOMAIN Schema : closed(S) => m \in S}
  BY DEF CanLack
<1>2. PICK S \in SUBSET DOMAIN Schema : closed(S) /\ mt \notin S
  <2> HIDE DEF closed
  <2> QED BY <1>1
<1>3. \A m \in CanLack : m \in S
  <2> HIDE DEF closed
  <2> QED BY <1>1, <1>2
<1> QED
  BY <1>2, <1>3, Zenon

(* Their values are initialized whatever the bytes are. *)
LEMMA GoodNoCheck ==
  ASSUME NEW buf \in Seq(Token), NEW mt \in DOMAIN Schema, mt \notin CanLack, NEW slices \in SUBSET Slices(buf)
  PROVE  Good(buf, mt, slices)
<1> DEFINE I == InitializedTo(buf)
           P(k) == \A m \in DOMAIN Schema : \A S \in SUBSET Slices(buf) : m \notin CanLack => I[k][m][S]
           T == {k \in Nat : P(k)}
<1>1. P(0)
  BY InitializedToDef
<1>2. ASSUME NEW k \in Nat, P(k) PROVE P(k + 1)
  <2>1. PICK init : init = I[k]
    OBVIOUS
  <2>2. \A m \in DOMAIN Schema, S \in SUBSET Slices(buf) : I[k + 1][m][S] <=> Holds(buf, m, S, init)
    BY <2>1, InitializedToDef
  <2>3. \A m \in DOMAIN Schema : \A S \in SUBSET Slices(buf) : m \notin CanLack => init[m][S]
    BY <1>2, <2>1
  <2> HIDE DEF I
  <2>4. ASSUME NEW m \in DOMAIN Schema, NEW S \in SUBSET Slices(buf), m \notin CanLack
        PROVE  I[k + 1][m][S]
    <3>1. ASSUME NEW num \in DOMAIN Schema[m]
          PROVE  FieldHolds(buf, m, S, num, init)
      <4>1. PICK f, of : f = Schema[m][num] /\ of = Occurrences(buf, S, num, f.typ)
        OBVIOUS
      <4>2. ~f.required /\ f.mi \notin CanLack /\ (f.mi # Nil => f.mi \in DOMAIN Schema)
        BY <2>4, <4>1, NoCheck, FieldType DEF Required
      <4>3. of \in SUBSET Slices(buf)
        BY <4>1, OccurrencesType
      <4>4. \A o \in of : Occurrences(buf, {o}, 2, "message") \in SUBSET Slices(buf)
        <5>1. \A o \in of : {o} \in SUBSET Slices(buf)
          BY <4>3
        <5> QED BY <5>1, OccurrencesType
      <4>5. f.mi # Nil => init[f.mi][of] /\ \A o \in of : init[f.mi][Occurrences(buf, {o}, 2, "message")]
        BY <2>3, <4>2, <4>3, <4>4, Zenon
      <4> QED
        BY <4>1, <4>2, <4>5, Zenon DEF FieldHolds
    <3>2. Holds(buf, m, S, init)
      BY <3>1 DEF Holds
    <3> QED
      BY <2>2, <3>2
  <2> QED
    BY <2>4
<1> HIDE DEF P
<1>3. Nat \subseteq T
  <2>1. 0 \in T /\ \A k \in Nat : k \in T => k + 1 \in T
    BY <1>1, <1>2
  <2> HIDE DEF T
  <2> QED BY <2>1, InductiveSet
<1> QED
  BY <1>3 DEF Good, P

-----------------------------------------------------------------------------
(* Going through a slice record by record. *)

LEMMA VisitsNext ==
  ASSUME NEW buf \in Seq(Token), NEW slice \in Slices(buf), NEW i \in Nat
  PROVE  /\ i + 1 \in Nat /\ Visits(buf, slice)[i] \in 0 .. Len(buf) /\ Visits(buf, slice)[i + 1] \in 0 .. Len(buf)
         /\ Visits(buf, slice)[i + 1] = Jump(buf, slice[2])[Visits(buf, slice)[i]]
<1>1. Follows(Visits(buf, slice), 0 .. Len(buf), slice[1], Jump(buf, slice[2]))
  BY VisitsType
<1>2. PICK v : v = Visits(buf, slice)
  OBVIOUS
<1>3. v \in [Nat -> 0 .. Len(buf)] /\ v[i + 1] = Jump(buf, slice[2])[v[i]]
  BY <1>1, <1>2, Zenon DEF Follows
<1>4. i + 1 \in Nat
  OBVIOUS
<1> QED
  BY <1>2, <1>3, <1>4

LEMMA VisitsGrow ==
  ASSUME NEW buf \in Seq(Token), NEW slice \in Slices(buf), NEW i \in Nat, NEW j \in Nat, i <= j
  PROVE  Visits(buf, slice)[i] <= Visits(buf, slice)[j]
<1> DEFINE T == {k \in Nat : Visits(buf, slice)[i] <= Visits(buf, slice)[i + k]}
<1>1. PICK v, jump : v = Visits(buf, slice) /\ jump = Jump(buf, slice[2])
  OBVIOUS
<1>3. \A k \in Nat : v[k] \in 0 .. Len(buf) /\ v[k + 1] \in 0 .. Len(buf) /\ v[k + 1] = jump[v[k]]
  BY <1>1, VisitsNext
<1>4. \A at \in 0 .. Len(buf) : jump[at] >= at
  BY <1>1, JumpFacts DEF JumpIs, Slices
<1>5. Len(buf) \in Nat
  OBVIOUS
<1>6. 0 \in T
  <2>1. v[i] \in 0 .. Len(buf) /\ i + 0 = i
    BY <1>3
  <2> QED BY <1>1, <1>5, <2>1
<1>7. ASSUME NEW k \in Nat, k \in T PROVE k + 1 \in T
  <2>1. i + k \in Nat /\ i + (k + 1) = (i + k) + 1
    OBVIOUS
  <2>2. PICK p, q, r : p = v[i] /\ q = v[i + k] /\ r = v[(i + k) + 1]
    OBVIOUS
  <2>3. p \in 0 .. Len(buf) /\ q \in 0 .. Len(buf) /\ r = jump[q] /\ r \in 0 .. Len(buf)
    BY <1>3, <2>1, <2>2, Zenon
  <2>4. r >= q /\ p <= q
    BY <1>1, <1>4, <1>7, <2>2, <2>3
  <2>5. p <= r
    BY <1>5, <2>3, <2>4
  <2> QED
    BY <1>1, <2>1, <2>2, <2>5
<1>8. Nat \subseteq T
  <2> HIDE DEF T
  <2> QED BY <1>6, <1>7, InductiveSet
<1>9. j - i \in Nat /\ i + (j - i) = j
  OBVIOUS
<1> QED
  BY <1>8, <1>9

(* Going from record to record has come to cur. *)
At(buf, slice, cur) == \E i \in Nat : i <= cur - slice[1] /\ Visits(buf, slice)[i] = cur

LEMMA AtFirst ==
  ASSUME NEW buf \in Seq(Token), NEW slice \in Slices(buf)
  PROVE  At(buf, slice, slice[1])
<1>1. Follows(Visits(buf, slice), 0 .. Len(buf), slice[1], Jump(buf, slice[2]))
  BY VisitsType
<1>2. slice[1] \in Nat
  BY DEF Slices
<1>3. Visits(buf, slice)[0] = slice[1]
  BY <1>1 DEF Follows
<1>4. 0 <= slice[1] - slice[1]
  BY <1>2
<1> QED
  BY <1>3, <1>4 DEF At

LEMMA AtReaches ==
  ASSUME NEW buf \in Seq(Token), NEW slice \in Slices(buf), NEW cur, At(buf, slice, cur)
  PROVE  Reaches(buf, slice, cur) /\ cur \in 0 .. Len(buf) /\ slice[1] \in Nat /\ slice[1] <= cur
<1>1. PICK i \in Nat : i <= cur - slice[1] /\ Visits(buf, slice)[i] = cur
  BY DEF At
<1>2. Follows(Visits(buf, slice), 0 .. Len(buf), slice[1], Jump(buf, slice[2]))
  BY VisitsType
<1>3. cur \in 0 .. Len(buf)
  BY <1>1, <1>2 DEF Follows
<1>4. slice[1] \in Nat
  BY DEF Slices
<1>5. i \in 0 .. Len(buf) /\ slice[1] <= cur
  BY <1>1, <1>3, <1>4
<1> QED
  BY <1>1, <1>3, <1>4, <1>5 DEF Reaches

LEMMA AtNext ==
  ASSUME NEW buf \in Seq(Token), NEW slice \in Slices(buf), NEW cur, At(buf, slice, cur),
         NEW m, m = Jump(buf, slice[2])[cur], m > cur
  PROVE  At(buf, slice, m)
<1>1. PICK i \in Nat : i <= cur - slice[1] /\ Visits(buf, slice)[i] = cur
  BY DEF At
<1>3. Visits(buf, slice)[i + 1] = m /\ i + 1 \in Nat /\ cur \in 0 .. Len(buf) /\ m \in 0 .. Len(buf)
  BY <1>1, VisitsNext
<1>4. cur \in Nat /\ m \in Nat /\ slice[1] \in Nat
  BY <1>3 DEF Slices
<1>5. i + 1 <= m - slice[1]
  BY <1>1, <1>4
<1> QED
  BY <1>3, <1>5 DEF At

(* There is no record between one and the next, and none after the last. *)
LEMMA AtOrder ==
  ASSUME NEW buf \in Seq(Token), NEW slice \in Slices(buf), NEW cur, At(buf, slice, cur),
         NEW p, Reaches(buf, slice, p), NEW m, m = Jump(buf, slice[2])[cur]
  PROVE  p <= cur \/ (m # cur /\ p >= m)
<1>1. PICK c \in Nat : Visits(buf, slice)[c] = cur
  BY DEF At
<1>2. PICK i \in Nat : Visits(buf, slice)[i] = p
  BY DEF Reaches
<1>3. cur \in 0 .. Len(buf) /\ p \in 0 .. Len(buf) /\ m \in 0 .. Len(buf)
  BY <1>1, <1>2, VisitsNext
<1>4. Visits(buf, slice)[c + 1] = m /\ c + 1 \in Nat
  BY <1>1, VisitsNext
<1>5. CASE i <= c
  BY <1>1, <1>2, <1>5, VisitsGrow
<1>6. CASE i > c /\ m # cur
  <2>1. c + 1 <= i
    BY <1>6
  <2>2. m <= p
    BY <1>2, <1>4, <2>1, VisitsGrow
  <2>3. m \in Nat /\ p \in Nat
    BY <1>3
  <2> QED
    BY <1>6, <2>2, <2>3
<1>7. CASE i > c /\ m = cur
  <2>1. slice[1] \in 0 .. Len(buf) /\ slice[2] \in 0 .. Len(buf)
    BY DEF Slices
  <2>2. PICK body, first : body = Jump(buf, slice[2]) /\ first = slice[1]
    OBVIOUS
  <2>3. body \in [0 .. Len(buf) -> 0 .. Len(buf)] /\ first \in 0 .. Len(buf)
    BY <2>1, <2>2, JumpType
  <2>4. Iterations(body, first)[c] = cur /\ body[cur] = cur
    BY <1>1, <1>7, <2>2 DEF Visits
  <2>5. \A j \in Nat : j >= c => Iterations(body, first)[j] = cur
    BY <2>3, <2>4, Stays
  <2>6. i >= c
    BY <1>7
  <2>7. Iterations(body, first)[i] = cur
    BY <2>5, <2>6
  <2>8. p = cur
    BY <1>2, <2>2, <2>7 DEF Visits
  <2>9. cur \in Nat
    BY <1>3
  <2> QED
    BY <2>8, <2>9
<1>8. i <= c \/ i > c
  OBVIOUS
<1> QED
  BY <1>5, <1>6, <1>7, <1>8

-----------------------------------------------------------------------------
(* The required fields of a state of the stack, and the contents of its     *)
(* records.                                                                 *)

LEMMA FrameSlice ==
  ASSUME NEW buf, NEW x, FrameOK(buf, x)
  PROVE  x.slice \in Slices(buf) /\ x.mi \in DOMAIN Schema
<1>1. x.slice \in Nat \X Nat /\ x.mi \in DOMAIN Schema
  BY DEF FrameOK, validationState
<1>2. x.slice[1] \in 0 .. Len(buf) /\ x.slice[2] \in 0 .. Len(buf)
  BY DEF FrameOK
<1>3. PICK s : s = x.slice
  OBVIOUS
<1>4. s \in (0 .. Len(buf)) \X (0 .. Len(buf))
  BY <1>1, <1>2, <1>3
<1> QED
  BY <1>1, <1>3, <1>4 DEF Slices

(* A record of the field num is in the slice of x. *)
Seen(buf, x, num) == \E p \in Records(buf, x.slice) : OfField(buf, p, num, FieldIn(x, num).typ)

(* The bits of mask stand for fields that were seen. *)
MaskOK(buf, x, mask) ==
  IF x.typ = "map" THEN mask # {} => Seen(buf, x, 2)
  ELSE \A i \in mask : \E num \in Required(x.mi) : requiredBit(x.mi, num) = {i} /\ Seen(buf, x, num)

(* All bits stand for all required fields. *)
LEMMA MaskFull ==
  ASSUME NEW buf, NEW x \in validationState, x.typ # "map", NEW mask, MaskOK(buf, x, mask),
         AllSeen(mask, numRequiredFields(x.mi))
  PROVE  \A num \in Required(x.mi) : Seen(buf, x, num)
<1>1. PICK mt, all : mt = x.mi /\ all = Required(mt)
  OBVIOUS
<1>2. mt \in DOMAIN Schema
  BY <1>1 DEF validationState
<1>3. IsFiniteSet(all) /\ Cardinality(all) \in Nat
  <2>1. IsFiniteSet(all)
    BY <1>1, <1>2, RequiredFinite
  <2> QED
    BY <2>1, FS_CardinalityType
<1>4. CASE all = {}
  BY <1>1, <1>4
<1>5. CASE all # {}
  <2> DEFINE seen == {num \in all : Seen(buf, x, num)}
             f == [i \in mask |-> CHOOSE num \in all : requiredBit(mt, num) = {i} /\ Seen(buf, x, num)]
  <2>1. Cardinality(mask) = Cardinality(all)
    <3>1. Cardinality(all) > 0
      BY <1>3, <1>5, FS_EmptySet
    <3> QED
      BY <1>1, <3>1 DEF AllSeen, numRequiredFields
  <2>2. \A i \in mask : \E num \in all : requiredBit(mt, num) = {i} /\ Seen(buf, x, num)
    BY <1>1, Zenon DEF MaskOK
  <2>3. \A i \in mask : f[i] \in all /\ requiredBit(mt, f[i]) = {i} /\ Seen(buf, x, f[i])
    BY <2>2
  <2>4. f \in [mask -> seen]
    <3>1. \A i \in mask : f[i] \in seen
      BY <2>3
    <3> QED
      BY <3>1
  <2> HIDE DEF f
  <2>5. \A i, j \in mask : f[i] = f[j] => i = j
    BY <2>3
  <2>6. f \in Injection(mask, seen)
    BY <2>4, <2>5 DEF Injection, IsInjective
  <2>7. seen \in SUBSET all
    OBVIOUS
  <2> HIDE DEF seen
  <2>8. IsFiniteSet(seen) /\ Cardinality(seen) <= Cardinality(all) /\ (Cardinality(all) = Cardinality(seen) => all = seen)
    BY <1>3, <2>7, FS_Subset
  <2>9. Cardinality(mask) <= Cardinality(seen)
    BY <2>6, <2>8, FS_Injection
  <2>10. Cardinality(seen) \in Nat
    BY <2>8, FS_CardinalityType
  <2>11. all = seen
    BY <1>3, <2>1, <2>8, <2>9, <2>10
  <2> QED
    BY <1>1, <2>11 DEF seen
<1> QED
  BY <1>4, <1>5

(* The bit of a record that was seen. *)
LEMMA MaskMarks ==
  ASSUME NEW buf, NEW x, NEW mask, MaskOK(buf, x, mask), NEW p \in Records(buf, x.slice), NEW tok, tok = buf[p + 1],
         tok.wtyp \in Expects(FieldIn(x, tok.num).typ)
  PROVE  /\ x.typ # "map" => MaskOK(buf, x, mask \cup requiredBit(x.mi, tok.num))
         /\ x.typ = "map" => MaskOK(buf, x, mask \cup {0 : i \in {2} \cap {tok.num}})
<1>1. Seen(buf, x, tok.num)
  BY DEF Seen, OfField
<1>2. ASSUME x.typ # "map"
      PROVE  MaskOK(buf, x, mask \cup requiredBit(x.mi, tok.num))
  <2>1. PICK n : n = Cardinality({m \in Required(x.mi) : m < tok.num})
    OBVIOUS
  <2>2. requiredBit(x.mi, tok.num) = IF tok.num \in Required(x.mi) /\ n < MaskBits THEN {n} ELSE {}
    BY <2>1 DEF requiredBit
  <2>3. PICK num, bits : num = tok.num /\ bits = requiredBit(x.mi, num)
    OBVIOUS
  <2>4. \A i \in bits : num \in Required(x.mi) /\ bits = {i}
    BY <2>2, <2>3
  <2>5. \A i \in mask : \E m \in Required(x.mi) : requiredBit(x.mi, m) = {i} /\ Seen(buf, x, m)
    BY <1>2, Zenon DEF MaskOK
  <2>6. \A i \in mask \cup bits : \E m \in Required(x.mi) : requiredBit(x.mi, m) = {i} /\ Seen(buf, x, m)
    BY <1>1, <2>3, <2>4, <2>5
  <2> QED
    BY <1>2, <2>3, <2>6, Zenon DEF MaskOK
<1>3. ASSUME x.typ = "map"
      PROVE  MaskOK(buf, x, mask \cup {0 : i \in {2} \cap {tok.num}})
  <2>1. mask # {} => Seen(buf, x, 2)
    BY <1>3, Zenon DEF MaskOK
  <2>2. {0 : i \in {2} \cap {tok.num}} # {} => tok.num = 2
    OBVIOUS
  <2>3. mask \cup {0 : i \in {2} \cap {tok.num}} # {} => Seen(buf, x, 2)
    BY <1>1, <2>1, <2>2
  <2> QED
    BY <1>3, <2>3, Zenon DEF MaskOK
<1> QED
  BY <1>2, <1>3

-----------------------------------------------------------------------------
(* From the contents of its records to a state of the stack. *)

(* What is in a slice is initialized. *)
ContentsGood(buf, typ, mi, slice) ==
  IF typ = "map" THEN Good(buf, mi, Occurrences(buf, {slice}, 2, "message")) ELSE Good(buf, mi, {slice})

(* The contents of the record at p are. *)
Sound(buf, x, p) ==
  buf[p + 1].wtyp \in Expects(FieldIn(x, buf[p + 1].num).typ) /\ FieldIn(x, buf[p + 1].num).mi # Nil =>
     ContentsGood(buf, FieldIn(x, buf[p + 1].num).typ, FieldIn(x, buf[p + 1].num).mi, Inside(buf, p, x.slice[2]))

SoundTo(buf, x, cur) == \A p \in Records(buf, x.slice) : p < cur => Sound(buf, x, p)

(* No field of the slice is past cur. *)
Last(buf, x, cur) == \A p \in Records(buf, x.slice) : p < cur \/ buf[p + 1].wtyp = "end"

LEMMA GoodEach ==
  ASSUME NEW buf \in Seq(Token), NEW mt \in DOMAIN Schema, NEW of \in SUBSET Slices(buf), of # {},
         \A o \in of : Good(buf, mt, {o})
  PROVE  Good(buf, mt, of)
<1> DEFINE F == {{o} : o \in of}
<1>1. F \in SUBSET SUBSET Slices(buf) /\ F # {} /\ UNION F = of
  OBVIOUS
<1>2. \A S \in F : Good(buf, mt, S)
  BY Zenon
<1> HIDE DEF F
<1>3. Good(buf, mt, UNION F)
  BY <1>1, <1>2, GoodUnion
<1> QED
  BY <1>1, <1>3

(* The occurrences of a field in the slice of x. *)
LEMMA SoundOccurrences ==
  ASSUME NEW buf, NEW x, NEW cur, SoundTo(buf, x, cur), Last(buf, x, cur), NEW num, NEW f, f = FieldIn(x, num),
         f.mi # Nil, NEW o \in Occurrences(buf, {x.slice}, num, f.typ)
  PROVE  ContentsGood(buf, f.typ, f.mi, o)
<1>1. PICK slice \in {x.slice} : \E p \in Records(buf, slice) : OfField(buf, p, num, f.typ) /\ o = Inside(buf, p, slice[2])
  BY OccurrencesIs
<1>2. PICK p \in Records(buf, x.slice) : OfField(buf, p, num, f.typ) /\ o = Inside(buf, p, x.slice[2])
  BY <1>1
<1>3. buf[p + 1].num = num /\ buf[p + 1].wtyp \in Expects(f.typ)
  BY <1>2 DEF OfField
<1>4. buf[p + 1].wtyp # "end"
  BY <1>3 DEF Expects
<1>5. Sound(buf, x, p)
  BY <1>4 DEF SoundTo, Last
<1> QED
  BY <1>2, <1>3, <1>5, Zenon DEF Sound

LEMMA MessageGood ==
  ASSUME NEW buf \in Seq(Token), NEW x, FrameOK(buf, x), x.typ # "map",
         NEW cur, SoundTo(buf, x, cur), Last(buf, x, cur), \A num \in Required(x.mi) : Seen(buf, x, num)
  PROVE  Good(buf, x.mi, {x.slice})
<1>1. x.slice \in Slices(buf) /\ x.mi \in DOMAIN Schema
  BY FrameSlice
<1>2. PICK mt, S : mt = x.mi /\ S = {x.slice}
  OBVIOUS
<1>3. mt \in DOMAIN Schema /\ S \in SUBSET Slices(buf)
  BY <1>1, <1>2
<1>4. ASSUME NEW num \in DOMAIN Schema[mt]
      PROVE  GoodField(buf, mt, S, num)
  <2>1. PICK f, of : f = Schema[mt][num] /\ of = Occurrences(buf, S, num, f.typ)
    OBVIOUS
  <2>2. f = FieldIn(x, num) /\ of \in SUBSET Slices(buf) /\ (f.mi # Nil => f.mi \in DOMAIN Schema)
    BY <1>2, <1>3, <2>1, OccurrencesType, FieldType DEF FieldIn, FieldOf
  <2>3. f.required => of # {}
    <3>1. SUFFICES ASSUME f.required PROVE of # {}
      OBVIOUS
    <3>2. num \in Required(x.mi)
      BY <1>2, <2>1, <3>1 DEF Required
    <3>3. PICK p \in Records(buf, x.slice) : OfField(buf, p, num, f.typ)
      BY <2>2, <3>2 DEF Seen
    <3>4. Inside(buf, p, x.slice[2]) \in of
      BY <1>2, <2>1, <3>3, OccurrencesIs
    <3> QED
      BY <3>4
  <2>4. f.mi # Nil => \A o \in of : ContentsGood(buf, f.typ, f.mi, o)
    BY <1>2, <2>1, <2>2, SoundOccurrences
  <2>5. f.mi # Nil /\ f.typ = "map" => \A o \in of : Good(buf, f.mi, Occurrences(buf, {o}, 2, "message"))
    BY <2>4, Zenon DEF ContentsGood
  <2>6. f.mi # Nil /\ f.typ # "map" /\ of # {} => Good(buf, f.mi, of)
    <3>1. f.mi # Nil /\ f.typ # "map" => \A o \in of : Good(buf, f.mi, {o})
      BY <2>4, Zenon DEF ContentsGood
    <3> QED
      BY <2>2, <3>1, GoodEach
  <2> QED
    BY <2>1, <2>3, <2>5, <2>6, Zenon DEF GoodField
<1>5. Good(buf, mt, S)
  BY <1>3, <1>4, GoodIf
<1> QED
  BY <1>2, <1>5

LEMMA EntryGood ==
  ASSUME NEW buf \in Seq(Token), NEW x, FrameOK(buf, x), x.typ = "map",
         NEW cur, SoundTo(buf, x, cur), Last(buf, x, cur), Required(x.mi) = {} \/ Seen(buf, x, 2)
  PROVE  Good(buf, x.mi, Occurrences(buf, {x.slice}, 2, "message"))
<1>1. x.slice \in Slices(buf) /\ x.mi \in DOMAIN Schema
  BY FrameSlice
<1>2. PICK f, of : f = FieldIn(x, 2) /\ of = Occurrences(buf, {x.slice}, 2, "message")
  OBVIOUS
<1>3. f.typ = "message" /\ f.mi = x.mi /\ f.mi # Nil
  BY <1>1, <1>2, EntryFieldType, ValidateAssumption DEF FieldIn
<1>4. {x.slice} \in SUBSET Slices(buf)
  BY <1>1
<1>5. of \in SUBSET Slices(buf)
  BY <1>2, <1>4, OccurrencesType
<1>6. \A o \in of : Good(buf, x.mi, {o})
  <2>1. \A o \in of : ContentsGood(buf, f.typ, f.mi, o)
    BY <1>2, <1>3, SoundOccurrences
  <2> QED
    BY <1>3, <2>1 DEF ContentsGood
<1>7. CASE of # {}
  BY <1>1, <1>2, <1>5, <1>6, <1>7, GoodEach
<1>8. CASE of = {}
  <2>1. ~Seen(buf, x, 2)
    <3>1. SUFFICES ASSUME Seen(buf, x, 2) PROVE of # {}
      BY <1>8
    <3>2. PICK p \in Records(buf, x.slice) : OfField(buf, p, 2, "message")
      BY <1>2, <1>3, <3>1 DEF Seen
    <3>3. Inside(buf, p, x.slice[2]) \in of
      BY <1>2, <3>2, OccurrencesIs
    <3> QED
      BY <3>3
  <2>2. ASSUME NEW num \in DOMAIN Schema[x.mi]
        PROVE  GoodField(buf, x.mi, {}, num)
    <3>1. ~Schema[x.mi][num].required
      BY <2>1 DEF Required
    <3>2. Occurrences(buf, {}, num, Schema[x.mi][num].typ) = {}
      BY NoOccurrences
    <3> QED
      BY <3>1, <3>2, Zenon DEF GoodField
  <2>3. {} \in SUBSET Slices(buf)
    OBVIOUS
  <2> QED
    BY <1>1, <1>2, <1>8, <2>2, <2>3, GoodIf
<1> QED
  BY <1>2, <1>7, <1>8

-----------------------------------------------------------------------------
(* Where validate is in a slice, and what it has found sound there. *)

LEMMA FieldWithType ==
  ASSUME NEW x \in validationState, NEW num \in Nat, FieldIn(x, num).mi # Nil
  PROVE  FieldIn(x, num).typ \in {"message", "group", "map"}
<1>1. x.mi \in DOMAIN Schema
  BY DEF validationState
<1>2. PICK f : f = FieldIn(x, num)
  OBVIOUS
<1>3. NoField.mi = Nil /\ Optional("text", Nil).mi = Nil /\ Optional("message", x.mi).typ = "message"
  BY DEF NoField, Optional
<1>4. CASE x.typ = "map"
  BY <1>3, <1>4 DEF FieldIn, EntryField
<1>5. CASE x.typ # "map"
  <2>1. f = FieldOf(x.mi, num)
    BY <1>2, <1>5 DEF FieldIn
  <2>2. num \in DOMAIN Schema[x.mi] /\ f = Schema[x.mi][num]
    BY <1>2, <1>3, <2>1 DEF FieldOf
  <2> QED
    BY <1>1, <1>2, <2>2, SchemaAssumption
<1> QED
  BY <1>4, <1>5

(* Going through the slice of x has come to cur, also when it is a group    *)
(* that is consumed.                                                        *)
Track(buf, x, cur) ==
  /\ At(buf, x.slice, cur)
  /\ \A n \in Nat \ {0} : n > Len(buf) - x.slice[1] =>
        GroupRun(buf, x.endGroup, x.slice[2], x.slice[1], cur, n)

(* From the record at cur to the one at m. *)
Moves(buf, x, cur, m) ==
  /\ cur < x.slice[2] /\ buf[cur + 1].wtyp # "end" /\ m \in Nat /\ m > cur /\ m <= Len(buf)
  /\ \A n \in Nat \ {0} : n > Len(buf) - (cur + 1) => ConsumesTo(buf, buf[cur + 1], cur + 1, x.slice[2], n, m)

LEMMA TrackFacts ==
  ASSUME NEW buf \in Seq(Token), NEW x, FrameOK(buf, x), NEW cur, Track(buf, x, cur)
  PROVE  /\ x.slice \in Slices(buf) /\ At(buf, x.slice, cur) /\ cur \in 0 .. Len(buf) /\ x.slice[1] <= cur
         /\ x.slice[1] \in 0 .. Len(buf) /\ x.slice[2] \in 0 .. Len(buf) /\ x.endGroup \in Nat
         /\ cur < x.slice[2] => cur \in Records(buf, x.slice)
<1>1. x.slice \in Slices(buf) /\ At(buf, x.slice, cur)
  BY FrameSlice DEF Track
<1>2. Reaches(buf, x.slice, cur) /\ cur \in 0 .. Len(buf) /\ x.slice[1] <= cur
  BY <1>1, AtReaches
<1>3. cur < x.slice[2] => cur \in Records(buf, x.slice)
  BY <1>1, <1>2, RecordsIs
<1>4. x.slice[1] \in 0 .. Len(buf) /\ x.slice[2] \in 0 .. Len(buf) /\ x.endGroup \in Nat
  BY DEF FrameOK, validationState
<1> QED
  BY <1>1, <1>2, <1>3, <1>4

LEMMA TrackFirst ==
  ASSUME NEW buf \in Seq(Token), NEW x, FrameOK(buf, x)
  PROVE  Track(buf, x, x.slice[1])
<1>1. At(buf, x.slice, x.slice[1])
  BY FrameSlice, AtFirst
<1>2. ASSUME NEW n \in Nat \ {0}
      PROVE  GroupRun(buf, x.endGroup, x.slice[2], x.slice[1], x.slice[1], n)
  <2>1. GroupArgs(buf, x.endGroup, x.slice[2], x.slice[1], n)
    BY DEF GroupArgs, FrameOK, validationState
  <2> QED
    BY <2>1, GroupStart
<1> QED
  BY <1>1, <1>2 DEF Track

LEMMA MovesJump ==
  ASSUME NEW buf \in Seq(Token), NEW x, FrameOK(buf, x), NEW cur \in 0 .. Len(buf), NEW m, Moves(buf, x, cur, m)
  PROVE  Jump(buf, x.slice[2])[cur] = m /\ m > cur
<1>1. x.slice[2] \in 0 .. Len(buf) /\ Len(buf) \in Nat
  BY DEF FrameOK
<1>2. Len(buf) + 1 \in Nat \ {0} /\ Len(buf) + 1 > Len(buf) - (cur + 1)
  BY <1>1
<1>3. cur < x.slice[2] /\ m > cur
  BY DEF Moves
<1>4. ConsumesTo(buf, buf[cur + 1], cur + 1, x.slice[2], Len(buf) + 1, m)
  BY <1>2, Zenon DEF Moves
<1>5. JumpIs(buf, x.slice[2], cur)
  BY <1>1, JumpFacts
<1>6. Jump(buf, x.slice[2])[cur] = IF m > cur THEN m ELSE cur
  BY <1>3, <1>4, <1>5, Zenon DEF JumpIs
<1> QED
  BY <1>3, <1>6

LEMMA TrackOn ==
  ASSUME NEW buf \in Seq(Token), NEW x, FrameOK(buf, x), NEW cur, Track(buf, x, cur), NEW m, Moves(buf, x, cur, m)
  PROVE  Track(buf, x, m)
<1>1. /\ x.slice \in Slices(buf) /\ At(buf, x.slice, cur) /\ cur \in 0 .. Len(buf) /\ x.slice[1] <= cur
      /\ x.slice[1] \in 0 .. Len(buf) /\ x.slice[2] \in 0 .. Len(buf) /\ x.endGroup \in Nat
  BY TrackFacts
<1>2. At(buf, x.slice, m)
  BY <1>1, MovesJump, AtNext
<1>3. ASSUME NEW n \in Nat \ {0}, n > Len(buf) - x.slice[1]
      PROVE  GroupRun(buf, x.endGroup, x.slice[2], x.slice[1], m, n)
  <2>1. GroupArgs(buf, x.endGroup, x.slice[2], x.slice[1], n)
    BY <1>1 DEF GroupArgs
  <2>2. GroupRun(buf, x.endGroup, x.slice[2], x.slice[1], cur, n)
    BY <1>3 DEF Track
  <2>3. cur < x.slice[2] /\ buf[cur + 1].wtyp # "end" /\ m > cur /\ m <= Len(buf) /\ m \in Nat
    BY Zenon DEF Moves
  <2>4. n - 1 \in Nat \ {0} /\ n - 1 > Len(buf) - (cur + 1)
    <3>1. PICK p, q, len : p = x.slice[1] /\ q = x.slice[2] /\ len = Len(buf)
      OBVIOUS
    <3>2. len \in Nat /\ p \in 0 .. len /\ q \in 0 .. len /\ cur \in 0 .. len /\ p <= cur /\ cur < q /\ n > len - p
      BY <1>1, <1>3, <2>3, <3>1
    <3>3. n - 1 \in Nat \ {0} /\ n - 1 > len - (cur + 1)
      BY <3>2
    <3> QED
      BY <3>1, <3>3
  <2>5. ConsumesTo(buf, buf[cur + 1], cur + 1, x.slice[2], n - 1, m)
    BY <2>4, Zenon DEF Moves
  <2>6. m = ConsumeFieldValue(buf[cur + 1], cur + 1, x.slice[2], ConsumeGroup(buf)[n - 1])
    BY <2>5, Zenon DEF ConsumesTo
  <2> QED
    BY <1>1, <2>1, <2>2, <2>3, <2>6, GroupOn
<1> QED
  BY <1>2, <1>3 DEF Track

(* The records before the one at m. *)
LEMMA RecordBefore ==
  ASSUME NEW buf \in Seq(Token), NEW x, FrameOK(buf, x), NEW cur, Track(buf, x, cur), NEW m, Moves(buf, x, cur, m),
         NEW p \in Records(buf, x.slice)
  PROVE  p < m <=> p < cur \/ p = cur
<1>1. x.slice \in Slices(buf) /\ At(buf, x.slice, cur) /\ cur \in 0 .. Len(buf)
  BY TrackFacts
<1>2. m = Jump(buf, x.slice[2])[cur] /\ m > cur /\ m \in Nat
  BY <1>1, MovesJump DEF Moves
<1>4. Reaches(buf, x.slice, p) /\ p \in 0 .. Len(buf)
  BY <1>1, RecordsIs
<1>5. p <= cur \/ (m # cur /\ p >= m)
  BY <1>1, <1>2, <1>4, AtOrder
<1> QED
  BY <1>1, <1>2, <1>4, <1>5

LEMMA SoundOn ==
  ASSUME NEW buf \in Seq(Token), NEW x, FrameOK(buf, x), NEW cur, Track(buf, x, cur), NEW m, Moves(buf, x, cur, m),
         SoundTo(buf, x, cur), Sound(buf, x, cur)
  PROVE  SoundTo(buf, x, m)
<1>1. ASSUME NEW p \in Records(buf, x.slice), p < m
      PROVE  p < cur \/ p = cur
  BY <1>1, RecordBefore
<1> QED
  BY <1>1 DEF SoundTo

LEMMA FirstRecord ==
  ASSUME NEW buf \in Seq(Token), NEW x, FrameOK(buf, x), NEW p \in Records(buf, x.slice)
  PROVE  ~(p < x.slice[1])
<1>1. x.slice \in Slices(buf)
  BY FrameSlice
<1>2. SUFFICES ASSUME p < x.slice[1]
               PROVE  FALSE
  OBVIOUS
<1>3. Reaches(buf, x.slice, p) /\ At(buf, x.slice, x.slice[1]) /\ p \in 0 .. Len(buf)
  BY <1>1, RecordsIs, AtFirst
<1>4. PICK i \in 0 .. Len(buf) : Visits(buf, x.slice)[i] = p
  BY <1>3 DEF Reaches
<1>5. Follows(Visits(buf, x.slice), 0 .. Len(buf), x.slice[1], Jump(buf, x.slice[2]))
  BY <1>1, VisitsType
<1>6. Visits(buf, x.slice)[0] = x.slice[1]
  BY <1>5 DEF Follows
<1>7. i \in Nat /\ 0 \in Nat /\ 0 <= i
  OBVIOUS
<1>8. x.slice[1] <= p
  BY <1>1, <1>4, <1>6, <1>7, VisitsGrow
<1>9. x.slice[1] \in Nat /\ p \in Nat
  BY <1>3 DEF FrameOK
<1> QED
  BY <1>2, <1>8, <1>9

LEMMA SoundFirst ==
  ASSUME NEW buf \in Seq(Token), NEW x, FrameOK(buf, x)
  PROVE  SoundTo(buf, x, x.slice[1])
BY FirstRecord DEF SoundTo

(* The end of the slice, or an end group tag. *)
LEMMA LastAt ==
  ASSUME NEW buf \in Seq(Token), NEW x, FrameOK(buf, x), NEW cur, Track(buf, x, cur),
         cur = x.slice[2] \/ (cur < x.slice[2] /\ buf[cur + 1].wtyp = "end")
  PROVE  Last(buf, x, cur)
<1>1. /\ x.slice \in Slices(buf) /\ At(buf, x.slice, cur) /\ cur \in 0 .. Len(buf) /\ x.slice[2] \in 0 .. Len(buf)
  BY TrackFacts
<1>2. SUFFICES ASSUME NEW p \in Records(buf, x.slice)
               PROVE  p < cur \/ buf[p + 1].wtyp = "end"
  BY DEF Last
<1>3. Reaches(buf, x.slice, p) /\ p < x.slice[2] /\ p \in 0 .. Len(buf)
  BY <1>1, RecordsIs
<1>4. CASE cur = x.slice[2]
  BY <1>3, <1>4
<1>5. CASE cur < x.slice[2] /\ buf[cur + 1].wtyp = "end"
  <2>1. JumpIs(buf, x.slice[2], cur)
    BY <1>1, JumpFacts
  <2>2. ConsumesTo(buf, buf[cur + 1], cur + 1, x.slice[2], Len(buf) + 1, -1)
    BY <1>5 DEF ConsumesTo, ConsumeFieldValue
  <2>3. Jump(buf, x.slice[2])[cur] = IF -1 > cur THEN -1 ELSE cur
    BY <1>5, <2>1, <2>2, Zenon DEF JumpIs
  <2>4. Jump(buf, x.slice[2])[cur] = cur
    BY <1>1, <2>3
  <2>5. p <= cur
    BY <1>1, <1>3, <2>4, AtOrder
  <2>6. p < cur \/ p = cur
    BY <1>1, <1>3, <2>5
  <2> QED
    BY <1>5, <2>6
<1> QED
  BY <1>4, <1>5

-----------------------------------------------------------------------------
(* The records that validate moves over. *)

LEMMA MovesPassed ==
  ASSUME NEW buf \in Seq(Token), NEW x, FrameOK(buf, x), NEW cur \in 0 .. Len(buf), cur < x.slice[2],
         NEW tok, tok = buf[cur + 1], Passes(x, tok), NEW m, m = cur + 1 + Width(tok), m <= x.slice[2]
  PROVE  Moves(buf, x, cur, m) /\ Sound(buf, x, cur)
<1>1. x.slice[2] \in 0 .. Len(buf) /\ x \in validationState /\ Len(buf) \in Nat
  BY DEF FrameOK
<1>2. cur + 1 \in 1 .. Len(buf)
  BY <1>1
<1>3. tok \in Token
  BY <1>2
<1>4. tok.size \in Nat /\ tok.num \in Nat /\ tok.wtyp \in {"varint", "bytes"}
  BY <1>3 DEF Token, Passes
<1>5. Width(tok) \in Nat
  BY <1>4 DEF Width
<1>6. m \in Nat /\ m > cur /\ m <= Len(buf)
  BY <1>1, <1>5
<1>7. ASSUME NEW n
      PROVE  ConsumesTo(buf, tok, cur + 1, x.slice[2], n, m)
  <2>1. CASE tok.wtyp = "varint"
    <3>1. m = cur + 1
      BY <2>1 DEF Width
    <3> QED
      BY <2>1, <3>1 DEF ConsumesTo, ConsumeFieldValue
  <2>2. CASE tok.wtyp = "bytes"
    <3>1. m = (cur + 1) + tok.size
      BY <2>2 DEF Width
    <3>2. ~((cur + 1) + tok.size > x.slice[2])
      BY <1>1, <1>6, <3>1
    <3> QED
      BY <2>2, <3>1, <3>2 DEF ConsumesTo, ConsumeFieldValue
  <2> QED
    BY <1>4, <2>1, <2>2
<1>8. Moves(buf, x, cur, m)
  BY <1>4, <1>6, <1>7 DEF Moves
<1>9. Sound(buf, x, cur)
  <2>1. PICK f : f = FieldIn(x, tok.num)
    OBVIOUS
  <2>2. f.mi # Nil => f.typ \in {"message", "group", "map"}
    BY <1>1, <1>4, <2>1, FieldWithType
  <2>3. f.mi # Nil => tok.wtyp \notin Expects(f.typ)
    BY <1>4, <2>1, <2>2 DEF Passes, Expects
  <2> QED
    BY <2>1, <2>3, Zenon DEF Sound
<1> QED
  BY <1>8, <1>9

(* A group that is skipped. *)
LEMMA MovesSkipped ==
  ASSUME NEW buf \in Seq(Token), NEW x, FrameOK(buf, x), NEW cur \in 0 .. Len(buf), cur < x.slice[2],
         NEW tok, tok = buf[cur + 1], tok.wtyp = "start", tok.wtyp \notin Expects(FieldIn(x, tok.num).typ),
         NEW m \in Nat, m > cur, m <= Len(buf),
         \A n \in Nat \ {0} : n > Len(buf) - (cur + 1) =>
            GroupGives(buf, tok.num, x.slice[2], cur + 1, n, Done(m, TRUE))
  PROVE  Moves(buf, x, cur, m) /\ Sound(buf, x, cur)
<1>1. PICK d : d = Done(m, TRUE)
  OBVIOUS
<1>2. d.err = "none" /\ d.n = m
  BY <1>1 DEF Done
<1>3. ASSUME NEW n \in Nat \ {0}, n > Len(buf) - (cur + 1)
      PROVE  ConsumesTo(buf, tok, cur + 1, x.slice[2], n, m)
  <2>1. GroupGives(buf, tok.num, x.slice[2], cur + 1, n, d)
    BY <1>1, <1>3
  <2> QED
    BY <1>2, <2>1, ConsumeStart
<1>4. tok.wtyp # "end"
  OBVIOUS
<1>5. Moves(buf, x, cur, m)
  BY <1>3, <1>4 DEF Moves
<1>6. Sound(buf, x, cur)
  BY Zenon DEF Sound
<1> QED
  BY <1>5, <1>6

(* The field that a state of the stack stands for is the record at cur of   *)
(* the state below.                                                         *)
LEMMA ChildSlice ==
  ASSUME NEW buf \in Seq(Token), NEW x, FrameOK(buf, x), NEW cur \in 0 .. Len(buf), cur < x.slice[2],
         NEW tok, tok = buf[cur + 1], NEW y, FrameOK(buf, y), ChildOf(x, y, tok, cur + 1)
  PROVE  /\ y.slice = Inside(buf, cur, x.slice[2]) /\ y.slice[1] = cur + 1 /\ tok.size \in Nat /\ tok.num \in Nat \ {0}
         /\ y.typ = "group" => tok.wtyp = "start" /\ y.slice[2] = x.slice[2] /\ y.endGroup = tok.num
         /\ y.typ # "group" => tok.wtyp = "bytes" /\ y.slice[2] = cur + 1 + tok.size /\ y.slice[2] <= x.slice[2]
         /\ y.typ \in {"message", "group", "map"} /\ tok.wtyp \in Expects(y.typ)
<1>1. x.slice[2] \in 0 .. Len(buf) /\ Len(buf) \in Nat /\ y \in validationState
  BY DEF FrameOK
<1>2. cur + 1 \in 1 .. Len(buf)
  BY <1>1
<1>3. tok \in Token
  BY <1>2
<1>4. tok.size \in Nat /\ tok.num \in Nat \ {0}
  BY <1>3 DEF Token
<1>5. y.typ \in {"message", "group", "map"} /\ tok.wtyp \in Expects(y.typ) /\ y.slice \in Nat \X Nat
  BY <1>1 DEF ChildOf, validationState
<1>6. y.slice[1] = cur + 1
  BY DEF ChildOf
<1>7. y.typ = "group" => tok.wtyp = "start" /\ y.slice[2] = x.slice[2] /\ y.endGroup = tok.num
  BY <1>5 DEF ChildOf, Expects
<1>8. y.typ # "group" => tok.wtyp = "bytes" /\ y.slice[2] = cur + 1 + tok.size /\ y.slice[2] <= x.slice[2]
  BY <1>5 DEF ChildOf, Expects
<1>9. y.slice = <<y.slice[1], y.slice[2]>>
  BY <1>5
<1>10. y.slice = Inside(buf, cur, x.slice[2])
  <2>1. PICK stop : stop = cur + 1 + tok.size
    OBVIOUS
  <2>2. Inside(buf, cur, x.slice[2]) =
          <<cur + 1, IF tok.wtyp = "bytes" /\ stop <= x.slice[2] THEN stop ELSE x.slice[2]>>
    BY <2>1, Zenon DEF Inside
  <2>3. y.slice[2] = IF tok.wtyp = "bytes" /\ stop <= x.slice[2] THEN stop ELSE x.slice[2]
    BY <1>7, <1>8, <2>1
  <2> QED
    BY <1>6, <1>9, <2>2, <2>3
<1> QED
  BY <1>4, <1>5, <1>6, <1>7, <1>8, <1>10

LEMMA MovesChild ==
  ASSUME NEW buf \in Seq(Token), NEW x, FrameOK(buf, x), NEW cur \in 0 .. Len(buf), cur < x.slice[2],
         NEW tok, tok = buf[cur + 1], NEW y, FrameOK(buf, y), ChildOf(x, y, tok, cur + 1),
         NEW c, Track(buf, y, c), NEW m \in Nat,
         \/ y.typ # "group" /\ m = y.slice[2]
         \/ y.typ = "group" /\ c < y.slice[2] /\ m = c + 1 /\ buf[c + 1].wtyp = "end" /\ buf[c + 1].num = y.endGroup
  PROVE  Moves(buf, x, cur, m)
<1>1. /\ y.slice[1] = cur + 1 /\ tok.size \in Nat /\ tok.num \in Nat \ {0}
      /\ y.typ = "group" => tok.wtyp = "start" /\ y.slice[2] = x.slice[2] /\ y.endGroup = tok.num
      /\ y.typ # "group" => tok.wtyp = "bytes" /\ y.slice[2] = cur + 1 + tok.size /\ y.slice[2] <= x.slice[2]
  BY ChildSlice
<1>2. /\ c \in 0 .. Len(buf) /\ y.slice[1] <= c /\ y.slice[1] \in 0 .. Len(buf) /\ y.slice[2] \in 0 .. Len(buf)
      /\ y.endGroup \in Nat
  BY TrackFacts
<1>3. Len(buf) \in Nat /\ x.slice[2] \in 0 .. Len(buf)
  BY DEF FrameOK
<1>4. CASE y.typ # "group"
  <2>1. tok.wtyp = "bytes" /\ m = (cur + 1) + tok.size /\ m <= x.slice[2] /\ tok.wtyp # "end"
    BY <1>1, <1>4
  <2>2. ~((cur + 1) + tok.size > x.slice[2])
    BY <1>3, <2>1
  <2>3. ASSUME NEW n PROVE ConsumesTo(buf, tok, cur + 1, x.slice[2], n, m)
    BY <2>1, <2>2 DEF ConsumesTo, ConsumeFieldValue
  <2>4. m > cur /\ m <= Len(buf)
    BY <1>1, <1>3, <2>1
  <2> QED
    BY <2>1, <2>3, <2>4 DEF Moves
<1>5. CASE y.typ = "group"
  <2>1. /\ tok.wtyp = "start" /\ y.slice[2] = x.slice[2] /\ y.endGroup = tok.num /\ tok.wtyp # "end"
        /\ c < y.slice[2] /\ m = c + 1 /\ buf[c + 1].wtyp = "end" /\ buf[c + 1].num = y.endGroup
    BY <1>1, <1>5
  <2>2. m > cur /\ m <= Len(buf)
    BY <1>1, <1>2, <1>3, <2>1
  <2>3. ASSUME NEW n \in Nat \ {0}, n > Len(buf) - (cur + 1)
        PROVE  ConsumesTo(buf, tok, cur + 1, x.slice[2], n, m)
    <3>1. GroupRun(buf, y.endGroup, y.slice[2], y.slice[1], c, n)
      BY <1>1, <2>3 DEF Track
    <3>2. GroupArgs(buf, y.endGroup, y.slice[2], y.slice[1], n)
      BY <1>2 DEF GroupArgs
    <3>3. PICK num, end, start : num = y.endGroup /\ end = y.slice[2] /\ start = y.slice[1]
      OBVIOUS
    <3>4. GroupGives(buf, num, end, start, n, Done(c + 1, TRUE))
      BY <1>2, <2>1, <3>1, <3>2, <3>3, GroupEnds
    <3>5. PICK d : d = Done(c + 1, TRUE)
      OBVIOUS
    <3>6. d.err = "none" /\ d.n = m
      BY <2>1, <3>5 DEF Done
    <3>7. GroupGives(buf, tok.num, end, start, n, d)
      BY <2>1, <3>3, <3>4, <3>5
    <3>8. ConsumesTo(buf, tok, start, end, n, m)
      BY <2>1, <3>6, <3>7, ConsumeStart
    <3> QED
      BY <1>1, <2>1, <3>3, <3>8
  <2> QED
    BY <2>1, <2>2, <2>3 DEF Moves
<1> QED
  BY <1>4, <1>5

LEMMA SoundChild ==
  ASSUME NEW buf \in Seq(Token), NEW x, FrameOK(buf, x), NEW cur \in 0 .. Len(buf), cur < x.slice[2],
         NEW tok, tok = buf[cur + 1], NEW y, FrameOK(buf, y), ChildOf(x, y, tok, cur + 1),
         ContentsGood(buf, y.typ, y.mi, y.slice)
  PROVE  Sound(buf, x, cur)
<1>1. y.slice = Inside(buf, cur, x.slice[2])
  BY ChildSlice
<1>2. y.typ = FieldIn(x, tok.num).typ /\ y.mi = FieldIn(x, tok.num).mi
  BY DEF ChildOf
<1> QED
  BY <1>1, <1>2, Zenon DEF Sound

(* The required fields of a state of the stack: of a map entry its value,   *)
(* if the value's type has required fields itself.                          *)
Needs(x) == IF x.typ # "map" THEN numRequiredFields(x.mi)
            ELSE IF numRequiredFields(x.mi) > 0 THEN 1 ELSE 0

LEMMA FrameGood ==
  ASSUME NEW buf \in Seq(Token), NEW x, FrameOK(buf, x), NEW cur, SoundTo(buf, x, cur), Last(buf, x, cur),
         NEW mask, MaskOK(buf, x, mask), AllSeen(mask, Needs(x))
  PROVE  ContentsGood(buf, x.typ, x.mi, x.slice)
<1>1. x \in validationState /\ x.mi \in DOMAIN Schema
  BY DEF FrameOK, validationState
<1>2. CASE x.typ # "map"
  <2>1. AllSeen(mask, numRequiredFields(x.mi))
    BY <1>2 DEF Needs
  <2>2. \A num \in Required(x.mi) : Seen(buf, x, num)
    BY <1>1, <1>2, <2>1, MaskFull
  <2>3. Good(buf, x.mi, {x.slice})
    BY <1>2, <2>2, MessageGood
  <2> QED
    BY <1>2, <2>3 DEF ContentsGood
<1>3. CASE x.typ = "map"
  <2>1. Required(x.mi) = {} \/ Seen(buf, x, 2)
    <3>1. SUFFICES ASSUME Required(x.mi) # {} PROVE Seen(buf, x, 2)
      OBVIOUS
    <3>2. IsFiniteSet(Required(x.mi))
      BY <1>1, RequiredFinite
    <3>3. Cardinality(Required(x.mi)) \in Nat /\ Cardinality(Required(x.mi)) # 0
      BY <3>1, <3>2, FS_CardinalityType, FS_EmptySet
    <3>4. Needs(x) = 1
      BY <1>3, <3>3 DEF Needs, numRequiredFields
    <3>5. Cardinality(mask) = 1
      BY <3>4 DEF AllSeen
    <3>6. mask # {}
      <4>1. Cardinality({}) = 0
        BY FS_EmptySet
      <4> QED
        BY <3>5, <4>1
    <3> QED
      BY <1>3, <3>6, Zenon DEF MaskOK
  <2>2. Good(buf, x.mi, Occurrences(buf, {x.slice}, 2, "message"))
    BY <1>3, <2>1, EntryGood
  <2> QED
    BY <1>3, <2>2 DEF ContentsGood
<1> QED
  BY <1>2, <1>3

-----------------------------------------------------------------------------
(* What the steps of validate do to the masks and to the flags. *)

(* The top of the stack gets the bits of a record, or stays as it is.       *)
Marks(tok) ==
  /\ Len(states') >= Len(states) /\ initialized' = initialized
  /\ \A j \in 1 .. Len(states) : j < Len(states) => states'[j] = states[j]
  /\ \/ states'[Len(states)].requiredMask = st.requiredMask
     \/ skip = <<>> /\ states'[Len(states)].requiredMask = st.requiredMask \cup Bit(tok)
  /\ Len(states') > Len(states) => states'[Len(states)].requiredMask = st.requiredMask \cup Bit(tok)
  /\ unreported' = (unreported \/ (Len(states') > Len(states) /\ Unreported(tok)))

Judges ==
  /\ Len(states') < Len(states) /\ unreported' = unreported
  /\ initialized' = (initialized /\ AllSeen(st.requiredMask, NumRequired))

Marking(tok) == Marks(tok) \/ Judges

LEMMA ReturnMarks ==
  ASSUME TypeOK, states # <<>>, NEW tok, NEW status, Return(status)
  PROVE  Marks(tok)
<1>1. states' = states /\ initialized' = initialized /\ unreported' = unreported
  BY DEF Return
<1>2. Len(states) \in Nat /\ unreported \in BOOLEAN
  BY DEF TypeOK
<1>3. Len(states') >= Len(states) /\ ~(Len(states') > Len(states))
  BY <1>1, <1>2
<1>4. unreported' = (unreported \/ (Len(states') > Len(states) /\ Unreported(tok)))
  BY <1>1, <1>2, <1>3, Zenon
<1>5. states'[Len(states)].requiredMask = st.requiredMask
  BY <1>1 DEF st
<1> QED
  BY <1>1, <1>3, <1>4, <1>5, Zenon DEF Marks

LEMMA MarkedMarks ==
  ASSUME TypeOK, states # <<>>, NEW tok, tok.num \in Nat, states' = Marked(tok), skip = <<>>,
         initialized' = initialized, unreported' = unreported
  PROVE  Marks(tok)
<1>1. /\ Len(Marked(tok)) = Len(states)
      /\ \A j \in 1 .. Len(states) : j < Len(states) => Marked(tok)[j] = states[j]
      /\ Marked(tok)[Len(states)].requiredMask = st.requiredMask \cup Bit(tok)
  BY MarkedFacts
<1>2. Len(states) \in Nat /\ unreported \in BOOLEAN
  BY DEF TypeOK
<1>3. Len(states') >= Len(states) /\ ~(Len(states') > Len(states))
  BY <1>1, <1>2
<1>4. unreported' = (unreported \/ (Len(states') > Len(states) /\ Unreported(tok)))
  BY <1>2, <1>3, Zenon
<1> QED
  BY <1>1, <1>3, <1>4, Zenon DEF Marks

LEMMA PushMarks ==
  ASSUME TypeOK, states # <<>>, skip = <<>>, NEW tok, tok.num \in Nat \ {0}, NEW endGroup \in Nat, NEW tail \in Nat,
         NEW size \in Nat, vi(tok.num).typ \in {"message", "group", "map"}, vi(tok.num).mi # Nil,
         Push(tok, endGroup, tail, size)
  PROVE  Marks(tok)
<1>1. PICK y : y = Child(tok, endGroup, tail, size)
  OBVIOUS
<1>2. Pushes(tok, y, size)
  BY <1>1, PushFacts
<1>3. ChildIs(y, tok, endGroup, tail, size)
  BY <1>1, ChildFacts
<1>4. states' = Append(Marked(tok), y) /\ y \in validationState /\ initialized' = initialized
      /\ unreported' = (unreported \/ Unreported(tok))
  BY <1>2, <1>3, Zenon DEF Pushes, ChildIs
<1>5. /\ Marked(tok) \in Seq(validationState) /\ Len(Marked(tok)) = Len(states)
      /\ \A j \in 1 .. Len(states) : j < Len(states) => Marked(tok)[j] = states[j]
      /\ Marked(tok)[Len(states)].requiredMask = st.requiredMask \cup Bit(tok)
  BY MarkedFacts
<1>6. Len(states) \in Nat \ {0}
  BY DEF TypeOK
<1>7. /\ Len(states') = Len(states) + 1 /\ \A j \in 1 .. Len(states) : states'[j] = Marked(tok)[j]
  BY <1>4, <1>5
<1>8. Len(states') >= Len(states) /\ Len(states') > Len(states) /\ Len(states) \in 1 .. Len(states)
  BY <1>6, <1>7
<1>9. unreported' = (unreported \/ (Len(states') > Len(states) /\ Unreported(tok)))
  BY <1>4, <1>8, Zenon
<1>10. states'[Len(states)].requiredMask = st.requiredMask \cup Bit(tok)
  BY <1>5, <1>7, <1>8, Zenon
<1>11. \A j \in 1 .. Len(states) : j < Len(states) => states'[j] = states[j]
  BY <1>5, <1>7, Zenon
<1> QED
  BY <1>4, <1>8, <1>9, <1>10, <1>11, Zenon DEF Marks

LEMMA PopJudges ==
  ASSUME TypeOK, states # <<>>, NEW rest, PopState(rest)
  PROVE  Judges
<1>1. Len(states) \in Nat
  BY DEF TypeOK
<1>2. Len(states') = Len(states) - 1 /\ unreported' = unreported
  BY PopFacts
<1>3. initialized' = (initialized /\ AllSeen(st.requiredMask, NumRequired))
  BY PopFacts
<1>4. Len(states') < Len(states)
  BY <1>1, <1>2
<1> QED
  BY <1>2, <1>3, <1>4, Zenon DEF Judges

(* Every step does what its kind says, to the masks as well. *)
LEMMA StepMarks ==
  ASSUME TypeOK, Layout, Next
  PROVE  \E tok, n, y : Kinds(tok, n, y) /\ Marking(tok)
<1>1. result = "run"
  BY DEF Next, EndOfSlice, EndGroup, Undecided, Malformed, Enter, EnterGroup, PassOver, SkipField, Field, Read
<1>2. states # <<>>
  BY <1>1, Running
<1>3. CASE EndOfSlice
  <2>1. ASSUME NEW tok PROVE Marking(tok)
    BY <1>2, <1>3, PopJudges, ReturnMarks DEF EndOfSlice, Marking
  <2> QED
    BY <1>3, <2>1, KindEnd DEF Kinds
<1>4. ASSUME NEW tok \in Tokens, EndGroup(tok) \/ Undecided(tok) \/ Malformed(tok)
      PROVE  \E y, n : Kinds(tok, n, y) /\ Marking(tok)
  <2>1. Marking(tok)
    BY <1>2, <1>4, PopJudges, ReturnMarks DEF EndGroup, Undecided, Malformed, Marking
  <2> QED
    BY <1>4, <2>1, KindTag DEF Kinds
<1>5. ASSUME NEW tok \in Tokens, Enter(tok) \/ EnterGroup(tok)
      PROVE  \E y, n : Kinds(tok, n, y) /\ Marking(tok)
  <2>1. Read(tok, <<>>) /\ skip = <<>> /\ vi(tok.num).mi # Nil /\ vi(tok.num).typ \in {"message", "group", "map"}
    BY <1>5 DEF Enter, EnterGroup, Field
  <2>2. tok.num \in Nat \ {0} /\ tok.size \in Nat /\ b > 0
    BY <2>1, ReadFacts DEF Contained
  <2>3. b \in Nat
    BY DEF TypeOK
  <2>4. CASE Enter(tok)
    <3>1. tok.size < b /\ Push(tok, 0, b - 1 - tok.size, tok.size)
      BY <2>4 DEF Enter
    <3>2. b - 1 - tok.size \in Nat
      BY <2>2, <2>3, <3>1
    <3>3. Marks(tok)
      BY <1>2, <2>1, <2>2, <3>1, <3>2, PushMarks
    <3> QED
      BY <1>5, <3>3, KindEnter DEF Kinds, Marking
  <2>5. CASE EnterGroup(tok)
    <3>1. Push(tok, tok.num, 0, b - 1)
      BY <2>5 DEF EnterGroup
    <3>2. b - 1 \in Nat /\ tok.num \in Nat
      BY <2>2, <2>3
    <3>3. Marks(tok)
      BY <1>2, <2>1, <2>2, <3>1, <3>2, PushMarks
    <3> QED
      BY <1>5, <3>3, KindEnter DEF Kinds, Marking
  <2> QED
    BY <1>5, <2>4, <2>5
<1>6. ASSUME NEW tok \in Tokens, NEW c \in Contents(tok.size) \cup {<<>>}, PassOver(tok, c)
      PROVE  \E y, n : Kinds(tok, n, y) /\ Marking(tok)
  <2>1. Read(tok, c) /\ skip = <<>> /\ states' = Marked(tok) /\ initialized' = initialized /\ unreported' = unreported
    BY <1>6 DEF PassOver, Field
  <2>2. tok.num \in Nat
    BY <2>1, ReadFacts DEF Contained
  <2>3. Marking(tok)
    BY <1>2, <2>1, <2>2, MarkedMarks DEF Marking
  <2> QED
    BY <1>6, <2>3, KindPass DEF Kinds, Contained
<1>7. ASSUME NEW tok \in Tokens, NEW c \in Contents(tok.size) \cup {<<>>}, SkipField(tok, c)
      PROVE  \E y, n : Kinds(tok, n, y) /\ Marking(tok)
  <2>1. states' = states /\ initialized' = initialized /\ unreported' = unreported
    BY <1>7 DEF SkipField, Return
  <2>2. Len(states) \in Nat /\ unreported \in BOOLEAN
    BY DEF TypeOK
  <2>3. Len(states') >= Len(states) /\ ~(Len(states') > Len(states))
    BY <2>1, <2>2
  <2>4. unreported' = (unreported \/ (Len(states') > Len(states) /\ Unreported(tok)))
    BY <2>1, <2>2, <2>3, Zenon
  <2>5. Marks(tok)
    BY <2>1, <2>3, <2>4, Zenon DEF Marks, st
  <2> QED
    BY <1>7, <2>5, KindSkip DEF Kinds, Contained, Marking
<1> QED
  BY <1>3, <1>4, <1>5, <1>6, <1>7 DEF Next

-----------------------------------------------------------------------------
(* The values of a map entry. *)

(* No record before cur is a value of the entry. *)
NoValue(buf, x, cur) == \A p \in Records(buf, x.slice) : p < cur => ~OfField(buf, p, 2, "message")

LEMMA EntryFields ==
  ASSUME NEW x, x.typ = "map", NEW num
  PROVE  /\ FieldIn(x, num).mi # Nil => num = 2
         /\ FieldIn(x, num).typ \in {"message", "group", "map"} => num = 2
         /\ FieldIn(x, 2).typ = "message"
<1>1. NoField.mi = Nil /\ NoField.typ = "other" /\ Optional("text", Nil).mi = Nil /\ Optional("text", Nil).typ = "text"
      /\ Optional("message", x.mi).typ = "message"
  BY DEF NoField, Optional
<1>2. \A n : FieldIn(x, n) = EntryField(x.mi, n)
  BY DEF FieldIn
<1>3. EntryField(x.mi, 2) = Optional("message", x.mi)
  BY DEF EntryField
<1>4. num # 2 => EntryField(x.mi, num) \in {NoField, Optional("text", Nil)}
  BY DEF EntryField
<1> QED
  BY <1>1, <1>2, <1>3, <1>4

LEMMA NoValueSound ==
  ASSUME NEW buf, NEW x, x.typ = "map", NEW cur, NoValue(buf, x, cur)
  PROVE  SoundTo(buf, x, cur)
<1>1. SUFFICES ASSUME NEW p \in Records(buf, x.slice), p < cur
               PROVE  Sound(buf, x, p)
  BY DEF SoundTo
<1>2. PICK tok : tok = buf[p + 1]
  OBVIOUS
<1>3. ~(tok.num = 2 /\ tok.wtyp \in Expects("message"))
  BY <1>1, <1>2 DEF NoValue, OfField
<1>4. FieldIn(x, tok.num).mi # Nil => tok.num = 2
  BY EntryFields
<1>5. FieldIn(x, 2).typ = "message"
  BY EntryFields
<1>6. ~(tok.wtyp \in Expects(FieldIn(x, tok.num).typ) /\ FieldIn(x, tok.num).mi # Nil)
  BY <1>3, <1>4, <1>5
<1> QED
  BY <1>2, <1>6, Zenon DEF Sound

(* A value, and where there is none. *)
LEMMA NoValueOn ==
  ASSUME NEW buf \in Seq(Token), NEW x, FrameOK(buf, x), NEW cur, Track(buf, x, cur), NEW m, Moves(buf, x, cur, m)
  PROVE  /\ NoValue(buf, x, cur) /\ ~OfField(buf, cur, 2, "message") => NoValue(buf, x, m)
         /\ NoValue(buf, x, m) => NoValue(buf, x, cur) /\ ~OfField(buf, cur, 2, "message")
<1>1. ASSUME NEW p \in Records(buf, x.slice)
      PROVE  p < m <=> p < cur \/ p = cur
  BY RecordBefore
<1>2. cur \in Records(buf, x.slice)
  BY TrackFacts DEF Moves
<1> QED
  BY <1>1, <1>2 DEF NoValue

LEMMA NoValueFirst ==
  ASSUME NEW buf \in Seq(Token), NEW x, FrameOK(buf, x)
  PROVE  NoValue(buf, x, x.slice[1])
BY FirstRecord DEF NoValue

LEMMA ValueSeen ==
  ASSUME NEW buf, NEW x, x.typ = "map", NEW cur, ~NoValue(buf, x, cur)
  PROVE  Seen(buf, x, 2)
<1>1. PICK p \in Records(buf, x.slice) : OfField(buf, p, 2, "message")
  BY DEF NoValue
<1>2. FieldIn(x, 2).typ = "message"
  BY EntryFields
<1> QED
  BY <1>1, <1>2 DEF Seen

-----------------------------------------------------------------------------
(* What is known of a state of the stack. *)

Kept(buf, x, cur) ==
  /\ Track(buf, x, cur) /\ MaskOK(buf, x, x.requiredMask)
  /\ x.typ = "map" /\ x.requiredMask = {} => NoValue(buf, x, cur)

(* What was passed is sound, and in a map entry it has the value. *)
Clean(buf, x, cur) == SoundTo(buf, x, cur) /\ (x.typ = "map" => ~NoValue(buf, x, cur))

(* The decoder has come as far, and reports as initialized what is sound.   *)
Reported(buf, x, cur) ==
  \E s : /\ RunsTo(buf, x, s) /\ s.n = cur /\ (x.typ # "map" => MaskOK(buf, x, s.mask))
         /\ s.initialized => Clean(buf, x, cur)

LEMMA SameKnown ==
  ASSUME NEW buf, NEW x, NEW y, Same(x, y), NEW cur
  PROVE  /\ Track(buf, x, cur) <=> Track(buf, y, cur)
         /\ SoundTo(buf, x, cur) <=> SoundTo(buf, y, cur)
         /\ NoValue(buf, x, cur) <=> NoValue(buf, y, cur)
         /\ \A mask : MaskOK(buf, x, mask) <=> MaskOK(buf, y, mask)
         /\ Reported(buf, x, cur) <=> Reported(buf, y, cur)
<1>1. x.typ = y.typ /\ x.mi = y.mi /\ x.endGroup = y.endGroup /\ x.slice = y.slice
  BY DEF Same
<1>2. \A num : FieldIn(x, num) = FieldIn(y, num)
  BY SameFrame
<1>3. Track(buf, x, cur) <=> Track(buf, y, cur)
  BY <1>1 DEF Track
<1>4. SoundTo(buf, x, cur) <=> SoundTo(buf, y, cur)
  <2>1. ASSUME NEW p PROVE Sound(buf, x, p) <=> Sound(buf, y, p)
    BY <1>1, <1>2, Zenon DEF Sound
  <2> QED
    BY <1>1, <2>1, Zenon DEF SoundTo
<1>5. NoValue(buf, x, cur) <=> NoValue(buf, y, cur)
  BY <1>1 DEF NoValue
<1>6. \A mask : MaskOK(buf, x, mask) <=> MaskOK(buf, y, mask)
  <2>1. ASSUME NEW num PROVE Seen(buf, x, num) <=> Seen(buf, y, num)
    BY <1>1, <1>2, Zenon DEF Seen
  <2> QED
    BY <1>1, <2>1, Zenon DEF MaskOK
<1>7. Reported(buf, x, cur) <=> Reported(buf, y, cur)
  <2>1. /\ \A sub : FrameBody(buf, y, sub) = FrameBody(buf, x, sub)
        /\ FrameFirst(y) = FrameFirst(x) /\ Sub(buf, y) = Sub(buf, x)
    BY SameFrame
  <2>2. ASSUME NEW s PROVE RunsTo(buf, x, s) <=> RunsTo(buf, y, s)
    BY <2>1, Zenon DEF RunsTo
  <2>3. Clean(buf, x, cur) <=> Clean(buf, y, cur)
    BY <1>1, <1>4, <1>5, Zenon DEF Clean
  <2> QED
    BY <1>1, <1>6, <2>2, <2>3, Zenon DEF Reported
<1> QED
  BY <1>3, <1>4, <1>5, <1>6, <1>7

LEMMA KeptOn ==
  ASSUME NEW buf \in Seq(Token), NEW x, FrameOK(buf, x), NEW cur, Kept(buf, x, cur), NEW m, Moves(buf, x, cur, m),
         NEW y, Same(y, x), MaskOK(buf, x, y.requiredMask),
         x.typ = "map" /\ y.requiredMask = {} => x.requiredMask = {} /\ ~OfField(buf, cur, 2, "message")
  PROVE  Kept(buf, y, m)
<1>1. Track(buf, x, cur) /\ (x.typ = "map" /\ x.requiredMask = {} => NoValue(buf, x, cur))
  BY DEF Kept
<1>2. Track(buf, x, m)
  BY <1>1, TrackOn
<1>3. NoValue(buf, x, cur) /\ ~OfField(buf, cur, 2, "message") => NoValue(buf, x, m)
  BY <1>1, NoValueOn
<1>4. Track(buf, y, m) /\ MaskOK(buf, y, y.requiredMask) /\ (NoValue(buf, y, m) <=> NoValue(buf, x, m))
  BY <1>2, SameKnown
<1>5. y.typ = x.typ
  BY DEF Same
<1> QED
  BY <1>1, <1>3, <1>4, <1>5 DEF Kept

LEMMA CleanOn ==
  ASSUME NEW buf \in Seq(Token), NEW x, FrameOK(buf, x), NEW cur, Track(buf, x, cur), NEW m, Moves(buf, x, cur, m),
         Clean(buf, x, cur), Sound(buf, x, cur)
  PROVE  Clean(buf, x, m)
<1>1. SoundTo(buf, x, m)
  BY SoundOn DEF Clean
<1>2. NoValue(buf, x, m) => NoValue(buf, x, cur)
  BY NoValueOn
<1> QED
  BY <1>1, <1>2 DEF Clean

(* The decoder goes from the record at cur to the one at m as well. *)
Carries(buf, x, cur, m) ==
  \A s : RunsTo(buf, x, s) /\ s.n = cur /\ (x.typ # "map" => MaskOK(buf, x, s.mask)) =>
     \E r : /\ RunsTo(buf, x, r) /\ r.n = m /\ r.initialized = s.initialized
            /\ x.typ # "map" => MaskOK(buf, x, r.mask)

LEMMA ReportedOn ==
  ASSUME NEW buf \in Seq(Token), NEW x, FrameOK(buf, x), NEW cur, Track(buf, x, cur), NEW m, Moves(buf, x, cur, m),
         Reported(buf, x, cur), Sound(buf, x, cur), Carries(buf, x, cur, m)
  PROVE  Reported(buf, x, m)
<1>1. PICK s : /\ RunsTo(buf, x, s) /\ s.n = cur /\ (x.typ # "map" => MaskOK(buf, x, s.mask))
               /\ s.initialized => Clean(buf, x, cur)
  BY Zenon DEF Reported
<1>2. PICK r : /\ RunsTo(buf, x, r) /\ r.n = m /\ r.initialized = s.initialized
               /\ x.typ # "map" => MaskOK(buf, x, r.mask)
  BY <1>1, Zenon DEF Carries
<1>3. Clean(buf, x, cur) => Clean(buf, x, m)
  BY CleanOn
<1> QED
  BY <1>1, <1>2, <1>3, Zenon DEF Reported

-----------------------------------------------------------------------------
(* What is known of the stack. *)

FrameAt(buf, j) ==
  /\ Kept(buf, states[j], Cur(j))
  /\ initialized => SoundTo(buf, states[j], Cur(j))
  /\ ~unreported /\ deepest <= RecursionLimit => Reported(buf, states[j], Cur(j))

(* Unmarshaling reports what the value lacks that comes after the record at *)
(* c: it is the first of a map entry, or one that is checked if it can lack *)
(* something.                                                               *)
Told(buf, x, c) ==
  IF x.typ = "map" THEN NoValue(buf, x, c)
  ELSE HasInit(FieldIn(x, buf[c + 1].num)) \/ FieldIn(x, buf[c + 1].num).mi \notin CanLack

(* A map entry that is not on top is at its value. *)
UnderAt(buf, j) ==
  /\ states[j].typ = "map" => states[j].requiredMask # {}
  /\ ~unreported => Told(buf, states[j], Cur(j))

WholeGood(buf) == Good(buf, Top, {<<0, total>>})

Progress(buf) ==
  /\ result = "run" => \A j \in 1 .. Len(states) : FrameAt(buf, j) /\ (j < Len(states) => UnderAt(buf, j))
  /\ result = "valid" /\ initialized => WholeGood(buf)
  /\ result = "valid" /\ ~unreported /\ deepest <= RecursionLimit /\ Whole(buf).initialized => WholeGood(buf)

(* A step never takes back that something is missing. *)
Weakens ==
  /\ initialized' => initialized
  /\ unreported => unreported'
  /\ deepest' <= RecursionLimit => deepest <= RecursionLimit

LEMMA FrameStays ==
  ASSUME NEW buf, NEW j, Weakens, states'[j] = states[j], Cur(j)' = Cur(j), FrameAt(buf, j)
  PROVE  FrameAt(buf, j)'
<1>1. PICK x, c : x = states[j] /\ c = Cur(j) /\ x = states'[j] /\ c = Cur(j)'
  OBVIOUS
<1>2. /\ Kept(buf, x, c) /\ (initialized => SoundTo(buf, x, c))
      /\ ~unreported /\ deepest <= RecursionLimit => Reported(buf, x, c)
  BY <1>1, Zenon DEF FrameAt
<1>3. /\ Kept(buf, x, c) /\ (initialized' => SoundTo(buf, x, c))
      /\ ~unreported' /\ deepest' <= RecursionLimit => Reported(buf, x, c)
  BY <1>2, Zenon DEF Weakens
<1> QED
  BY <1>1, <1>3 DEF FrameAt

LEMMA UnderStays ==
  ASSUME NEW buf, NEW j, Weakens, states'[j] = states[j], Cur(j)' = Cur(j), UnderAt(buf, j)
  PROVE  UnderAt(buf, j)'
<1>1. PICK x, c : x = states[j] /\ c = Cur(j) /\ x = states'[j] /\ c = Cur(j)'
  OBVIOUS
<1>2. (x.typ = "map" => x.requiredMask # {}) /\ (~unreported => Told(buf, x, c))
  BY <1>1, Zenon DEF UnderAt
<1>3. (x.typ = "map" => x.requiredMask # {}) /\ (~unreported' => Told(buf, x, c))
  BY <1>2, Zenon DEF Weakens
<1> QED
  BY <1>1, <1>3 DEF UnderAt

LEMMA FrameSet ==
  ASSUME NEW buf, NEW j, NEW x, x = states'[j], NEW c, c = Cur(j)', Kept(buf, x, c),
         initialized' => SoundTo(buf, x, c), ~unreported' /\ deepest' <= RecursionLimit => Reported(buf, x, c)
  PROVE  FrameAt(buf, j)'
BY DEF FrameAt

(* The states below the first L are kept. *)
LEMMA StaysBelow ==
  ASSUME TypeOK, TypeOK', Weakens, NEW L \in Nat, Below(L), \A j \in 1 .. L : j < L => states'[j] = states[j],
         NEW buf, \A j \in 1 .. Len(states) : FrameAt(buf, j) /\ (j < Len(states) => UnderAt(buf, j))
  PROVE  \A j \in 1 .. L : j < L => FrameAt(buf, j)' /\ UnderAt(buf, j)'
<1>1. SUFFICES ASSUME NEW j \in 1 .. L, j < L
               PROVE  FrameAt(buf, j)' /\ UnderAt(buf, j)'
  OBVIOUS
<1>2. L <= Len(states) /\ L <= Len(states') /\ Len(states) \in Nat /\ Len(states') \in Nat
  BY DEF Below, TypeOK
<1>3. j < Len(states) /\ j < Len(states') /\ j + 1 \in 1 .. L /\ j \in 1 .. Len(states)
  BY <1>1, <1>2
<1>4. Same(states'[j + 1], states[j + 1])
  BY <1>3 DEF Below
<1>5. Cur(j)' = Cur(j)
  BY <1>3, <1>4 DEF Cur, Same
<1>6. states'[j] = states[j]
  BY <1>1
<1>7. FrameAt(buf, j) /\ UnderAt(buf, j)
  BY <1>3
<1> QED
  BY <1>5, <1>6, <1>7, FrameStays, UnderStays

LEMMA SameEqual ==
  ASSUME NEW x \in validationState, NEW y \in validationState, Same(x, y), x.requiredMask = y.requiredMask
  PROVE  x = y
BY DEF validationState, Same

LEMMA KeepsWeakens ==
  ASSUME TypeOK, Keeps, NEW tok, Marks(tok)
  PROVE  Weakens /\ initialized' = initialized /\ unreported' = unreported /\ deepest' = deepest
<1>1. Len(states') = Len(states) /\ deepest' = deepest /\ Len(states) \in Nat
  BY DEF Keeps, TypeOK
<1>2. ~(Len(states') > Len(states)) /\ unreported \in BOOLEAN
  BY <1>1 DEF TypeOK
<1>3. initialized' = initialized /\ unreported' = unreported
  BY <1>2, Zenon DEF Marks
<1> QED
  BY <1>1, <1>3 DEF Weakens

(* The step leaves the top of the stack where it is, or takes it on. *)
LEMMA ProgressKeeps ==
  ASSUME TypeOK, TypeOK', Layout, result = "run", Keeps, NEW tok, Marks(tok), NEW buf, Progress(buf),
         NEW L, L = Len(states), FrameAt(buf, L)'
  PROVE  Progress(buf)'
<1>1. L \in Nat \ {0} /\ Len(states') = L /\ Below(L) /\ result' = "run"
  BY Running DEF Keeps
<1>2. \A j \in 1 .. L : j < L => states'[j] = states[j]
  BY Zenon DEF Marks
<1>3. Weakens
  BY KeepsWeakens
<1>4. \A j \in 1 .. Len(states) : FrameAt(buf, j) /\ (j < Len(states) => UnderAt(buf, j))
  BY DEF Progress
<1>5. \A j \in 1 .. L : j < L => FrameAt(buf, j)' /\ UnderAt(buf, j)'
  BY <1>1, <1>2, <1>3, <1>4, StaysBelow
<1>6. \A j \in 1 .. L : j < L \/ j = L
  BY <1>1
<1>7. \A j \in 1 .. L : FrameAt(buf, j)' /\ (j < L => UnderAt(buf, j)')
  BY <1>5, <1>6
<1> QED
  BY <1>1, <1>7 DEF Progress

LEMMA ProgressStill ==
  ASSUME TypeOK, TypeOK', Layout, result = "run", Keeps, NEW tok, Marks(tok), NEW buf, Progress(buf),
         NEW L, L = Len(states), Cur(L)' = Cur(L), states'[L].requiredMask = st.requiredMask
  PROVE  Progress(buf)'
<1>1. L \in Nat \ {0} /\ L \in 1 .. Len(states) /\ Len(states') = L /\ Below(L)
  BY Running DEF Keeps
<1>2. states'[L] \in validationState /\ states[L] \in validationState /\ Same(states'[L], states[L])
  BY <1>1 DEF TypeOK, Below
<1>3. states'[L] = states[L]
  BY <1>2, SameEqual DEF st
<1>4. FrameAt(buf, L)
  BY <1>1 DEF Progress
<1>5. FrameAt(buf, L)'
  BY <1>3, <1>4, KeepsWeakens, FrameStays
<1> QED
  BY <1>5, ProgressKeeps

LEMMA ProgressMoved ==
  ASSUME TypeOK, TypeOK', Layout, result = "run", Keeps, NEW tok, Marks(tok), NEW buf, Completion(buf), Progress(buf),
         NEW L, L = Len(states), NEW cur, cur = Cur(L), NEW m, m = Cur(L)', NEW x, x = st,
         Moves(buf, x, cur, m), Sound(buf, x, cur), NEW mask, mask = states'[L].requiredMask, MaskOK(buf, x, mask),
         x.typ = "map" /\ mask = {} => x.requiredMask = {} /\ ~OfField(buf, cur, 2, "message"),
         deepest <= RecursionLimit => Carries(buf, x, cur, m)
  PROVE  Progress(buf)'
<1>1. L \in Nat \ {0} /\ L \in 1 .. Len(states) /\ Len(states') = L /\ Below(L)
  BY Running DEF Keeps
<1>2. FrameAt(buf, L) /\ x = states[L]
  BY <1>1 DEF Progress, st
<1>3. /\ Kept(buf, x, cur) /\ (initialized => SoundTo(buf, x, cur))
      /\ ~unreported /\ deepest <= RecursionLimit => Reported(buf, x, cur)
  BY <1>2, Zenon DEF FrameAt
<1>4. FrameOK(buf, x) /\ buf \in Seq(Token) /\ Track(buf, x, cur)
  BY <1>1, <1>2, <1>3, FrameIs DEF Completion, Kept
<1>5. PICK y : y = states'[L]
  OBVIOUS
<1>6. Same(y, x) /\ mask = y.requiredMask
  BY <1>1, <1>2, <1>5 DEF Below
<1>7. Kept(buf, y, m)
  BY <1>3, <1>4, <1>6, KeptOn
<1>8. initialized' = initialized /\ unreported' = unreported /\ deepest' = deepest
  BY KeepsWeakens
<1>9. initialized' => SoundTo(buf, y, m)
  BY <1>3, <1>4, <1>6, <1>8, SoundOn, SameKnown
<1>10. ~unreported' /\ deepest' <= RecursionLimit => Reported(buf, y, m)
  <2>1. SUFFICES ASSUME ~unreported', deepest' <= RecursionLimit PROVE Reported(buf, y, m)
    OBVIOUS
  <2>2. ~unreported /\ deepest <= RecursionLimit
    BY <1>8, <2>1
  <2>3. Reported(buf, x, cur)
    BY <1>3, <2>2
  <2>4. Reported(buf, x, m)
    BY <1>4, <2>2, <2>3, ReportedOn
  <2> QED
    BY <1>6, <2>4, SameKnown
<1>11. FrameAt(buf, L)'
  BY <1>5, <1>7, <1>9, <1>10, FrameSet
<1> QED
  BY <1>11, ProgressKeeps

-----------------------------------------------------------------------------
(* The steps that pass over a record. *)

LEMMA BitSeen ==
  ASSUME NEW buf, NEW x, x = st, NEW mask, MaskOK(buf, x, mask), NEW cur \in Records(buf, x.slice),
         NEW tok, tok = buf[cur + 1]
  PROVE  MaskOK(buf, x, mask \cup Bit(tok))
<1>1. CASE tok.wtyp \notin Expects(FieldIn(x, tok.num).typ)
  <2>1. Bit(tok) = {}
    BY <1>1 DEF Bit, vi
  <2>2. mask \cup Bit(tok) = mask
    BY <2>1
  <2> QED
    BY <2>2
<1>2. CASE tok.wtyp \in Expects(FieldIn(x, tok.num).typ)
  <2>1. /\ x.typ # "map" => MaskOK(buf, x, mask \cup requiredBit(x.mi, tok.num))
        /\ x.typ = "map" => MaskOK(buf, x, mask \cup {0 : i \in {2} \cap {tok.num}})
    BY <1>2, MaskMarks
  <2>2. Bit(tok) = IF x.typ = "map" THEN {0 : i \in {2} \cap {tok.num}} ELSE requiredBit(x.mi, tok.num)
    BY <1>2 DEF Bit, vi
  <2>3. CASE x.typ = "map"
    BY <2>1, <2>2, <2>3
  <2>4. CASE x.typ # "map"
    BY <2>1, <2>2, <2>4
  <2> QED
    BY <2>3, <2>4
<1> QED
  BY <1>1, <1>2

(* A record that is passed over is not the value of a map entry. *)
LEMMA PassesNoValue ==
  ASSUME NEW x, x.typ = "map", NEW tok, Passes(x, tok)
  PROVE  ~(tok.num = 2 /\ tok.wtyp \in Expects("message"))
<1>1. FieldIn(x, 2).typ = "message"
  BY EntryFields
<1>2. Expects("message") = {"bytes"}
  BY DEF Expects
<1> QED
  BY <1>1, <1>2 DEF Passes

LEMMA ProgressPassed ==
  ASSUME TypeOK, TypeOK', Layout, NEW tok, NEW n, Passed(tok, n), Marking(tok), NEW buf, Completion(buf)', Progress(buf)
  PROVE  Progress(buf)'
<1>1. /\ Reads(tok, n) /\ Grows /\ Keeps /\ skip = <<>> /\ skip' = <<>> /\ n = Width(tok) /\ Passes(st, tok)
      /\ result = "run" /\ n < b /\ n \in Nat
  BY DEF Passed, Reads
<1>2. Completion(buf) /\ buf[Len(input) + 1] = tok /\ buf \in Seq(Token)
  BY <1>1, CompletionBack, CompletionHas DEF Completion
<1>3. PICK L : L = Len(states)
  OBVIOUS
<1>4. L \in Nat \ {0} /\ L \in 1 .. Len(states) /\ Stack /\ b \in Nat /\ Len(input) \in Nat
  BY <1>1, <1>3, Running
<1>5. PICK cur, m, x : cur = Cur(L) /\ m = Cur(L)' /\ x = st
  OBVIOUS
<1>6. cur = Len(input) /\ m = Len(input') /\ m = cur + 1 + Width(tok) /\ tok = buf[cur + 1]
  BY <1>1, <1>2, <1>3, <1>4, <1>5 DEF Cur, Keeps, Reads
<1>7. FrameOK(buf, x) /\ x.slice[2] = Len(input) + b /\ (deepest <= RecursionLimit => Ready(buf, x)) /\ x = states[L]
  BY <1>1, <1>2, <1>3, <1>4, <1>5, FrameIs DEF st, Stack
<1>8. cur < x.slice[2] /\ m <= x.slice[2]
  BY <1>1, <1>4, <1>6, <1>7
<1>9. FrameAt(buf, L)
  BY <1>1, <1>4 DEF Progress
<1>10. Track(buf, x, cur) /\ MaskOK(buf, x, x.requiredMask)
  BY <1>5, <1>7, <1>9, Zenon DEF FrameAt, Kept
<1>11. cur \in 0 .. Len(buf) /\ cur \in Records(buf, x.slice)
  BY <1>2, <1>7, <1>8, <1>10, TrackFacts
<1>12. Moves(buf, x, cur, m) /\ Sound(buf, x, cur)
  BY <1>1, <1>2, <1>5, <1>6, <1>7, <1>8, <1>11, MovesPassed
<1>13. Marks(tok)
  <2>1. ~Judges
    BY <1>1, <1>4 DEF Judges, Keeps
  <2> QED
    BY <2>1 DEF Marking
<1>14. PICK mask : mask = states'[L].requiredMask
  OBVIOUS
<1>15. mask = x.requiredMask \/ mask = x.requiredMask \cup Bit(tok)
  BY <1>3, <1>5, <1>13, <1>14, Zenon DEF Marks
<1>16. MaskOK(buf, x, mask)
  BY <1>5, <1>6, <1>10, <1>11, <1>15, BitSeen
<1>17. x.typ = "map" /\ mask = {} => x.requiredMask = {} /\ ~OfField(buf, cur, 2, "message")
  BY <1>1, <1>5, <1>6, <1>15, PassesNoValue DEF OfField
<1>18. ASSUME deepest <= RecursionLimit, NEW s, RunsTo(buf, x, s), s.n = cur, x.typ # "map" => MaskOK(buf, x, s.mask)
       PROVE  \E r : /\ RunsTo(buf, x, r) /\ r.n = m /\ r.initialized = s.initialized
                     /\ x.typ # "map" => MaskOK(buf, x, r.mask)
  <2>1. Ready(buf, x) /\ s.n < x.slice[2] /\ tok = buf[s.n + 1] /\ s.n + 1 + Width(tok) <= x.slice[2] /\ Passes(x, tok)
    BY <1>1, <1>5, <1>6, <1>7, <1>8, <1>18
  <2>2. PICK r : /\ RunsTo(buf, x, r) /\ r.n = s.n + 1 + Width(tok) /\ r.initialized = s.initialized
                 /\ x.typ # "map" => r.mask = s.mask \cup FrameBit(x, tok)
    BY <1>18, <2>1, RunsPass
  <2>3. x.typ # "map" => MaskOK(buf, x, r.mask)
    <3>1. SUFFICES ASSUME x.typ # "map" PROVE MaskOK(buf, x, r.mask)
      OBVIOUS
    <3>2. FrameBit(x, tok) = Bit(tok)
      BY <1>5, <3>1 DEF FrameBit, Bit, vi
    <3> QED
      BY <1>5, <1>6, <1>11, <1>18, <2>2, <3>1, <3>2, BitSeen
  <2>4. r.n = m
    BY <1>6, <1>18, <2>2
  <2> QED
    BY <2>2, <2>3, <2>4
<1> QED
  <2>1. deepest <= RecursionLimit => Carries(buf, x, cur, m)
    BY <1>18 DEF Carries
  <2> QED
    BY <1>1, <1>2, <1>3, <1>5, <1>12, <1>13, <1>14, <1>16, <1>17, <2>1, ProgressMoved

LEMMA ProgressOpened ==
  ASSUME TypeOK, TypeOK', Layout, NEW tok, Opened(tok), Marking(tok), NEW buf, Progress(buf)
  PROVE  Progress(buf)'
<1>1. /\ Reads(tok, 0) /\ Keeps /\ skip' = Append(skip, Open(tok)) /\ tok.wtyp = "start" /\ result = "run"
      /\ skip = <<>> => FieldIn(st, tok.num).typ # "group"
  BY DEF Opened, Reads
<1>2. PICK L, K : L = Len(states) /\ K = Len(skip)
  OBVIOUS
<1>3. Len(input) \in Nat /\ L \in Nat \ {0}
  BY <1>1, <1>2, Running
<1>4. /\ K \in Nat /\ Len(skip') = K + 1 /\ skip'[K + 1] = Open(tok) /\ \A k \in 1 .. K : skip'[k] = skip[k]
      /\ skip' # <<>>
  <2>1. PICK P : P = [num : Nat \ {0}, start : Nat]
    OBVIOUS
  <2>2. tok.num \in Nat \ {0}
    BY <1>1 DEF Reads, Token
  <2>3. Open(tok) \in P /\ skip \in Seq(P)
    BY <1>3, <2>1, <2>2 DEF Open, TypeOK
  <2> QED
    BY <1>1, <1>2, <2>3, OneMore
<1>5. Open(tok).start = Len(input) + 1
  BY DEF Open
<1>6. Cur(L)' = Cur(L)
  <2>1. CASE skip = <<>>
    <3>1. K = 0
      BY <1>2, <2>1
    <3>2. Cur(L)' = (Len(input) + 1) - 1
      BY <1>1, <1>2, <1>4, <1>5, <3>1 DEF Cur, Keeps
    <3>3. Cur(L) = Len(input)
      BY <1>2, <1>3, <2>1 DEF Cur
    <3> QED
      BY <1>3, <3>2, <3>3
  <2>2. CASE skip # <<>>
    <3>1. K > 0
      BY <1>2, <1>4, <2>2, SkipType DEF TypeOK
    <3>2. skip'[1] = skip[1]
      BY <1>4, <3>1
    <3> QED
      BY <1>1, <1>2, <1>3, <1>4, <2>2, <3>2 DEF Cur, Keeps
  <2> QED
    BY <2>1, <2>2
<1>7. Marks(tok)
  <2>1. ~Judges
    BY <1>1, <1>3, <1>2 DEF Judges, Keeps
  <2> QED
    BY <2>1 DEF Marking
<1>8. states'[L].requiredMask = st.requiredMask
  <2>1. CASE skip = <<>>
    <3>1. tok.wtyp \notin Expects(vi(tok.num).typ)
      BY <1>1, <2>1 DEF vi, Expects
    <3>2. st.requiredMask \cup Bit(tok) = st.requiredMask
      BY <3>1 DEF Bit
    <3> QED
      BY <1>2, <1>7, <3>2, Zenon DEF Marks
  <2>2. CASE skip # <<>>
    BY <1>2, <1>7, <2>2, Zenon DEF Marks
  <2> QED
    BY <2>1, <2>2
<1> QED
  BY <1>1, <1>2, <1>6, <1>7, <1>8, ProgressStill

LEMMA ProgressSkipped ==
  ASSUME TypeOK, TypeOK', Layout, NEW tok, NEW n, SkippedOver(tok, n), Marking(tok), NEW buf, Progress(buf)
  PROVE  Progress(buf)'
<1>1. Keeps /\ skip' = skip /\ skip # <<>> /\ result = "run"
  BY DEF SkippedOver, Reads
<1>2. PICK L : L = Len(states)
  OBVIOUS
<1>3. L \in Nat \ {0}
  BY <1>1, <1>2, Running
<1>4. Cur(L)' = Cur(L)
  BY <1>1, <1>2, <1>3 DEF Cur, Keeps
<1>5. Marks(tok)
  <2>1. ~Judges
    BY <1>1, <1>2, <1>3 DEF Judges, Keeps
  <2> QED
    BY <2>1 DEF Marking
<1>6. states'[L].requiredMask = st.requiredMask
  BY <1>1, <1>2, <1>5, Zenon DEF Marks
<1> QED
  BY <1>1, <1>2, <1>4, <1>5, <1>6, ProgressStill

LEMMA ProgressClosed ==
  ASSUME TypeOK, TypeOK', Layout, NEW tok, Closed(tok), Marking(tok), NEW buf, Completion(buf)', Agrees(buf), Progress(buf)
  PROVE  Progress(buf)'
<1>1. /\ Reads(tok, 0) /\ Grows /\ Keeps /\ skip # <<>> /\ skip' = SubSeq(skip, 1, Len(skip) - 1)
      /\ tok.wtyp = "end" /\ tok.num = skip[Len(skip)].num /\ result = "run" /\ 0 < b /\ total' = total
  BY DEF Closed, Reads, Grows
<1>2. Completion(buf) /\ buf[Len(input) + 1] = tok /\ buf \in Seq(Token) /\ Len(buf) = total
  BY <1>1, CompletionBack, CompletionHas DEF Completion
<1>3. PICK L, K : L = Len(states) /\ K = Len(skip)
  OBVIOUS
<1>4. /\ Len(input) \in Nat /\ Len(input') = Len(input) + 1 /\ L \in Nat \ {0} /\ L \in 1 .. Len(states) /\ b \in Nat
      /\ K \in Nat \ {0} /\ Stack /\ total \in Nat
  <2>1. K \in Nat /\ K > 0
    BY <1>1, <1>3, SkipType DEF TypeOK
  <2> QED
    BY <1>1, <1>3, <2>1, Running DEF Reads
<1>5. Len(skip') = K - 1 /\ \A k \in 1 .. K - 1 : skip'[k] = skip[k]
  BY <1>1, <1>3, Butlast DEF TypeOK
<1>6. Skipping(buf)
  BY <1>1 DEF Agrees
<1>7. Marks(tok)
  <2>1. ~Judges
    BY <1>1, <1>3, <1>4 DEF Judges, Keeps
  <2> QED
    BY <2>1 DEF Marking
<1>8. states'[L].requiredMask = st.requiredMask
  BY <1>1, <1>3, <1>7, Zenon DEF Marks
<1>9. CASE K # 1
  <2>1. skip'[1] = skip[1] /\ skip' # <<>>
    <3>1. Len(skip') # 0 /\ 1 \in 1 .. K - 1
      BY <1>4, <1>5, <1>9
    <3> QED
      BY <1>5, <3>1
  <2>2. Cur(L)' = Cur(L)
    BY <1>1, <1>3, <1>4, <2>1 DEF Cur, Keeps
  <2> QED
    BY <1>1, <1>3, <1>7, <1>8, <2>2, ProgressStill
<1>10. CASE K = 1
  <2>1. skip' = <<>>
    <3>1. Len(skip') = 0
      BY <1>5, <1>10
    <3> QED
      BY <3>1 DEF TypeOK
  <2>2. Cur(L)' = Len(input) + 1
    BY <1>1, <1>3, <1>4, <2>1 DEF Cur, Keeps
  <2>3. PICK cur, m, x, t : cur = Cur(L) /\ m = Cur(L)' /\ x = st /\ t = buf[cur + 1]
    OBVIOUS
  <2>4. /\ cur + 1 = skip[1].start /\ cur \in Nat /\ cur < x.slice[2] /\ cur < Len(input)
        /\ t.wtyp = "start" /\ t.num = skip[1].num
        /\ FieldIn(x, t.num).resolves /\ t.wtyp \notin Expects(FieldIn(x, t.num).typ)
    BY <1>1, <1>2, <1>3, <2>3, OuterGroup
  <2>5. FrameOK(buf, x) /\ (deepest <= RecursionLimit => Ready(buf, x)) /\ x = states[L]
    BY <1>1, <1>2, <1>3, <1>4, <2>3, FrameIs DEF st
  <2>6. m \in Nat /\ m > cur /\ m <= Len(buf) /\ cur \in 0 .. Len(buf)
    <3>1. m <= total
      BY <1>1, <1>4, <2>2, <2>3, ReadWithin
    <3> QED
      BY <1>2, <1>4, <2>2, <2>3, <2>4, <3>1
  <2>7. ASSUME NEW i \in Nat \ {0}, i = DefaultRecursionLimit + 2 - K \/ i > total - skip[K].start
        PROVE  GroupGives(buf, t.num, x.slice[2], cur + 1, i, Done(m, TRUE))
    <3>1. GroupGives(buf, skip[K].num, st.slice[2], skip[K].start, i, Done(Len(input) + 1, TRUE))
      BY <1>1, <1>2, <1>3, <1>6, <2>7, GroupCloses
    <3> QED
      BY <1>10, <2>2, <2>3, <2>4, <3>1
  <2>8. Moves(buf, x, cur, m) /\ Sound(buf, x, cur)
    <3>1. ASSUME NEW i \in Nat \ {0}, i > Len(buf) - (cur + 1)
          PROVE  GroupGives(buf, t.num, x.slice[2], cur + 1, i, Done(m, TRUE))
      BY <1>2, <1>10, <2>4, <2>7, <3>1
    <3> QED
      BY <1>2, <2>3, <2>4, <2>5, <2>6, <3>1, MovesSkipped
  <2>9. MaskOK(buf, x, x.requiredMask)
    <3>1. FrameAt(buf, L)
      BY <1>1, <1>4 DEF Progress
    <3> QED
      BY <2>5, <3>1, Zenon DEF FrameAt, Kept
  <2>10. ~OfField(buf, cur, 2, "message")
    <3>1. Expects("message") = {"bytes"}
      BY DEF Expects
    <3> QED
      BY <2>3, <2>4, <3>1 DEF OfField
  <2>11. ASSUME deepest <= RecursionLimit, NEW s, RunsTo(buf, x, s), s.n = cur, x.typ # "map" => MaskOK(buf, x, s.mask)
         PROVE  \E r : /\ RunsTo(buf, x, r) /\ r.n = m /\ r.initialized = s.initialized
                       /\ x.typ # "map" => MaskOK(buf, x, r.mask)
    <3>1. PICK i : i = DefaultRecursionLimit + 1
      OBVIOUS
    <3>2. i \in Nat \ {0} /\ i = DefaultRecursionLimit + 2 - K
      BY <1>10, <3>1, ValidateAssumption
    <3>3. PICK d : d = Done(m, TRUE)
      OBVIOUS
    <3>4. d.err = "none" /\ d.n = m
      BY <3>3 DEF Done
    <3>5. ConsumesTo(buf, t, cur + 1, x.slice[2], i, d.n)
      BY <2>4, <2>7, <3>2, <3>3, <3>4, ConsumeStart
    <3>6. m = FieldEnd(buf, t, cur + 1, x.slice[2])
      BY <3>1, <3>4, <3>5 DEF ConsumesTo, FieldEnd
    <3>7. t.wtyp # "end" /\ m > s.n /\ s.n < x.slice[2] /\ t = buf[s.n + 1] /\ m = FieldEnd(buf, t, s.n + 1, x.slice[2])
      BY <2>3, <2>4, <2>6, <2>11, <3>6
    <3>8. Ready(buf, x)
      BY <2>5, <2>11
    <3>9. PICK r : RunsTo(buf, x, r) /\ r.n = m /\ r.initialized = s.initialized /\ r.mask = s.mask
      BY <2>4, <2>11, <3>7, <3>8, RunsOver
    <3> QED
      BY <2>11, <3>9
  <2>12. PICK mask : mask = states'[L].requiredMask
    OBVIOUS
  <2>13. mask = x.requiredMask
    BY <1>8, <2>3, <2>12
  <2>14. MaskOK(buf, x, mask) /\ (x.typ = "map" /\ mask = {} => x.requiredMask = {} /\ ~OfField(buf, cur, 2, "message"))
    BY <2>9, <2>10, <2>13
  <2>15. deepest <= RecursionLimit => Carries(buf, x, cur, m)
    BY <2>11 DEF Carries
  <2> QED
    BY <1>1, <1>2, <1>3, <1>7, <2>3, <2>8, <2>12, <2>14, <2>15, ProgressMoved
<1> QED
  BY <1>9, <1>10

-----------------------------------------------------------------------------
(* The step that enters a field. *)

(* A state of the stack that is at its first record. *)
LEMMA FrameBegun ==
  ASSUME NEW buf \in Seq(Token), NEW x, FrameOK(buf, x), x.requiredMask = {}, NEW cur, cur = x.slice[1]
  PROVE  /\ Kept(buf, x, cur) /\ SoundTo(buf, x, cur)
         /\ x.level <= RecursionLimit => Reported(buf, x, cur)
<1>1. Track(buf, x, cur) /\ SoundTo(buf, x, cur) /\ NoValue(buf, x, cur)
  BY TrackFirst, SoundFirst, NoValueFirst
<1>2. MaskOK(buf, x, {})
  BY Zenon DEF MaskOK
<1>3. Kept(buf, x, cur)
  BY <1>1, <1>2 DEF Kept
<1>4. ASSUME x.level <= RecursionLimit
      PROVE  Reported(buf, x, cur)
  <2>1. Ready(buf, x)
    BY <1>4 DEF Ready
  <2>2. PICK s : s = FrameFirst(x)
    OBVIOUS
  <2>3. RunsTo(buf, x, s) /\ s.n = cur /\ s.mask = {} /\ (s.initialized <=> x.typ # "map")
    BY <2>1, <2>2, RunsFirst, ReadyFacts
  <2>4. s.initialized => Clean(buf, x, cur)
    BY <1>1, <2>3 DEF Clean
  <2>5. MaskOK(buf, x, s.mask)
    BY <1>2, <2>3
  <2> QED
    BY <2>3, <2>4, <2>5, Zenon DEF Reported
<1> QED
  BY <1>1, <1>3, <1>4

LEMMA ProgressEntered ==
  ASSUME TypeOK, TypeOK', Layout, NEW tok, NEW y, Entered(tok, y), Marking(tok), NEW buf, Completion(buf)', Progress(buf)
  PROVE  Progress(buf)'
<1>1. /\ Reads(tok, 0) /\ Grows /\ skip = <<>> /\ skip' = <<>> /\ result = "run" /\ result' = "run" /\ 0 < b
      /\ Len(states') = Len(states) + 1 /\ Below(Len(states)) /\ y = states'[Len(states) + 1] /\ y \in validationState
      /\ ChildOf(st, y, tok, Len(input) + 1) /\ (y.typ = "group" <=> y.endGroup # 0) /\ y.requiredMask = {}
      /\ y.slice[2] = Len(input) + 1 + b' /\ st.slice[2] = y.slice[2] + y.tail /\ y.tail \in Nat
      /\ deepest' = IF y.level > deepest THEN y.level ELSE deepest
  BY DEF Entered, Reads
<1>2. Completion(buf) /\ buf[Len(input) + 1] = tok /\ buf \in Seq(Token)
  BY <1>1, CompletionBack, CompletionHas DEF Completion
<1>3. /\ Len(input) \in Nat /\ Len(input') = Len(input) + 1 /\ Len(states) \in Nat \ {0} /\ b \in Nat
      /\ Stack /\ deepest \in Nat /\ y.level \in Nat /\ b' \in Nat /\ total \in Nat /\ Len(buf) = total
      /\ unreported \in BOOLEAN
  <2>1. y.level \in Nat
    BY <1>1 DEF validationState
  <2> QED
    BY <1>1, <1>2, <2>1, Running DEF Reads, TypeOK, Completion
<1>4. PICK L, cur, x : L = Len(states) /\ cur = Cur(L) /\ x = st
  OBVIOUS
<1>5. L \in 1 .. Len(states) /\ L \in Nat \ {0} /\ Len(states') = L + 1 /\ L < Len(states') /\ x = states[L]
  BY <1>1, <1>3, <1>4 DEF st
<1>6. cur = Len(input) /\ tok = buf[cur + 1] /\ y.slice[1] = Len(input) + 1
  BY <1>1, <1>2, <1>4, <1>5 DEF Cur, ChildOf
<1>7. FrameOK(buf, y)
  <2>1. Placed(L) /\ st.slice[2] = Len(input) + b
    BY <1>3, <1>5 DEF Stack
  <2>2. st.slice[2] <= total
    BY <1>4, <2>1 DEF Placed, st
  <2>4. y.slice[1] \in 0 .. Len(buf) /\ y.slice[2] \in 0 .. Len(buf)
    BY <1>1, <1>3, <1>6, <2>1, <2>2
  <2> QED
    BY <1>1, <2>4 DEF FrameOK
<1>8. Cur(L)' = cur /\ Cur(L + 1)' = y.slice[1]
  <2>1. Cur(L)' = (Len(input) + 1) - 1
    BY <1>1, <1>4, <1>5, <1>6 DEF Cur
  <2>2. Cur(L + 1)' = Len(input) + 1
    BY <1>1, <1>3, <1>5 DEF Cur
  <2> QED
    BY <1>3, <1>6, <2>1, <2>2
<1>9. Marks(tok)
  <2>1. ~Judges
    BY <1>1, <1>3 DEF Judges
  <2> QED
    BY <2>1 DEF Marking
<1>10. /\ initialized' = initialized /\ \A j \in 1 .. L : j < L => states'[j] = states[j]
       /\ states'[L].requiredMask = x.requiredMask \cup Bit(tok)
       /\ unreported' = (unreported \/ Unreported(tok))
  <2>1. Len(states') > Len(states)
    BY <1>4, <1>5
  <2> QED
    BY <1>4, <1>9, <2>1, Zenon DEF Marks
<1>11. Weakens
  <2>1. deepest' <= RecursionLimit => deepest <= RecursionLimit
    BY <1>1, <1>3, ValidateAssumption
  <2>2. unreported => unreported'
    BY <1>10, Zenon
  <2> QED
    BY <1>10, <2>1, <2>2 DEF Weakens
<1>12. \A j \in 1 .. Len(states) : FrameAt(buf, j) /\ (j < Len(states) => UnderAt(buf, j))
  BY <1>1 DEF Progress
<1>13. \A j \in 1 .. L : j < L => FrameAt(buf, j)' /\ UnderAt(buf, j)'
  BY <1>1, <1>4, <1>5, <1>10, <1>11, <1>12, StaysBelow
<1>14. PICK z : z = states'[L]
  OBVIOUS
<1>15. Same(z, x) /\ z.requiredMask = x.requiredMask \cup Bit(tok)
  BY <1>1, <1>4, <1>5, <1>10, <1>14 DEF Below
<1>16. /\ Kept(buf, x, cur) /\ (initialized => SoundTo(buf, x, cur))
       /\ ~unreported /\ deepest <= RecursionLimit => Reported(buf, x, cur)
  <2>1. FrameAt(buf, L)
    BY <1>5, <1>12
  <2> QED
    BY <1>4, <1>5, <2>1, Zenon DEF FrameAt
<1>17. z.typ = "map" => z.requiredMask # {}
  <2>1. SUFFICES ASSUME z.typ = "map" PROVE 0 \in z.requiredMask
    OBVIOUS
  <2>2. x.typ = "map"
    BY <1>15, <2>1 DEF Same
  <2>3. FieldIn(x, tok.num).typ \in {"message", "group", "map"} /\ tok.wtyp \in Expects(FieldIn(x, tok.num).typ)
    BY <1>1, <1>4 DEF ChildOf, validationState
  <2>4. tok.num = 2
    BY <2>2, <2>3, EntryFields
  <2>5. Bit(tok) = {0 : i \in {2} \cap {tok.num}}
    BY <1>4, <2>2, <2>3 DEF Bit, vi
  <2>6. 0 \in Bit(tok)
    BY <2>4, <2>5
  <2> QED
    BY <1>15, <2>6
<1>18. FrameAt(buf, L)'
  <2>1. FrameOK(buf, x) /\ x.slice[2] = Len(input) + b
    BY <1>1, <1>2, <1>3, <1>4, <1>5, FrameIs DEF Stack
  <2>2. Track(buf, x, cur) /\ MaskOK(buf, x, x.requiredMask) /\ cur < x.slice[2]
    BY <1>1, <1>3, <1>6, <1>16, <2>1 DEF Kept
  <2>3. cur \in Records(buf, x.slice)
    BY <1>2, <2>1, <2>2, TrackFacts
  <2>4. MaskOK(buf, x, z.requiredMask)
    BY <1>4, <1>6, <1>15, <2>2, <2>3, BitSeen
  <2>5. Kept(buf, z, cur)
    BY <1>15, <1>17, <2>2, <2>4, SameKnown DEF Kept
  <2>6. initialized' => SoundTo(buf, z, cur)
    BY <1>10, <1>15, <1>16, SameKnown
  <2>7. ~unreported' /\ deepest' <= RecursionLimit => Reported(buf, z, cur)
    BY <1>11, <1>15, <1>16, SameKnown DEF Weakens
  <2> QED
    BY <1>8, <1>14, <2>5, <2>6, <2>7, FrameSet
<1>19. UnderAt(buf, L)'
  <2>1. ASSUME ~unreported'
        PROVE  Told(buf, z, cur)
    <3>1. ~Unreported(tok)
      BY <1>10, <2>1, Zenon
    <3>2. CASE x.typ = "map"
      <4>1. x.requiredMask = {} /\ z.typ = "map"
        BY <1>4, <1>15, <3>1, <3>2 DEF Unreported, Same
      <4>2. NoValue(buf, x, cur)
        BY <1>16, <3>2, <4>1, Zenon DEF Kept
      <4>3. NoValue(buf, z, cur)
        BY <1>15, <4>2, SameKnown
      <4> QED
        BY <4>1, <4>3 DEF Told
    <3>3. CASE x.typ # "map"
      <4>1. PICK f : f = FieldIn(x, tok.num)
        OBVIOUS
      <4>2. HasInit(f) \/ f.mi \notin CanLack
        BY <1>4, <3>1, <3>3, <4>1, Zenon DEF Unreported, vi
      <4>3. z.typ # "map" /\ f = FieldIn(z, tok.num)
        BY <1>15, <3>3, <4>1 DEF Same, FieldIn
      <4> QED
        BY <1>6, <4>2, <4>3, Zenon DEF Told
    <3> QED
      BY <3>2, <3>3
  <2>2. PICK c : c = Cur(L)'
    OBVIOUS
  <2>3. (z.typ = "map" => z.requiredMask # {}) /\ (~unreported' => Told(buf, z, c))
    BY <1>8, <1>17, <2>1, <2>2
  <2> QED
    BY <1>14, <2>2, <2>3 DEF UnderAt
<1>20. FrameAt(buf, L + 1)'
  <2>1. PICK c : c = Cur(L + 1)'
    OBVIOUS
  <2>2. /\ Kept(buf, y, c) /\ SoundTo(buf, y, c)
        /\ y.level <= RecursionLimit => Reported(buf, y, c)
    BY <1>1, <1>2, <1>7, <1>8, <2>1, FrameBegun
  <2>3. deepest' <= RecursionLimit => y.level <= RecursionLimit
    BY <1>1, <1>3, ValidateAssumption
  <2>4. y = states'[L + 1]
    BY <1>1, <1>4
  <2> QED
    BY <2>1, <2>2, <2>3, <2>4, FrameSet
<1>21. ASSUME NEW j \in 1 .. Len(states')
       PROVE  FrameAt(buf, j)' /\ (j < Len(states') => UnderAt(buf, j)')
  <2>1. (j \in 1 .. L /\ j < L) \/ j = L \/ (j = L + 1 /\ ~(j < Len(states')))
    BY <1>5
  <2>2. CASE j \in 1 .. L /\ j < L
    BY <1>13, <2>2
  <2>3. CASE j = L
    BY <1>18, <1>19, <2>3
  <2>4. CASE j = L + 1 /\ ~(j < Len(states'))
    BY <1>20, <2>4
  <2> QED
    BY <2>1, <2>2, <2>3, <2>4
<1> QED
  BY <1>1, <1>21 DEF Progress

-----------------------------------------------------------------------------
(* The steps that end the top of the stack. *)

LEMMA ContentsNoCheck ==
  ASSUME NEW buf \in Seq(Token), NEW x, FrameOK(buf, x), x.mi \notin CanLack
  PROVE  ContentsGood(buf, x.typ, x.mi, x.slice)
<1>1. x.slice \in Slices(buf) /\ x.mi \in DOMAIN Schema
  BY FrameSlice
<1>2. {x.slice} \in SUBSET Slices(buf)
  BY <1>1
<1>3. Occurrences(buf, {x.slice}, 2, "message") \in SUBSET Slices(buf)
  BY <1>2, OccurrencesType
<1>4. Good(buf, x.mi, {x.slice}) /\ Good(buf, x.mi, Occurrences(buf, {x.slice}, 2, "message"))
  BY <1>1, <1>2, <1>3, GoodNoCheck
<1> QED
  BY <1>4, Zenon DEF ContentsGood

(* What the decoder reports as initialized at the end of a state is. *)
LEMMA ReportGood ==
  ASSUME NEW buf \in Seq(Token), NEW x, FrameOK(buf, x), NEW cur, Last(buf, x, cur), NEW s,
         x.typ # "map" => MaskOK(buf, x, s.mask), s.initialized => Clean(buf, x, cur), Reports(x, s)
  PROVE  ContentsGood(buf, x.typ, x.mi, x.slice)
<1>1. CASE x.typ # "map"
  <2>1. s.initialized /\ AllSeen(s.mask, numRequiredFields(x.mi))
    BY <1>1, Zenon DEF Reports
  <2>2. SoundTo(buf, x, cur)
    BY <2>1 DEF Clean
  <2>3. AllSeen(s.mask, Needs(x))
    BY <1>1, <2>1 DEF Needs
  <2> QED
    BY <1>1, <2>2, <2>3, FrameGood
<1>2. CASE x.typ = "map"
  <2>1. s.initialized
    BY <1>2, Zenon DEF Reports
  <2>2. SoundTo(buf, x, cur) /\ ~NoValue(buf, x, cur)
    BY <1>2, <2>1 DEF Clean
  <2>3. Seen(buf, x, 2)
    BY <1>2, <2>2, ValueSeen
  <2>4. Good(buf, x.mi, Occurrences(buf, {x.slice}, 2, "message"))
    BY <1>2, <2>2, <2>3, EntryGood
  <2> QED
    BY <1>2, <2>4 DEF ContentsGood
<1> QED
  BY <1>1, <1>2

(* The loop of the state y above x has ended, at m. *)
LEMMA ReportedChild ==
  ASSUME NEW buf \in Seq(Token), NEW x, Ready(buf, x), NEW cur, Track(buf, x, cur), Reported(buf, x, cur),
         Told(buf, x, cur), cur < x.slice[2], NEW tok, tok = buf[cur + 1],
         NEW y, FrameOK(buf, y), ChildOf(x, y, tok, cur + 1), y.level <= RecursionLimit,
         NEW m, Moves(buf, x, cur, m), y.typ # "group" => m = y.slice[2],
         NEW ok, FrameLoop(buf, y, Sub(buf, y)) = Done(m, ok), ok => ContentsGood(buf, y.typ, y.mi, y.slice)
  PROVE  Reported(buf, x, m)
<1>1. PICK s : /\ RunsTo(buf, x, s) /\ s.n = cur /\ (x.typ # "map" => MaskOK(buf, x, s.mask))
               /\ s.initialized => Clean(buf, x, cur)
  BY Zenon DEF Reported
<1>2. FrameOK(buf, x) /\ m > cur
  BY DEF Ready, Moves
<1>3. cur \in 0 .. Len(buf) /\ cur \in Records(buf, x.slice)
  BY <1>2, TrackFacts
<1>4. PICK c, v : c = FrameLoop(buf, y, Sub(buf, y)) /\ v = Result(y, c)
  OBVIOUS
<1>5. c.err = "none" /\ c.n = m /\ c.initialized = ok
  BY <1>4 DEF Done
<1>6. v.err = "none" /\ v.n = m /\ v.initialized = ok
  BY <1>4, <1>5 DEF Result, Done
<1>7. s.n < x.slice[2] /\ tok = buf[s.n + 1] /\ ChildOf(x, y, tok, s.n + 1) /\ Result(y, c).n > s.n
  BY <1>1, <1>2, <1>4, <1>6
<1>8. PICK r : RunsTo(buf, x, r) /\ r.n = v.n /\ Advanced(x, s, tok, v, r)
  BY <1>1, <1>4, <1>5, <1>7, RunsChild
<1>9. /\ x.typ # "map" => r.mask = s.mask \cup FrameBit(x, tok)
      /\ x.typ = "map" => (r.initialized <=> s.initialized \/ (tok.num = 2 /\ v.initialized))
      /\ x.typ # "map" =>
            (r.initialized <=> s.initialized /\ (v.initialized \/ ~HasInit(FieldIn(x, tok.num))))
  BY <1>6, <1>8, Zenon DEF Advanced
<1>10. tok.wtyp \in Expects(FieldIn(x, tok.num).typ) /\ y.mi = FieldIn(x, tok.num).mi
  BY DEF ChildOf
<1>11. x.typ # "map" => MaskOK(buf, x, r.mask)
  <2>1. SUFFICES ASSUME x.typ # "map" PROVE MaskOK(buf, x, r.mask)
    OBVIOUS
  <2>2. r.mask = s.mask \cup requiredBit(x.mi, tok.num)
    BY <1>9, <1>10, <2>1 DEF FrameBit
  <2>3. MaskOK(buf, x, s.mask)
    BY <1>1, <2>1
  <2> QED
    BY <1>3, <1>10, <2>1, <2>2, <2>3, MaskMarks
<1>12. ContentsGood(buf, y.typ, y.mi, y.slice) => Sound(buf, x, cur)
  BY <1>2, <1>3, SoundChild
<1>13. r.initialized => Clean(buf, x, m)
  <2>1. SUFFICES ASSUME r.initialized PROVE Clean(buf, x, m)
    OBVIOUS
  <2>2. CASE x.typ # "map"
    <3>a. HasInit(FieldIn(x, tok.num)) \/ FieldIn(x, tok.num).mi \notin CanLack
      BY <2>2, Zenon DEF Told
    <3>1. s.initialized /\ (ok \/ y.mi \notin CanLack)
      BY <1>6, <1>9, <1>10, <2>1, <2>2, <3>a, Zenon
    <3>2. ContentsGood(buf, y.typ, y.mi, y.slice)
      BY <3>1, ContentsNoCheck
    <3>3. Clean(buf, x, cur) /\ Sound(buf, x, cur)
      BY <1>1, <1>12, <3>1, <3>2
    <3> QED
      BY <1>2, <3>3, CleanOn
  <2>3. CASE x.typ = "map"
    <3>1. NoValue(buf, x, cur)
      BY <2>3 DEF Told
    <3>2. ~s.initialized
      BY <1>1, <2>3, <3>1 DEF Clean
    <3>3. tok.num = 2 /\ ok
      BY <1>6, <1>9, <2>1, <2>3, <3>2, Zenon
    <3>4. Sound(buf, x, cur) /\ SoundTo(buf, x, cur)
      BY <1>12, <2>3, <3>1, <3>3, NoValueSound
    <3>5. SoundTo(buf, x, m)
      BY <1>2, <3>4, SoundOn
    <3>6. OfField(buf, cur, 2, "message")
      <4>1. FieldIn(x, 2).typ = "message"
        BY <2>3, EntryFields
      <4> QED
        BY <1>10, <3>3, <4>1 DEF OfField
    <3>7. ~NoValue(buf, x, m)
      BY <1>2, <3>6, NoValueOn
    <3> QED
      BY <3>5, <3>7 DEF Clean
  <2> QED
    BY <2>2, <2>3
<1>14. r.n = m
  BY <1>6, <1>8
<1> QED
  BY <1>8, <1>11, <1>13, <1>14, Zenon DEF Reported

(* The top of the stack x, that ends. *)
TopEnds(buf, x, cur, m) ==
  /\ FrameOK(buf, x) /\ Track(buf, x, cur) /\ cur \in Nat /\ m \in Nat
  /\ \/ x.typ # "group" /\ m = x.slice[2]
     \/ x.typ = "group" /\ cur < x.slice[2] /\ m = cur + 1 /\ buf[cur + 1].wtyp = "end" /\ buf[cur + 1].num = x.endGroup
  /\ initialized' => initialized /\ ContentsGood(buf, x.typ, x.mi, x.slice)
  /\ ~unreported' /\ deepest <= RecursionLimit =>
        \E ok : FrameLoop(buf, x, Sub(buf, x)) = Done(m, ok) /\ (ok => ContentsGood(buf, x.typ, x.mi, x.slice))

LEMMA EndIsLast ==
  ASSUME TypeOK, TypeOK', Layout, NEW tok, EndedByTag(tok) \/ EndedBySlice, NEW buf, Completion(buf)',
         NEW x, x = st, NEW cur, cur = Len(input), NEW m, m = Len(input')
  PROVE  /\ cur = x.slice[2] \/ (cur < x.slice[2] /\ buf[cur + 1].wtyp = "end")
         /\ \/ x.typ # "group" /\ m = x.slice[2]
            \/ /\ x.typ = "group" /\ cur < x.slice[2] /\ m = cur + 1
               /\ buf[cur + 1].wtyp = "end" /\ buf[cur + 1].num = x.endGroup
         /\ \A s : Ready(buf, x) /\ RunsTo(buf, x, s) /\ s.n = cur =>
               FrameLoop(buf, x, Sub(buf, x)) = Done(m, Reports(x, s))
<1>1. result = "run"
  BY DEF EndedByTag, EndedBySlice, Reads, Ends
<1>2. /\ Stack /\ Len(states) \in Nat \ {0} /\ Len(input) \in Nat /\ b \in Nat /\ x.slice[2] = Len(input) + b
      /\ Placed(Len(states))
  BY <1>1, Running DEF Stack
<1>3. x.typ = "group" <=> x.endGroup # 0
  BY <1>2 DEF Placed, st
<1>4. CASE EndedBySlice
  <2>1. b = 0 /\ m = cur /\ x.endGroup = 0
    BY <1>4 DEF EndedBySlice, Ends
  <2>2. cur = x.slice[2] /\ x.typ # "group" /\ m = x.slice[2]
    BY <1>2, <1>3, <2>1
  <2>3. ASSUME NEW s, Ready(buf, x), RunsTo(buf, x, s), s.n = cur
        PROVE  FrameLoop(buf, x, Sub(buf, x)) = Done(m, Reports(x, s))
    BY <2>1, <2>2, <2>3, RunsDone
  <2> QED
    BY <2>2, <2>3
<1>5. CASE EndedByTag(tok)
  <2>1. Reads(tok, 0) /\ tok.wtyp = "end" /\ x.endGroup = tok.num /\ 0 < b /\ tok.num \in Nat \ {0}
    BY <1>5 DEF EndedByTag, Reads, Token
  <2>2. buf[cur + 1] = tok
    BY <2>1, CompletionHas
  <2>3. m = Len(input) + 1 + 0
    BY <2>1 DEF Reads
  <2>4. m = cur + 1 /\ cur < x.slice[2] /\ x.typ = "group"
    BY <1>2, <1>3, <2>1, <2>3
  <2>5. ASSUME NEW s, Ready(buf, x), RunsTo(buf, x, s), s.n = cur
        PROVE  FrameLoop(buf, x, Sub(buf, x)) = Done(m, Reports(x, s))
    BY <2>1, <2>2, <2>4, <2>5, RunsDone
  <2> QED
    BY <2>1, <2>2, <2>4, <2>5
<1> QED
  BY <1>4, <1>5

LEMMA TopEnded ==
  ASSUME TypeOK, TypeOK', Layout, NEW tok, EndedByTag(tok) \/ EndedBySlice, Marking(tok), NEW buf, Completion(buf)',
         Progress(buf), NEW x, x = st, NEW cur, cur = Len(input), NEW m, m = Len(input')
  PROVE  TopEnds(buf, x, cur, m)
<1>1. Grows /\ Pops /\ result = "run" /\ skip = <<>>
  BY DEF EndedByTag, EndedBySlice, Reads, Ends, Pops
<1>2. Completion(buf) /\ buf \in Seq(Token)
  BY <1>1, CompletionBack DEF Completion
<1>3. /\ Len(states) \in Nat \ {0} /\ Len(states) \in 1 .. Len(states) /\ cur \in Nat /\ m \in Nat /\ x = states[Len(states)]
      /\ Cur(Len(states)) = cur
  BY <1>1, Running DEF TypeOK, st, Cur
<1>4. FrameOK(buf, x) /\ (deepest <= RecursionLimit => Ready(buf, x))
  BY <1>1, <1>2, <1>3, FrameIs
<1>5. FrameAt(buf, Len(states))
  BY <1>1, <1>3 DEF Progress
<1>6. /\ Kept(buf, x, cur) /\ (initialized => SoundTo(buf, x, cur))
      /\ ~unreported /\ deepest <= RecursionLimit => Reported(buf, x, cur)
  BY <1>3, <1>5, Zenon DEF FrameAt
<1>7. Track(buf, x, cur) /\ MaskOK(buf, x, x.requiredMask)
  BY <1>6 DEF Kept
<1>8. Last(buf, x, cur)
  BY <1>2, <1>4, <1>7, EndIsLast, LastAt
<1>9. unreported' = unreported /\ initialized' = (initialized /\ AllSeen(x.requiredMask, Needs(x)))
  <2>1. ~(Len(states') >= Len(states))
    BY <1>1, <1>3 DEF Pops
  <2>2. Judges
    BY <2>1 DEF Marking, Marks
  <2>3. NumRequired = Needs(x)
    BY DEF NumRequired, Needs
  <2> QED
    BY <2>2, <2>3, Zenon DEF Judges
<1>10. initialized' => initialized /\ ContentsGood(buf, x.typ, x.mi, x.slice)
  <2>1. SUFFICES ASSUME initialized' PROVE initialized /\ ContentsGood(buf, x.typ, x.mi, x.slice)
    OBVIOUS
  <2>2. initialized /\ AllSeen(x.requiredMask, Needs(x))
    BY <1>9, <2>1, Zenon
  <2>3. SoundTo(buf, x, cur)
    BY <1>6, <2>2
  <2> QED
    BY <1>2, <1>4, <1>7, <1>8, <2>2, <2>3, FrameGood
<1>11. ASSUME ~unreported', deepest <= RecursionLimit
       PROVE  \E ok : FrameLoop(buf, x, Sub(buf, x)) = Done(m, ok) /\ (ok => ContentsGood(buf, x.typ, x.mi, x.slice))
  <2>1. Reported(buf, x, cur) /\ Ready(buf, x)
    BY <1>4, <1>6, <1>9, <1>11
  <2>2. PICK s : /\ RunsTo(buf, x, s) /\ s.n = cur /\ (x.typ # "map" => MaskOK(buf, x, s.mask))
                 /\ s.initialized => Clean(buf, x, cur)
    BY <2>1, Zenon DEF Reported
  <2>3. PICK ok : ok = Reports(x, s)
    OBVIOUS
  <2>4. FrameLoop(buf, x, Sub(buf, x)) = Done(m, ok)
    BY <2>1, <2>2, <2>3, EndIsLast
  <2>5. ok => ContentsGood(buf, x.typ, x.mi, x.slice)
    BY <1>2, <1>4, <1>8, <2>2, <2>3, ReportGood
  <2> QED
    BY <2>4, <2>5
<1>12. \/ x.typ # "group" /\ m = x.slice[2]
       \/ x.typ = "group" /\ cur < x.slice[2] /\ m = cur + 1 /\ buf[cur + 1].wtyp = "end" /\ buf[cur + 1].num = x.endGroup
  BY EndIsLast
<1> QED
  BY <1>3, <1>4, <1>7, <1>10, <1>11, <1>12 DEF TopEnds

LEMMA ProgressDone ==
  ASSUME TypeOK, TypeOK', Layout, NEW tok, EndedByTag(tok) \/ EndedBySlice, Marking(tok), NEW buf, Completion(buf)',
         Progress(buf), Len(states) = 1
  PROVE  Progress(buf)'
<1>1. Grows /\ Pops /\ result = "run"
  BY DEF EndedByTag, EndedBySlice, Reads, Ends
<1>2. result' = "valid" /\ deepest' = deepest /\ total' = total /\ Completion(buf) /\ Whole(buf)' = Whole(buf)
  BY <1>1, CompletionBack DEF Pops, Grows
<1>3. PICK x, cur, m : x = st /\ cur = Len(input) /\ m = Len(input')
  OBVIOUS
<1>4. TopEnds(buf, x, cur, m)
  BY <1>3, TopEnded
<1>5. x = states[1] /\ x.slice = <<0, total>> /\ x.mi = Top /\ x.typ # "map"
  BY <1>1, <1>3 DEF st, Layout, Stack, Root
<1>6. ContentsGood(buf, x.typ, x.mi, x.slice) => WholeGood(buf)'
  BY <1>2, <1>5 DEF ContentsGood, WholeGood
<1>7. initialized' => WholeGood(buf)'
  BY <1>4, <1>6, Zenon DEF TopEnds
<1>8. ~unreported' /\ deepest' <= RecursionLimit /\ Whole(buf)'.initialized => WholeGood(buf)'
  <2>1. SUFFICES ASSUME ~unreported', deepest' <= RecursionLimit, Whole(buf)'.initialized PROVE WholeGood(buf)'
    OBVIOUS
  <2>2. PICK ok : FrameLoop(buf, x, Sub(buf, x)) = Done(m, ok) /\ (ok => ContentsGood(buf, x.typ, x.mi, x.slice))
    BY <1>2, <1>4, <2>1, Zenon DEF TopEnds
  <2>3. Whole(buf) = Done(m, ok)
    BY <1>1, <1>2, <1>5, <2>2, RootLoop
  <2>4. Done(m, ok).initialized = ok
    BY DEF Done
  <2>5. ok
    BY <1>2, <2>1, <2>3, <2>4
  <2> QED
    BY <1>6, <2>2, <2>5
<1> QED
  BY <1>2, <1>7, <1>8 DEF Progress

LEMMA ProgressPopped ==
  ASSUME TypeOK, TypeOK', Layout, NEW tok, EndedByTag(tok) \/ EndedBySlice, Marking(tok), NEW buf, Completion(buf)',
         Progress(buf), Len(states) # 1
  PROVE  Progress(buf)'
<1>1. Grows /\ Pops /\ result = "run" /\ skip = <<>> /\ skip' = <<>>
  BY DEF EndedByTag, EndedBySlice, Reads, Ends, Pops
<1>2. Completion(buf) /\ buf \in Seq(Token)
  BY <1>1, CompletionBack DEF Completion
<1>3. /\ deepest' = deepest /\ Len(states') = Len(states) - 1 /\ result' = "run"
      /\ \A j \in 1 .. Len(states) - 1 : states'[j] = states[j]
  BY <1>1 DEF Pops
<1>4. PICK y, c, m, L : y = st /\ c = Len(input) /\ m = Len(input') /\ L = Len(states) - 1
  OBVIOUS
<1>5. /\ L \in Nat \ {0} /\ L + 1 = Len(states) /\ L \in 1 .. Len(states) /\ L < Len(states) /\ L = Len(states')
      /\ L + 1 \in 1 .. Len(states)
  BY <1>1, <1>3, <1>4, Running
<1>6. TopEnds(buf, y, c, m)
  BY <1>4, TopEnded
<1>7. unreported' = unreported
  <2>1. ~(Len(states') >= Len(states))
    BY <1>5
  <2> QED
    BY <2>1 DEF Marking, Marks, Judges
<1>8. Weakens
  BY <1>3, <1>6, <1>7 DEF Weakens, TopEnds
<1>9. Below(L)
  <2>1. \A j \in 1 .. L : Same(states[j], states[j])
    BY Zenon DEF Same
  <2> QED
    BY <1>3, <1>4, <1>5, <2>1 DEF Below
<1>10. \A j \in 1 .. Len(states) : FrameAt(buf, j) /\ (j < Len(states) => UnderAt(buf, j))
  BY <1>1 DEF Progress
<1>11. \A j \in 1 .. L : states'[j] = states[j]
  BY <1>3, <1>4
<1>12. \A j \in 1 .. L : j < L => FrameAt(buf, j)' /\ UnderAt(buf, j)'
  BY <1>5, <1>8, <1>9, <1>10, <1>11, StaysBelow
<1>13. PICK x, cur, t : x = states[L] /\ cur = Cur(L) /\ t = buf[cur + 1]
  OBVIOUS
<1>14. /\ cur \in Nat /\ cur < x.slice[2] /\ ChildOf(x, y, t, cur + 1) /\ y = states[L + 1]
  BY <1>1, <1>2, <1>4, <1>5, <1>13, CurFacts DEF st
<1>15. /\ FrameOK(buf, x) /\ FrameOK(buf, y) /\ (deepest <= RecursionLimit => Ready(buf, x) /\ Ready(buf, y))
  BY <1>1, <1>2, <1>5, <1>13, <1>14, FrameIs
<1>16. /\ Kept(buf, x, cur) /\ (initialized => SoundTo(buf, x, cur))
       /\ ~unreported /\ deepest <= RecursionLimit => Reported(buf, x, cur)
       /\ x.typ = "map" => x.requiredMask # {}
       /\ ~unreported => Told(buf, x, cur)
  <2>1. FrameAt(buf, L) /\ UnderAt(buf, L)
    BY <1>5, <1>10
  <2> QED
    BY <1>13, <2>1, Zenon DEF FrameAt, UnderAt
<1>17. Track(buf, x, cur) /\ MaskOK(buf, x, x.requiredMask)
  BY <1>16 DEF Kept
<1>18. cur \in 0 .. Len(buf)
  BY <1>2, <1>15, <1>17, TrackFacts
<1>19. Moves(buf, x, cur, m)
  <2>1. /\ Track(buf, y, c) /\ m \in Nat
        /\ \/ y.typ # "group" /\ m = y.slice[2]
           \/ y.typ = "group" /\ c < y.slice[2] /\ m = c + 1 /\ buf[c + 1].wtyp = "end" /\ buf[c + 1].num = y.endGroup
    BY <1>6, Zenon DEF TopEnds
  <2> QED
    BY <1>2, <1>13, <1>14, <1>15, <1>18, <2>1, MovesChild
<1>20. states'[L] = x /\ Cur(L)' = m
  BY <1>1, <1>4, <1>5, <1>11, <1>13 DEF Cur
<1>21. Kept(buf, x, m)
  <2>1. Same(x, x)
    BY DEF Same
  <2> QED
    BY <1>2, <1>15, <1>16, <1>17, <1>19, <2>1, KeptOn
<1>22. initialized' => SoundTo(buf, x, m)
  <2>1. SUFFICES ASSUME initialized' PROVE SoundTo(buf, x, m)
    OBVIOUS
  <2>2. initialized /\ ContentsGood(buf, y.typ, y.mi, y.slice)
    BY <1>6, <2>1, Zenon DEF TopEnds
  <2>3. Sound(buf, x, cur) /\ SoundTo(buf, x, cur)
    BY <1>2, <1>13, <1>14, <1>15, <1>16, <1>18, <2>2, SoundChild
  <2> QED
    BY <1>2, <1>15, <1>17, <1>19, <2>3, SoundOn
<1>23. ~unreported' /\ deepest' <= RecursionLimit => Reported(buf, x, m)
  <2>1. SUFFICES ASSUME ~unreported', deepest' <= RecursionLimit PROVE Reported(buf, x, m)
    OBVIOUS
  <2>2. ~unreported /\ deepest <= RecursionLimit
    BY <1>3, <1>7, <2>1
  <2>3. PICK ok : FrameLoop(buf, y, Sub(buf, y)) = Done(m, ok) /\ (ok => ContentsGood(buf, y.typ, y.mi, y.slice))
    BY <1>6, <2>1, <2>2, Zenon DEF TopEnds
  <2>4. Ready(buf, x) /\ y.level <= RecursionLimit /\ Reported(buf, x, cur) /\ Told(buf, x, cur)
    BY <1>15, <1>16, <2>2 DEF Ready
  <2>5. y.typ # "group" => m = y.slice[2]
    BY <1>6, Zenon DEF TopEnds
  <2> QED
    BY <1>2, <1>13, <1>14, <1>15, <1>17, <1>19, <2>3, <2>4, <2>5, ReportedChild
<1>24. FrameAt(buf, L)'
  BY <1>20, <1>21, <1>22, <1>23, FrameSet
<1>25. \A j \in 1 .. L : j < L \/ j = L
  BY <1>5
<1>26. \A j \in 1 .. L : FrameAt(buf, j)' /\ (j < L => UnderAt(buf, j)')
  BY <1>12, <1>24, <1>25
<1> QED
  BY <1>3, <1>5, <1>26 DEF Progress

-----------------------------------------------------------------------------
(* The invariant. *)

Progressing == \A buf : Completion(buf) => Progress(buf)

LEMMA StepProgress ==
  ASSUME TypeOK, TypeOK', Layout, Agreement, Progressing, NEW tok, NEW n, NEW y, Kinds(tok, n, y), Marking(tok)
  PROVE  Progressing'
<1>1. Grows
  BY DEF Kinds, Passed, Opened, SkippedOver, Closed, Entered, EndedByTag, EndedBySlice, Refuses, Truncated, Unsure, Reads, Ends
<1>2. SUFFICES ASSUME NEW buf, Completion(buf)'
               PROVE  Progress(buf)'
  BY DEF Progressing
<1>3. Agrees(buf) /\ Progress(buf)
  BY <1>1, <1>2, CompletionBack DEF Agreement, Progressing
<1>4. CASE Passed(tok, n)
  BY <1>2, <1>3, <1>4, ProgressPassed
<1>5. CASE Opened(tok)
  BY <1>2, <1>3, <1>5, ProgressOpened
<1>6. CASE SkippedOver(tok, n)
  BY <1>2, <1>3, <1>6, ProgressSkipped
<1>7. CASE Closed(tok)
  BY <1>2, <1>3, <1>7, ProgressClosed
<1>8. CASE Entered(tok, y)
  BY <1>2, <1>3, <1>8, ProgressEntered
<1>9. CASE EndedByTag(tok) \/ EndedBySlice
  BY <1>2, <1>3, <1>9, ProgressDone, ProgressPopped
<1>10. CASE Refuses(tok) \/ Truncated \/ Unsure(tok)
  <2>1. result' # "run" /\ result' # "valid"
    BY <1>10 DEF Refuses, Truncated, Unsure, Stops
  <2> QED
    BY <2>1 DEF Progress
<1> QED
  BY <1>4, <1>5, <1>6, <1>7, <1>8, <1>9, <1>10 DEF Kinds

LEMMA InitProgress ==
  ASSUME Init
  PROVE  Progressing
<1>1. TypeOK /\ Layout /\ result = "run" /\ skip = <<>> /\ deepest = 1 /\ input = <<>>
  BY InitLayout DEF Init
<1>2. SUFFICES ASSUME NEW buf, Completion(buf)
               PROVE  Progress(buf)
  BY DEF Progressing
<1>3. Len(states) = 1 /\ states[1].requiredMask = {}
  BY DEF Init, State
<1>4. PICK x, cur : x = states[1] /\ cur = Cur(1)
  OBVIOUS
<1>5. FrameOK(buf, x) /\ buf \in Seq(Token)
  <2>1. 1 \in 1 .. Len(states)
    BY <1>3
  <2> QED
    BY <1>1, <1>2, <1>4, <2>1, FrameIs DEF Completion
<1>6. x.slice[1] = 0 /\ x.level = 1
  BY <1>1, <1>4 DEF Layout, Stack, Root
<1>7. cur = x.slice[1]
  BY <1>1, <1>3, <1>4, <1>6 DEF Cur
<1>8. x.level <= RecursionLimit
  BY <1>6, ValidateAssumption
<1>9. Kept(buf, x, cur) /\ SoundTo(buf, x, cur) /\ Reported(buf, x, cur)
  BY <1>3, <1>4, <1>5, <1>7, <1>8, FrameBegun
<1>10. FrameAt(buf, 1)
  BY <1>4, <1>9 DEF FrameAt
<1>11. \A j \in 1 .. Len(states) : j = 1 /\ ~(j < Len(states))
  BY <1>3
<1>12. \A j \in 1 .. Len(states) : FrameAt(buf, j) /\ (j < Len(states) => UnderAt(buf, j))
  BY <1>10, <1>11
<1> QED
  BY <1>1, <1>12 DEF Progress

(* The inductive invariant: what every buffer that begins with the records  *)
(* read will decode to, and that what was read of it is initialized as far  *)
(* as validate and the decoder have not noticed otherwise.                  *)
ProgressInv == AgreesInv /\ Progressing

LEMMA ProgressInvStep ==
  ASSUME ProgressInv, [Next]_vars
  PROVE  ProgressInv'
<1>1. TypeOK /\ Layout /\ Agreement /\ Progressing /\ AgreesInv
  BY DEF ProgressInv, AgreesInv
<1>2. AgreesInv' /\ TypeOK'
  BY <1>1, AgreesInvStep, StepKeepsLayout
<1>3. CASE Next
  <2>1. PICK tok, n, y : Kinds(tok, n, y) /\ Marking(tok)
    BY <1>1, <1>3, StepMarks
  <2>2. Progressing'
    BY <1>1, <1>2, <2>1, StepProgress
  <2> QED
    BY <1>2, <2>2 DEF ProgressInv
<1>4. CASE vars' = vars
  <2>1. Progressing' = Progressing
    BY <1>4 DEF vars, Progressing, Completion, Progress, FrameAt, UnderAt, Whole, WholeGood, Cur
  <2> QED
    BY <1>1, <1>2, <2>1 DEF ProgressInv
<1> QED
  BY <1>3, <1>4

(* At every step of validate, the fields that were read of each state of   *)
(* the stack are initialized unless it has noticed a missing one, and the   *)
(* decoder, as far as it has come in the same records, has noticed it too.  *)
THEOREM ProgressTheorem == Spec => []ProgressInv
<1>1. Init => ProgressInv
  BY InitLayout, InitAgrees, InitProgress DEF ProgressInv, AgreesInv
<1>2. ProgressInv /\ [Next]_vars => ProgressInv'
  BY ProgressInvStep
<1> QED
  BY <1>1, <1>2, PTL DEF Spec

LEMMA WholeInitialized ==
  ASSUME TypeOK, Layout, WholeGood(Buffer)
  PROVE  IsInitialized(Top, Buffer)
<1>1. PICK buf : buf = Buffer
  OBVIOUS
<1>2. Len(buf) = total /\ total \in Nat
  BY <1>1, BufferIs DEF Completion, TypeOK
<1>3. Len(buf) + 1 \in Nat
  BY <1>2
<1>4. InitializedTo(buf)[Len(buf) + 1][Top][{<<0, total>>}]
  BY <1>1, <1>3 DEF WholeGood, Good
<1> QED
  BY <1>1, <1>2, <1>4 DEF IsInitialized

(* A buffer that validate reports as valid and initialized lacks no         *)
(* required field, in the message or in any submessage, whatever its        *)
(* records are.                                                             *)
THEOREM InitializedIsSoundTheorem == Spec => []InitializedIsSound
<1>1. ProgressInv => InitializedIsSound
  <2>1. SUFFICES ASSUME ProgressInv, result = "valid", initialized
                 PROVE  IsInitialized(Top, Buffer)
    BY DEF InitializedIsSound
  <2>2. TypeOK /\ Layout /\ Progressing
    BY <2>1 DEF ProgressInv, AgreesInv
  <2>3. Progress(Buffer)
    BY <2>2, BufferIs DEF Progressing
  <2>4. WholeGood(Buffer)
    BY <2>1, <2>3 DEF Progress
  <2> QED
    BY <2>2, <2>4, WholeInitialized
<1> QED
  BY <1>1, ProgressTheorem, PTL

(* What unmarshalPointerEager reports as initialized, of a buffer that      *)
(* validate accepts, lacks no required field either, unless a map entry     *)
(* repeats its value or it holds a message that can lack required fields in *)
(* a field without isInit: of a type for which needsInitCheck's answer is   *)
(* false, or in a member of a oneof other than the first.                   *)
THEOREM UnmarshalInitializedIsSoundTheorem == Spec => []UnmarshalInitializedIsSound
<1>1. ProgressInv => UnmarshalInitializedIsSound
  <2>1. SUFFICES ASSUME ProgressInv, result = "valid", ~unreported, Decoded.initialized
                 PROVE  IsInitialized(Top, Buffer)
    BY DEF UnmarshalInitializedIsSound
  <2>2. TypeOK /\ Layout /\ Progressing /\ Agreement
    BY <2>1 DEF ProgressInv, AgreesInv
  <2>3. Completion(Buffer) /\ Decoded = Whole(Buffer)
    BY <2>2, BufferIs
  <2>4. Progress(Buffer) /\ Agrees(Buffer)
    BY <2>2, <2>3 DEF Progressing, Agreement
  <2>5. Whole(Buffer).initialized
    BY <2>1, <2>3
  <2>6. deepest <= RecursionLimit
    <3>1. deepest <= RecursionLimit \/ deepest > RecursionLimit
      BY <2>2, ValidateAssumption DEF TypeOK
    <3>2. ~Fails("depth").initialized
      BY DEF Fails
    <3>3. deepest > RecursionLimit => Whole(Buffer) = Fails("depth")
      BY <2>4, Zenon DEF Agrees
    <3> QED
      BY <2>5, <3>1, <3>2, <3>3
  <2>7. WholeGood(Buffer)
    BY <2>1, <2>4, <2>5, <2>6, Zenon DEF Progress
  <2> QED
    BY <2>2, <2>7, WholeInitialized
<1> QED
  BY <1>1, ProgressTheorem, PTL
=============================================================================
