------------------------ MODULE NeedsInitCheck_proofs ------------------------
(***************************************************************************)
(* Proofs that the safety properties of NeedsInitCheck hold for every set  *)
(* of message types, every message graph and every number of callers.      *)
(***************************************************************************)
EXTENDS NeedsInitCheck, SequenceTheorems, TLAPS

(* Exactly the holder of needsInitCheckMu runs the exploration.             *)
HolderRuns == \A c \in Callers : pc[c] = "run" <=> mu = c

(* Each frame was entered through the field its caller's loop stands at.    *)
StackLinked ==
  \A i \in 1 .. Len(stack) - 1 :
    /\ stack[i].md \notin direct
    /\ stack[i].next \in 1 .. Len(fields[stack[i].md])
    /\ stack[i + 1].md = fields[stack[i].md][stack[i].next]

(* The fields a frame's loop has passed were answered false ...             *)
PassedFieldsAreFalse ==
  Acyclic => \A k \in DOMAIN stack :
               \A i \in 1 .. Len(fields[stack[k].md]) :
                 i < stack[k].next => cache[fields[stack[k].md][i]] = "false"

(* ... so the types cached as false use only types cached as false.         *)
FalseIsClosed ==
  Acyclic => \A m \in Messages : cache[m] = "false" =>
               /\ m \notin direct
               /\ \A i \in 1 .. Len(fields[m]) : cache[fields[m][i]] = "false"

TrueCacheSound == \A m \in Messages : cache[m] = "true" => NeedsCheck(m)

(* What a caller was told is what the map says.                             *)
AnswerIsCached ==
  \A c \in Callers : pc[c] = "idle" /\ answer[c] # "none" =>
    query[c] \in Messages /\ cache[query[c]] = answer[c]

(* The outermost frame explores what the lock's holder asked about.         *)
RootIsQuery ==
  \A c \in Callers : /\ pc[c] # "idle" => query[c] \in Messages
                     /\ mu = c => stack[1].md = query[c]

IInv ==
  /\ TypeOK /\ HolderRuns /\ MarkersAreFrames /\ StackLinked
  /\ PassedFieldsAreFalse /\ FalseIsClosed /\ TrueCacheSound /\ AnswerIsCached
  /\ RootIsQuery

-----------------------------------------------------------------------------
(* The list of field types of a message is a sequence of messages.          *)
LEMMA FieldsAreMessages ==
  ASSUME TypeOK, NEW m \in Messages
  PROVE  /\ fields[m] \in Seq(Messages)
         /\ DOMAIN fields[m] = 1 .. Len(fields[m])
         /\ \A i \in 1 .. Len(fields[m]) : fields[m][i] \in Messages
  BY FieldListsAssumption DEF TypeOK

(* A message with required fields or extension ranges of its own, or with a *)
(* field of a type that needs the check, needs the check.                   *)
LEMMA NeedsCheckStep ==
  ASSUME TypeOK, NEW m \in Messages,
         m \in direct \/ \E i \in 1 .. Len(fields[m]) : NeedsCheck(fields[m][i])
  PROVE  NeedsCheck(m)
  <1>1. SUFFICES ASSUME NEW S \in SUBSET Messages, ClosedUnderUse(S) PROVE m \in S
    BY DEF NeedsCheck
  <1>2. CASE m \in direct
    BY <1>1, <1>2 DEF ClosedUnderUse
  <1>3. CASE \E i \in 1 .. Len(fields[m]) : NeedsCheck(fields[m][i])
    <2>1. \E i \in DOMAIN fields[m] : fields[m][i] \in S
      BY <1>1, <1>3, FieldsAreMessages DEF NeedsCheck
    <2> QED BY <1>1, <2>1 DEF ClosedUnderUse
  <1> QED BY <1>2, <1>3

(* The graph never changes, and with it neither do the notions defined on   *)
(* it.                                                                      *)
LEMMA GraphIsFixed ==
  ASSUME [Next]_vars
  PROVE  /\ fields' = fields /\ direct' = direct
         /\ Acyclic' = Acyclic
         /\ \A m \in Messages : NeedsCheck(m)' = NeedsCheck(m)
  <1>1. fields' = fields /\ direct' = direct
    BY DEF Next, Explore, Load, Lock, Enter, Descend, SkipField, ReturnTrue, ReturnFalse,
           Return, graph, vars
  <1>2. Acyclic' = Acyclic
    BY <1>1 DEF Acyclic
  <1>3. \A m \in Messages : NeedsCheck(m)' = NeedsCheck(m)
    BY <1>1 DEF NeedsCheck, ClosedUnderUse
  <1> QED BY <1>1, <1>2, <1>3

(* While the lock is held the exploration has an innermost frame.           *)
LEMMA TopFrame ==
  ASSUME IInv, NEW c \in Callers, mu = c
  PROVE  /\ stack # <<>> /\ Len(stack) \in Nat \ {0}
         /\ Top \in Frames
         /\ Top.md \in Messages /\ Top.next \in Nat \ {0}
         /\ cache[Top.md] = "visiting"
         /\ Top.next <= Len(fields[Top.md]) => FieldType \in Messages
  <1>1. stack # <<>> /\ stack \in Seq(Frames)
    BY NoCallerAssumption DEF IInv, MarkersAreFrames, TypeOK
  <1>2. Len(stack) \in Nat \ {0} /\ Len(stack) \in DOMAIN stack
    BY <1>1
  <1>3. Top \in Frames
    BY <1>1, <1>2 DEF Top
  <1>4. cache[Top.md] = "visiting"
    BY <1>2, <1>3 DEF IInv, MarkersAreFrames, OnStack, Top, Frames
  <1>5. ASSUME Top.next <= Len(fields[Top.md]) PROVE FieldType \in Messages
    BY <1>3, <1>5, FieldsAreMessages DEF FieldType, IInv, Frames
  <1> QED BY <1>1, <1>2, <1>3, <1>4, <1>5 DEF Frames

(* On an acyclic graph the exploration never meets a marker: the frames     *)
(* from the marked type to the innermost one would form a cycle.            *)
LEMMA NoMarkerWhenAcyclic ==
  ASSUME IInv, Acyclic, NEW c \in Callers, mu = c, Top.next <= Len(fields[Top.md])
  PROVE  cache[FieldType] # "visiting"
  <1>1. SUFFICES ASSUME cache[FieldType] = "visiting" PROVE FALSE
    OBVIOUS
  <1>2. PICK j \in DOMAIN stack : stack[j].md = FieldType
    BY <1>1, TopFrame DEF IInv, MarkersAreFrames, OnStack
  <1> DEFINE S == {stack[k].md : k \in j .. Len(stack)}
  <1>3. stack \in Seq(Frames) /\ j \in 1 .. Len(stack)
    BY <1>2 DEF IInv, TypeOK
  <1>4. S \subseteq Messages /\ S # {}
    <2>1. \A k \in j .. Len(stack) : stack[k] \in Frames
      BY <1>3
    <2>3. \A k \in j .. Len(stack) : stack[k].md \in Messages
      BY <2>1 DEF Frames
    <2>2. stack[j].md \in S
      BY <1>3
    <2> QED BY <2>2, <2>3
  <1>5. ASSUME NEW m \in S PROVE \E i \in DOMAIN fields[m] : fields[m][i] \in S
    <2>1. PICK k \in j .. Len(stack) : m = stack[k].md
      BY <1>5
    <2>2. CASE k = Len(stack)
      <3>1. m = Top.md /\ Top.next \in DOMAIN fields[m]
        BY <2>1, <2>2, TopFrame, FieldsAreMessages DEF Top, IInv
      <3>2. fields[m][Top.next] \in S
        BY <1>2, <1>3, <3>1 DEF FieldType
      <3> QED BY <3>1, <3>2
    <2>3. CASE k < Len(stack)
      <3>1. k \in 1 .. Len(stack) - 1 /\ k + 1 \in j .. Len(stack)
        BY <1>3, <2>1, <2>3
      <3>2. stack[k].next \in DOMAIN fields[m] /\ fields[m][stack[k].next] = stack[k + 1].md
        BY <1>4, <1>5, <2>1, <3>1, FieldsAreMessages DEF IInv, StackLinked
      <3> QED BY <3>1, <3>2
    <2> QED BY <1>3, <2>1, <2>2, <2>3
  <1> HIDE DEF S
  <1> QED BY <1>4, <1>5 DEF Acyclic

-----------------------------------------------------------------------------
(* The part of the invariant that is about the map and the stack alone.     *)
Exploration ==
  /\ cache \in [Messages -> Verdicts \cup {"none", "visiting"}]
  /\ stack \in Seq(Frames)
  /\ \A m \in Messages : cache[m] = "visiting" <=> OnStack(m)
  /\ \A i, j \in DOMAIN stack : stack[i].md = stack[j].md => i = j
  /\ StackLinked /\ PassedFieldsAreFalse /\ FalseIsClosed /\ TrueCacheSound

SameGraph == fields' = fields /\ direct' = direct

(* Replacing an element of a sequence.                                      *)
LEMMA UpdateSeq ==
  ASSUME NEW S, NEW s \in Seq(S), NEW n \in 1 .. Len(s), NEW e \in S
  PROVE  /\ [s EXCEPT ![n] = e] \in Seq(S)
         /\ Len([s EXCEPT ![n] = e]) = Len(s)
         /\ DOMAIN [s EXCEPT ![n] = e] = 1 .. Len(s)
         /\ [s EXCEPT ![n] = e][n] = e
         /\ \A i \in 1 .. Len(s) : i # n => [s EXCEPT ![n] = e][i] = s[i]
  BY ExceptSeq

(* Removing the last element of a sequence.                                 *)
LEMMA PopSeq ==
  ASSUME NEW S, NEW s \in Seq(S), Len(s) \in Nat \ {0}
  PROVE  /\ SubSeq(s, 1, Len(s) - 1) \in Seq(S)
         /\ Len(SubSeq(s, 1, Len(s) - 1)) = Len(s) - 1
         /\ \A i \in 1 .. Len(s) - 1 : SubSeq(s, 1, Len(s) - 1)[i] = s[i]
  <1> DEFINE n == Len(s) - 1
  <1>1. n \in Nat /\ 1 \in Int /\ n \in Int /\ \A i \in 1 .. n : s[i] \in S
    OBVIOUS
  <1>2. /\ SubSeq(s, 1, n) \in Seq(S)
        /\ Len(SubSeq(s, 1, n)) = IF 1 <= n THEN n - 1 + 1 ELSE 0
        /\ \A i \in 1 .. n - 1 + 1 : SubSeq(s, 1, n)[i] = s[1 + i - 1]
    <2> HIDE DEF n
    <2> QED BY <1>1, SubSeqProperties
  <1>3. Len(SubSeq(s, 1, n)) = n
    <2> HIDE DEF n
    <2> QED BY <1>1, <1>2
  <1>4. \A i \in 1 .. n : SubSeq(s, 1, n)[i] = s[i]
    <2> HIDE DEF n
    <2> QED BY <1>1, <1>2
  <1> QED BY <1>2, <1>3, <1>4

LEMMA SameGraphFacts ==
  ASSUME SameGraph
  PROVE  /\ Acyclic' = Acyclic
         /\ \A m \in Messages : NeedsCheck(m)' = NeedsCheck(m)
  BY DEF SameGraph, Acyclic, NeedsCheck, ClosedUnderUse

(* Entering needsInitCheckLocked pushes a frame and marks its type.         *)
LEMMA EnterPreserves ==
  ASSUME IInv, SameGraph, NEW m \in Messages, cache[m] = "none", Enter(m),
         stack # <<>> => /\ Top.md \notin direct
                         /\ Top.next <= Len(fields[Top.md])
                         /\ m = FieldType
  PROVE  Exploration'
  <1> USE DEF SameGraph
  <1>1. /\ cache \in [Messages -> Verdicts \cup {"none", "visiting"}]
        /\ stack \in Seq(Frames)
    BY DEF IInv, TypeOK
  <1>2. Frame(m) \in Frames /\ Frame(m).md = m /\ Frame(m).next = 1
    BY DEF Frame, Frames
  <1>3. /\ cache' = [cache EXCEPT ![m] = "visiting"]
        /\ stack' = Append(stack, Frame(m))
    BY DEF Enter
  <1>4. /\ cache' \in [Messages -> Verdicts \cup {"none", "visiting"}]
        /\ stack' \in Seq(Frames)
        /\ Len(stack') = Len(stack) + 1
        /\ Len(stack) \in Nat
        /\ DOMAIN stack = 1 .. Len(stack) /\ DOMAIN stack' = 1 .. Len(stack) + 1
        /\ \A i \in 1 .. Len(stack) : stack'[i] = stack[i]
        /\ stack'[Len(stack) + 1] = Frame(m)
    BY <1>1, <1>2, <1>3
  <1>5. \A i \in 1 .. Len(stack) : /\ stack[i] \in Frames /\ stack[i].md \in Messages
                                   /\ stack[i].md # m
                                   /\ stack[i].next \in Nat \ {0}
    <2>1. \A i \in 1 .. Len(stack) : stack[i] \in Frames
      BY <1>1
    <2>2. \A i \in 1 .. Len(stack) : stack[i].md \in Messages /\ stack[i].next \in Nat \ {0}
      BY <2>1 DEF Frames
    <2>3. \A i \in 1 .. Len(stack) : cache[stack[i].md] = "visiting"
      BY <2>2, <1>4 DEF IInv, MarkersAreFrames, OnStack
    <2> QED BY <2>1, <2>2, <2>3
  <1>6. (\A n \in Messages : cache[n] = "visiting" <=> OnStack(n))'
    <2>1. SUFFICES ASSUME NEW n \in Messages PROVE (cache[n] = "visiting")' <=> OnStack(n)'
      OBVIOUS
    <2>2. CASE n = m
      BY <2>2, <1>1, <1>2, <1>3, <1>4 DEF OnStack
    <2>3. CASE n # m
      <3>1. cache'[n] = cache[n]
        BY <2>3, <1>1, <1>3
      <3>2. OnStack(n)' <=> OnStack(n)
        BY <2>3, <1>2, <1>4 DEF OnStack
      <3> QED BY <3>1, <3>2 DEF IInv, MarkersAreFrames
    <2> QED BY <2>2, <2>3
  <1>7. (\A i, j \in DOMAIN stack : stack[i].md = stack[j].md => i = j)'
    BY <1>2, <1>4, <1>5 DEF IInv, MarkersAreFrames
  <1>8. StackLinked'
    <2>1. SUFFICES ASSUME NEW i \in 1 .. Len(stack)
                   PROVE  /\ stack'[i].md \notin direct
                          /\ stack'[i].next \in 1 .. Len(fields[stack'[i].md])
                          /\ stack'[i + 1].md = fields[stack'[i].md][stack'[i].next]
      BY <1>4 DEF StackLinked
    <2>2. CASE i < Len(stack)
      BY <2>2, <1>4 DEF IInv, StackLinked
    <2>3. CASE i = Len(stack)
      <3>1. stack # <<>> /\ stack'[i] = Top /\ stack'[i + 1].md = m
        BY <2>3, <1>1, <1>2, <1>4 DEF Top
      <3>2. Top.md \in Messages /\ Top.next \in Nat \ {0} /\ fields[Top.md] \in Seq(Messages)
        BY <2>3, <1>5, FieldsAreMessages DEF Top, IInv
      <3> QED BY <3>1, <3>2 DEF FieldType
    <2> QED BY <1>4, <2>2, <2>3
  <1>9. PassedFieldsAreFalse'
    <2>1. SUFFICES ASSUME Acyclic, NEW k \in 1 .. Len(stack) + 1,
                          NEW i \in 1 .. Len(fields[stack'[k].md]), i < stack'[k].next
                   PROVE  cache'[fields[stack'[k].md][i]] = "false"
      BY <1>4, SameGraphFacts DEF PassedFieldsAreFalse
    <2>2. k # Len(stack) + 1
      BY <2>1, <1>2, <1>4
    <2>3. k \in 1 .. Len(stack) /\ stack'[k] = stack[k]
      BY <2>1, <2>2, <1>4
    <2>4. cache[fields[stack[k].md][i]] = "false" /\ fields[stack[k].md][i] \in Messages
      BY <2>1, <2>3, <1>4, <1>5, FieldsAreMessages DEF IInv, PassedFieldsAreFalse
    <2> QED BY <2>3, <2>4, <1>1, <1>3
  <1>10. FalseIsClosed'
    <2>1. SUFFICES ASSUME Acyclic, NEW n \in Messages, cache'[n] = "false"
                   PROVE  /\ n \notin direct
                          /\ \A i \in 1 .. Len(fields[n]) : cache'[fields[n][i]] = "false"
      BY SameGraphFacts DEF FalseIsClosed
    <2>2. cache[n] = "false"
      BY <2>1, <1>1, <1>3
    <2> QED BY <2>1, <2>2, <1>1, <1>3, FieldsAreMessages DEF IInv, FalseIsClosed
  <1>11. TrueCacheSound'
    <2>1. SUFFICES ASSUME NEW n \in Messages, cache'[n] = "true" PROVE NeedsCheck(n)
      BY SameGraphFacts DEF TrueCacheSound
    <2> QED BY <2>1, <1>1, <1>3 DEF IInv, TrueCacheSound
  <1> QED BY <1>4, <1>6, <1>7, <1>8, <1>9, <1>10, <1>11 DEF Exploration

(* Returning from it stores the verdict and pops the frame.                 *)
PopFrame(has) ==
  /\ cache' = [cache EXCEPT ![Top.md] = has]
  /\ stack' = SubSeq(stack, 1, Len(stack) - 1)

LEMMA ReturnPreserves ==
  ASSUME IInv, SameGraph, NEW c \in Callers, mu = c, NEW has \in Verdicts,
         PopFrame(has),
         has = "true" => NeedsCheck(Top.md),
         has = "false" => Top.md \notin direct /\ Top.next > Len(fields[Top.md])
  PROVE  Exploration'
  <1> USE DEF SameGraph
  <1> DEFINE t == Top.md
  <1>1. /\ cache \in [Messages -> Verdicts \cup {"none", "visiting"}]
        /\ stack \in Seq(Frames)
        /\ Len(stack) \in Nat \ {0} /\ t \in Messages /\ Top.next \in Nat \ {0}
        /\ cache[t] = "visiting"
    BY TopFrame DEF IInv, TypeOK
  <1>2. /\ cache' \in [Messages -> Verdicts \cup {"none", "visiting"}]
        /\ cache'[t] = has
        /\ \A n \in Messages : n # t => cache'[n] = cache[n]
    BY <1>1 DEF PopFrame
  <1>3. /\ stack' \in Seq(Frames)
        /\ Len(stack') = Len(stack) - 1
        /\ DOMAIN stack = 1 .. Len(stack) /\ DOMAIN stack' = 1 .. Len(stack) - 1
        /\ \A i \in 1 .. Len(stack) - 1 : stack'[i] = stack[i]
    BY <1>1, PopSeq DEF PopFrame
  <1>4. \A i \in 1 .. Len(stack) - 1 : stack[i].md \in Messages /\ stack[i].md # t
    <2>1. \A i \in 1 .. Len(stack) : stack[i] \in Frames
      BY <1>1
    <2>2. \A i \in 1 .. Len(stack) : stack[i].md \in Messages
      BY <2>1 DEF Frames
    <2>3. \A i \in 1 .. Len(stack) - 1 : stack[i].md # stack[Len(stack)].md
      BY <1>1, <1>3 DEF IInv, MarkersAreFrames
    <2> QED BY <2>2, <2>3, <1>1 DEF Top
  <1>5. has = "true" \/ has = "false"
    BY DEF Verdicts
  <1>6. (\A n \in Messages : cache[n] = "visiting" <=> OnStack(n))'
    <2>1. SUFFICES ASSUME NEW n \in Messages PROVE (cache[n] = "visiting")' <=> OnStack(n)'
      OBVIOUS
    <2>2. CASE n = t
      BY <2>2, <1>2, <1>3, <1>4, <1>5 DEF OnStack
    <2>3. CASE n # t
      <3>1. OnStack(n)' => OnStack(n)
        BY <1>1, <1>3 DEF OnStack
      <3>2. OnStack(n) => OnStack(n)'
        <4>1. SUFFICES ASSUME NEW i \in 1 .. Len(stack), stack[i].md = n PROVE OnStack(n)'
          BY <1>3 DEF OnStack
        <4>2. i \in 1 .. Len(stack) - 1
          BY <1>1, <2>3, <4>1 DEF Top
        <4> QED BY <1>3, <4>1, <4>2 DEF OnStack
      <3> QED BY <2>3, <3>1, <3>2, <1>2 DEF IInv, MarkersAreFrames
    <2> QED BY <2>2, <2>3
  <1>7. (\A i, j \in DOMAIN stack : stack[i].md = stack[j].md => i = j)'
    BY <1>1, <1>3 DEF IInv, MarkersAreFrames
  <1>8. StackLinked'
    <2>1. SUFFICES ASSUME NEW i \in 1 .. Len(stack) - 2
                   PROVE  /\ stack'[i].md \notin direct
                          /\ stack'[i].next \in 1 .. Len(fields[stack'[i].md])
                          /\ stack'[i + 1].md = fields[stack'[i].md][stack'[i].next]
      BY <1>1, <1>3 DEF StackLinked
    <2>2. stack'[i] = stack[i] /\ stack'[i + 1] = stack[i + 1] /\ i \in 1 .. Len(stack) - 1
      BY <1>1, <1>3
    <2> QED BY <2>2 DEF IInv, StackLinked
  <1>9. PassedFieldsAreFalse'
    <2>1. SUFFICES ASSUME Acyclic, NEW k \in 1 .. Len(stack) - 1,
                          NEW i \in 1 .. Len(fields[stack'[k].md]), i < stack'[k].next
                   PROVE  cache'[fields[stack'[k].md][i]] = "false"
      <3> HIDE DEF t
      <3> QED BY <1>3, SameGraphFacts DEF PassedFieldsAreFalse
    <2>3. stack'[k] = stack[k] /\ k \in DOMAIN stack
      BY <1>1, <1>3
    <2>2. cache[fields[stack[k].md][i]] = "false" /\ fields[stack[k].md][i] \in Messages
      BY <2>1, <2>3, <1>4, FieldsAreMessages DEF IInv, PassedFieldsAreFalse
    <2> QED BY <2>2, <2>3, <1>1, <1>2
  <1>10. FalseIsClosed'
    <2>1. SUFFICES ASSUME Acyclic, NEW n \in Messages, cache'[n] = "false"
                   PROVE  /\ n \notin direct
                          /\ \A i \in 1 .. Len(fields[n]) : cache'[fields[n][i]] = "false"
      BY SameGraphFacts DEF FalseIsClosed
    <2>2. n \notin direct /\ \A i \in 1 .. Len(fields[n]) : cache[fields[n][i]] = "false"
      <3>1. CASE n # t
        BY <3>1, <2>1, <1>2 DEF IInv, FalseIsClosed
      <3>2. CASE n = t
        <4>1. t \notin direct /\ Top.next > Len(fields[t])
          BY <3>2, <2>1, <1>2
        <4>2. Len(stack) \in DOMAIN stack /\ Top = stack[Len(stack)]
          BY <1>1, <1>3 DEF Top
        <4>3. Len(fields[t]) \in Nat
          BY <1>1, FieldsAreMessages DEF IInv
        <4>5. \A i \in 1 .. Len(fields[t]) : i < Top.next
          <5> HIDE DEF t
          <5> QED BY <1>1, <4>1, <4>3
        <4>4. \A i \in 1 .. Len(fields[t]) : cache[fields[t][i]] = "false"
          BY <2>1, <4>2, <4>5 DEF IInv, PassedFieldsAreFalse
        <4> QED BY <3>2, <4>1, <4>4
      <3> QED BY <3>1, <3>2
    <2> QED BY <2>1, <2>2, <1>1, <1>2, FieldsAreMessages DEF IInv
  <1>11. TrueCacheSound'
    <2>1. SUFFICES ASSUME NEW n \in Messages, cache'[n] = "true" PROVE NeedsCheck(n)
      BY SameGraphFacts DEF TrueCacheSound
    <2>2. CASE n = t
      BY <2>1, <2>2, <1>2
    <2>3. CASE n # t
      BY <2>1, <2>3, <1>2 DEF IInv, TrueCacheSound
    <2> QED BY <2>2, <2>3
  <1> QED BY <1>2, <1>3, <1>6, <1>7, <1>8, <1>9, <1>10, <1>11 DEF Exploration

-----------------------------------------------------------------------------
LEMMA InitIInv == ASSUME Init PROVE IInv
  <1>1. TypeOK
    BY DEF Init, InitGraph, InitState, TypeOK, Verdicts
  <1>2. HolderRuns /\ AnswerIsCached /\ RootIsQuery
    BY NoCallerAssumption DEF Init, InitState, HolderRuns, AnswerIsCached, RootIsQuery
  <1>3. MarkersAreFrames /\ StackLinked /\ PassedFieldsAreFalse
    BY DEF Init, InitState, MarkersAreFrames, OnStack, StackLinked, PassedFieldsAreFalse
  <1>4. FalseIsClosed /\ TrueCacheSound
    BY DEF Init, InitState, FalseIsClosed, TrueCacheSound
  <1> QED BY <1>1, <1>2, <1>3, <1>4 DEF IInv

(* A step that leaves the map and the stack alone keeps what is said of     *)
(* them.                                                                    *)
LEMMA ExplorationUnchanged ==
  ASSUME IInv, SameGraph, UNCHANGED <<cache, stack>>
  PROVE  Exploration'
  <1>1. /\ cache' \in [Messages -> Verdicts \cup {"none", "visiting"}]
        /\ stack' \in Seq(Frames)
    BY DEF IInv, TypeOK
  <1>2. /\ (\A m \in Messages : cache[m] = "visiting" <=> OnStack(m))'
        /\ (\A i, j \in DOMAIN stack : stack[i].md = stack[j].md => i = j)'
    BY DEF IInv, MarkersAreFrames, OnStack
  <1>3. StackLinked'
    BY DEF IInv, StackLinked, SameGraph
  <1>4. PassedFieldsAreFalse' /\ FalseIsClosed'
    BY SameGraphFacts DEF IInv, PassedFieldsAreFalse, FalseIsClosed, SameGraph
  <1>5. TrueCacheSound'
    BY SameGraphFacts DEF IInv, TrueCacheSound
  <1> QED BY <1>1, <1>2, <1>3, <1>4, <1>5 DEF Exploration

LEMMA LoadIInv ==
  ASSUME IInv, NEW c \in Callers, NEW m \in Messages, Load(c, m) PROVE IInv'
  <1> USE DEF Load, graph
  <1>1. Exploration'
    BY ExplorationUnchanged DEF SameGraph
  <1>2. TypeOK'
    BY DEF IInv, TypeOK
  <1>3. HolderRuns' /\ (mu = NoCaller <=> stack = <<>>)'
    BY DEF IInv, TypeOK, HolderRuns, MarkersAreFrames
  <1>4. AnswerIsCached'
    BY DEF IInv, TypeOK, AnswerIsCached, Verdicts
  <1>5. RootIsQuery'
    BY DEF IInv, TypeOK, RootIsQuery, HolderRuns
  <1> QED BY <1>1, <1>2, <1>3, <1>4, <1>5 DEF IInv, Exploration, MarkersAreFrames

LEMMA LockIInv ==
  ASSUME IInv, NEW c \in Callers, Lock(c) PROVE IInv'
  <1> USE DEF Lock, graph
  <1>0. query[c] \in Messages
    BY DEF IInv, RootIsQuery
  <1>1. stack = <<>> /\ cache[query[c]] # "visiting"
    BY <1>0 DEF IInv, MarkersAreFrames, OnStack
  <1>2. CASE cache[query[c]] = "none"
    <2>1. Exploration'
      BY <1>0, <1>1, <1>2, EnterPreserves DEF SameGraph
    <2>2. TypeOK'
      BY <1>2, <2>1 DEF IInv, TypeOK, Exploration
    <2>3. stack' # <<>>
      BY <1>1, <1>2 DEF Enter
    <2>4. HolderRuns'
      BY <1>2, NoCallerAssumption DEF IInv, TypeOK, HolderRuns
    <2>5. AnswerIsCached'
      <3>1. \A m \in Messages : cache[m] \in Verdicts => cache'[m] = cache[m]
        BY <1>0, <1>2 DEF Enter, IInv, TypeOK, Verdicts
      <3> QED BY <1>2, <3>1 DEF IInv, TypeOK, AnswerIsCached
    <2>6. RootIsQuery'
      <3>1. stack'[1].md = query[c]
        BY <1>1, <1>2 DEF Enter, Frame
      <3> QED BY <1>0, <1>2, <3>1 DEF IInv, TypeOK, RootIsQuery
    <2> QED BY <1>2, <2>1, <2>2, <2>3, <2>4, <2>5, <2>6, NoCallerAssumption
            DEF IInv, Exploration, MarkersAreFrames
  <1>3. CASE cache[query[c]] # "none"
    <2>1. Exploration'
      BY <1>3, ExplorationUnchanged DEF SameGraph
    <2>2. TypeOK'
      BY <1>3 DEF IInv, TypeOK, Verdicts
    <2>3. HolderRuns' /\ (mu = NoCaller <=> stack = <<>>)'
      BY <1>3, NoCallerAssumption DEF IInv, TypeOK, HolderRuns, MarkersAreFrames
    <2>4. AnswerIsCached'
      <3>1. cache[query[c]] = "true" \/ cache[query[c]] = "false"
        BY <1>0, <1>1, <1>3 DEF IInv, TypeOK, Verdicts
      <3> QED BY <1>0, <1>3, <3>1 DEF IInv, TypeOK, AnswerIsCached
    <2>5. RootIsQuery'
      BY <1>0, <1>3, NoCallerAssumption DEF IInv, TypeOK, RootIsQuery
    <2> QED BY <2>1, <2>2, <2>3, <2>4, <2>5 DEF IInv, Exploration, MarkersAreFrames
  <1> QED BY <1>2, <1>3

LEMMA DescendIInv ==
  ASSUME IInv, NEW c \in Callers, Descend(c) PROVE IInv'
  <1> USE DEF Descend, graph
  <1>1. FieldType \in Messages /\ stack # <<>>
    BY TopFrame
  <1>2. Exploration'
    BY <1>1, EnterPreserves DEF SameGraph
  <1>3. TypeOK'
    BY <1>2 DEF IInv, TypeOK, Exploration
  <1>4. stack' # <<>>
    BY DEF Enter, IInv, TypeOK
  <1>5. HolderRuns' /\ (mu = NoCaller <=> stack = <<>>)'
    BY <1>1, <1>4 DEF IInv, HolderRuns, MarkersAreFrames
  <1>6. AnswerIsCached'
    <2>1. \A m \in Messages : cache[m] \in Verdicts => cache'[m] = cache[m]
      BY <1>1 DEF Enter, IInv, TypeOK, Verdicts
    <2> QED BY <2>1 DEF IInv, TypeOK, AnswerIsCached
  <1>7. RootIsQuery'
    <2>1. stack'[1] = stack[1]
      BY <1>1 DEF Enter, IInv, TypeOK
    <2> QED BY <2>1 DEF IInv, RootIsQuery
  <1> QED BY <1>2, <1>3, <1>5, <1>6, <1>7 DEF IInv, Exploration, MarkersAreFrames

LEMMA SkipFieldIInv ==
  ASSUME IInv, NEW c \in Callers, SkipField(c) PROVE IInv'
  <1> DEFINE top == [md |-> Top.md, next |-> Top.next + 1]
             n == Len(stack)
  <1>1. /\ mu = c /\ fields' = fields /\ direct' = direct /\ cache' = cache /\ mu' = mu
        /\ pc' = pc /\ query' = query /\ answer' = answer
        /\ Top.md \notin direct /\ Top.next <= Len(fields[Top.md])
        /\ cache[FieldType] \in {"false", "visiting"}
        /\ stack' = [stack EXCEPT ![n] = top]
    BY DEF SkipField, graph
  <1>2. /\ stack \in Seq(Frames) /\ n \in Nat \ {0} /\ DOMAIN stack = 1 .. n
        /\ Top = stack[n] /\ Top.md \in Messages /\ Top.next \in Nat \ {0}
    BY <1>1, TopFrame DEF IInv, TypeOK, Top
  <1>3. top \in Frames /\ top.md = stack[n].md /\ top.next = stack[n].next + 1
    BY <1>2 DEF Frames
  <1>4. /\ stack' \in Seq(Frames) /\ Len(stack') = n /\ DOMAIN stack' = 1 .. n
        /\ stack'[n] = top /\ \A i \in 1 .. n : i # n => stack'[i] = stack[i]
    BY <1>1, <1>2, <1>3, UpdateSeq
  <1> HIDE DEF top, n
  <1>5. \A i \in 1 .. n : stack'[i].md = stack[i].md
    BY <1>3, <1>4
  <1>6. TypeOK' /\ HolderRuns' /\ AnswerIsCached'
    BY <1>1, <1>4 DEF IInv, TypeOK, HolderRuns, AnswerIsCached
  <1>7. \A m \in Messages : OnStack(m)' <=> OnStack(m)
    BY <1>2, <1>4, <1>5 DEF OnStack
  <1>8. MarkersAreFrames'
    <2>1. (mu = NoCaller)' <=> (stack = <<>>)'
      BY <1>1, <1>2, <1>4, NoCallerAssumption
    <2>2. (\A i, j \in DOMAIN stack : stack[i].md = stack[j].md => i = j)'
      BY <1>2, <1>4, <1>5 DEF IInv, MarkersAreFrames
    <2>3. (\A m \in Messages : cache[m] = "visiting" <=> OnStack(m))'
      BY <1>1, <1>7 DEF IInv, MarkersAreFrames
    <2> QED BY <2>1, <2>2, <2>3 DEF MarkersAreFrames
  <1>9. StackLinked'
    <2>1. SUFFICES ASSUME NEW i \in 1 .. n - 1
                   PROVE  /\ stack'[i].md \notin direct
                          /\ stack'[i].next \in 1 .. Len(fields[stack'[i].md])
                          /\ stack'[i + 1].md = fields[stack'[i].md][stack'[i].next]
      BY <1>1, <1>4 DEF StackLinked
    <2>2. stack'[i] = stack[i] /\ stack'[i + 1].md = stack[i + 1].md
      BY <1>2, <1>4, <1>5
    <2> QED BY <2>2 DEF IInv, StackLinked, n
  <1>10. PassedFieldsAreFalse'
    <2>1. SUFFICES ASSUME Acyclic, NEW k \in 1 .. n,
                          NEW i \in 1 .. Len(fields[stack'[k].md]), i < stack'[k].next
                   PROVE  cache[fields[stack'[k].md][i]] = "false"
      BY <1>1, <1>4, SameGraphFacts, ZenonT(60) DEF PassedFieldsAreFalse, SameGraph
    <2>2. CASE i < stack[k].next
      BY <1>2, <1>5, <2>1, <2>2 DEF IInv, PassedFieldsAreFalse
    <2>3. CASE ~(i < stack[k].next)
      <3>1. k = n
        BY <1>4, <2>1, <2>3
      <3>2. i = Top.next
        BY <1>2, <1>3, <1>4, <2>1, <2>3, <3>1
      <3>3. cache[FieldType] = "false"
        BY <1>1, <2>1, NoMarkerWhenAcyclic
      <3> QED BY <1>2, <1>5, <3>1, <3>2, <3>3 DEF FieldType
    <2> QED BY <2>2, <2>3
  <1>11. FalseIsClosed' /\ TrueCacheSound'
    BY <1>1, SameGraphFacts DEF IInv, FalseIsClosed, TrueCacheSound, SameGraph
  <1>12. RootIsQuery'
    BY <1>1, <1>2, <1>5 DEF IInv, RootIsQuery
  <1> QED BY <1>6, <1>8, <1>9, <1>10, <1>11, <1>12 DEF IInv

(* Both ways to return from a call.                                         *)
LEMMA ReturnIInv ==
  ASSUME IInv, NEW c \in Callers, mu = c, NEW has \in Verdicts, Return(c, has),
         has = "true" => NeedsCheck(Top.md),
         has = "false" => Top.md \notin direct /\ Top.next > Len(fields[Top.md])
  PROVE  IInv'
  <1>0. query[c] \in Messages /\ stack[1].md = query[c]
    BY DEF IInv, RootIsQuery, HolderRuns
  <1>1. Exploration' /\ Len(stack) \in Nat \ {0} /\ cache[Top.md] = "visiting" /\ Top.md \in Messages
    <2>1. Len(stack) \in Nat \ {0} /\ cache[Top.md] = "visiting" /\ Top.md \in Messages
      BY TopFrame
    <2>2. Len(stack) = 1 => SubSeq(stack, 1, Len(stack) - 1) = <<>>
      BY SubSeqEmpty
    <2>3. PopFrame(has) /\ SameGraph
      BY <2>2 DEF Return, PopFrame, SameGraph, graph
    <2> QED BY <2>1, <2>3, ReturnPreserves
  <1>2. TypeOK'
    BY <1>1 DEF Return, graph, IInv, TypeOK, Exploration
  <1>3. HolderRuns' /\ (mu = NoCaller <=> stack = <<>>)'
    <2>1. CASE Len(stack) = 1
      BY <2>1, NoCallerAssumption DEF Return, IInv, TypeOK, HolderRuns
    <2>2. CASE Len(stack) # 1
      <3>1. stack' # <<>>
        BY <1>1, <2>2, PopSeq DEF Return, IInv, TypeOK
      <3> QED BY <2>2, <3>1, NoCallerAssumption DEF Return, IInv, HolderRuns
    <2> QED BY <2>1, <2>2
  <1>4. AnswerIsCached'
    <2>1. \A m \in Messages : cache[m] \in Verdicts => cache'[m] = cache[m]
      BY <1>1 DEF Return, IInv, TypeOK, Verdicts
    <2>2. CASE Len(stack) = 1
      <3>1. Top.md = query[c] /\ cache'[query[c]] = has
        BY <1>0, <1>1, <2>2 DEF Return, IInv, TypeOK, Top
      <3>2. \A d \in Callers \ {c} : pc'[d] = pc[d] /\ answer'[d] = answer[d]
        BY <2>2 DEF Return, IInv, TypeOK
      <3>3. answer'[c] = has /\ query' = query
        BY <2>2 DEF Return, IInv, TypeOK
      <3> QED BY <1>0, <2>1, <3>1, <3>2, <3>3 DEF IInv, TypeOK, AnswerIsCached
    <2>3. CASE Len(stack) # 1
      BY <2>1, <2>3 DEF Return, IInv, TypeOK, AnswerIsCached
    <2> QED BY <2>2, <2>3
  <1>5. RootIsQuery'
    <2>1. CASE Len(stack) = 1
      BY <2>1, <1>0, NoCallerAssumption DEF Return, IInv, TypeOK, RootIsQuery
    <2>2. CASE Len(stack) # 1
      <3>1. stack'[1] = stack[1]
        BY <1>1, <2>2, PopSeq DEF Return, IInv, TypeOK
      <3> QED BY <2>2, <3>1 DEF Return, IInv, RootIsQuery
    <2> QED BY <2>1, <2>2
  <1> QED BY <1>1, <1>2, <1>3, <1>4, <1>5 DEF IInv, Exploration, MarkersAreFrames

LEMMA NextIInv == ASSUME IInv, [Next]_vars PROVE IInv'
  <1>1. CASE UNCHANGED vars
    <2>1. Exploration'
      BY <1>1, ExplorationUnchanged DEF vars, SameGraph
    <2>2. TypeOK' /\ HolderRuns' /\ AnswerIsCached' /\ RootIsQuery' /\ (mu = NoCaller <=> stack = <<>>)'
      BY <1>1 DEF vars, IInv, TypeOK, HolderRuns, AnswerIsCached, RootIsQuery, MarkersAreFrames
    <2> QED BY <2>1, <2>2 DEF IInv, Exploration, MarkersAreFrames
  <1>2. ASSUME NEW c \in Callers, NEW m \in Messages, Load(c, m) PROVE IInv'
    BY <1>2, LoadIInv
  <1>3. ASSUME NEW c \in Callers, Lock(c) PROVE IInv'
    BY <1>3, LockIInv
  <1>4. ASSUME NEW c \in Callers, Descend(c) PROVE IInv'
    BY <1>4, DescendIInv
  <1>5. ASSUME NEW c \in Callers, SkipField(c) PROVE IInv'
    BY <1>5, SkipFieldIInv
  <1>6. ASSUME NEW c \in Callers, ReturnTrue(c) PROVE IInv'
    <2>1. mu = c /\ Return(c, "true") /\ "true" \in Verdicts
      BY <1>6 DEF ReturnTrue, Verdicts
    <2>2. NeedsCheck(Top.md)
      <3>1. Top.md \in Messages /\ Top.next \in Nat \ {0} /\ TypeOK
        BY <2>1, TopFrame DEF IInv
      <3>2. CASE Top.md \in direct
        BY <3>1, <3>2, NeedsCheckStep
      <3>3. CASE Top.next <= Len(fields[Top.md]) /\ cache[FieldType] = "true"
        <4>1. FieldType \in Messages /\ NeedsCheck(FieldType)
          BY <2>1, <3>3, TopFrame DEF IInv, TrueCacheSound
        <4>2. Top.next \in 1 .. Len(fields[Top.md])
          BY <3>1, <3>3, FieldsAreMessages
        <4> QED BY <3>1, <4>1, <4>2, NeedsCheckStep DEF FieldType
      <3> QED BY <1>6, <3>2, <3>3 DEF ReturnTrue
    <2> QED BY <2>1, <2>2, ReturnIInv
  <1>7. ASSUME NEW c \in Callers, ReturnFalse(c) PROVE IInv'
    BY <1>7, ReturnIInv DEF ReturnFalse, Verdicts
  <1> QED BY <1>1, <1>2, <1>3, <1>4, <1>5, <1>6, <1>7 DEF Next, Explore

(* IInv is an inductive invariant of the specification.                     *)
THEOREM Invariance == Spec => []IInv
  <1>1. Init => IInv
    BY InitIInv
  <1>2. IInv /\ [Next]_vars => IInv'
    BY NextIInv
  <1> QED BY <1>1, <1>2, PTL DEF Spec

-----------------------------------------------------------------------------
(* The map, the lock, the callers and the exploration's stack stay within   *)
(* their types, for every graph of message types.                           *)
THEOREM TypeCorrect == Spec => []TypeOK
  <1>1. IInv => TypeOK
    BY DEF IInv
  <1> QED BY <1>1, Invariance, PTL

(* A type carries needsInitCheckLocked's marker exactly while a frame       *)
(* explores it, and no marker is left when the lock is free.                *)
THEOREM MarkersCorrect == Spec => []MarkersAreFrames
  <1>1. IInv => MarkersAreFrames
    BY DEF IInv
  <1> QED BY <1>1, Invariance, PTL

(* A cached or returned true is right on every message graph.               *)
THEOREM TrueSound == Spec => []TrueIsSound
  <1>1. IInv => TrueIsSound
    BY DEF IInv, TrueIsSound, TrueCacheSound, AnswerIsCached
  <1> QED BY <1>1, Invariance, PTL

(* On an acyclic message graph a cached or returned false is right too: the *)
(* types not cached as false are closed under use and contain every type    *)
(* with required fields, so they contain every type that needs the check.   *)
THEOREM FalseSound == Spec => []FalseIsSoundWhenAcyclic
  <1>1. ASSUME IInv, Acyclic, NEW m \in Messages, cache[m] = "false" PROVE ~NeedsCheck(m)
    <2> DEFINE S == {n \in Messages : cache[n] # "false"}
    <2>1. ClosedUnderUse(S)
      <3>1. direct \subseteq S
        BY <1>1 DEF IInv, TypeOK, FalseIsClosed
      <3>2. ASSUME NEW n \in Messages, \E i \in DOMAIN fields[n] : fields[n][i] \in S PROVE n \in S
        BY <1>1, <3>2, FieldsAreMessages DEF IInv, FalseIsClosed
      <3> QED BY <3>1, <3>2 DEF ClosedUnderUse
    <2>2. m \notin S /\ S \in SUBSET Messages
      BY <1>1
    <2> HIDE DEF S
    <2> QED BY <2>1, <2>2 DEF NeedsCheck
  <1>2. IInv => FalseIsSoundWhenAcyclic
    BY <1>1 DEF IInv, FalseIsSoundWhenAcyclic, AnswerIsCached
  <1> QED BY <1>2, Invariance, PTL

(* A verdict in the map is never changed, so that the unlocked look of      *)
(* needsInitCheck may trust it.                                             *)
THEOREM VerdictsFinal == Spec => VerdictIsFinal
  <1> DEFINE Keeps == \A m \in Messages : cache[m] \in Verdicts => cache'[m] = cache[m]
  <1>1. ASSUME IInv, [Next]_vars PROVE [Keeps]_vars
    <2>1. SUFFICES ASSUME Next PROVE Keeps
      BY <1>1
    <2>2. cache \in [Messages -> Verdicts \cup {"none", "visiting"}]
      BY <1>1 DEF IInv, TypeOK
    <2>3. ASSUME NEW m \in Messages, cache[m] = "none", Enter(m) PROVE Keeps
      BY <2>2, <2>3 DEF Enter, Verdicts
    <2>4. ASSUME NEW c \in Callers, mu = c, NEW has \in Verdicts, Return(c, has) PROVE Keeps
      BY <1>1, <2>2, <2>4, TopFrame DEF Return, Verdicts
    <2>5. ASSUME NEW c \in Callers, Lock(c) PROVE Keeps
      <3>1. query[c] \in Messages
        BY <1>1, <2>5 DEF IInv, RootIsQuery, Lock
      <3> QED BY <2>3, <2>5, <3>1 DEF Lock
    <2>6. ASSUME NEW c \in Callers, Descend(c) PROVE Keeps
      <3>1. FieldType \in Messages
        BY <1>1, <2>6, TopFrame DEF Descend
      <3> QED BY <2>3, <2>6, <3>1 DEF Descend
    <2>7. ASSUME NEW c \in Callers, ReturnTrue(c) \/ ReturnFalse(c) PROVE Keeps
      BY <2>4, <2>7 DEF ReturnTrue, ReturnFalse, Verdicts
    <2>8. ASSUME NEW c \in Callers, NEW m \in Messages, Load(c, m) \/ SkipField(c) PROVE Keeps
      BY <2>8 DEF Load, SkipField
    <2> QED BY <2>1, <2>5, <2>6, <2>7, <2>8 DEF Next, Explore, SkipField
  <1> QED BY <1>1, Invariance, PTL DEF Spec, VerdictIsFinal
=============================================================================
