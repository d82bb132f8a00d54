--------------------------- MODULE NeedsInitCheck ---------------------------
(***************************************************************************)
(* The process-wide cache behind needsInitCheck (internal/impl/            *)
(* checkinit.go): may a value of a message type be partially initialized?  *)
(*                                                                         *)
(* Several goroutines ask about message types while their MessageInfos are *)
(* being initialized.  needsInitCheck first looks in needsInitCheckMap     *)
(* without a lock; a miss takes needsInitCheckMu and explores the graph of *)
(* message fields depth first.  A type being explored is marked in the     *)
(* same map, so that the exploration stops at a cycle.                     *)
(***************************************************************************)
EXTENDS Naturals, Sequences

CONSTANTS Messages,   \* the message descriptors
          Callers,    \* goroutines that call needsInitCheck
          NoCaller,   \* needsInitCheckMu is not held
          NoMessage,  \* nothing asked yet
          FieldLists  \* the possible lists of types of message-typed fields

ASSUME NoCallerAssumption == NoCaller \notin Callers
ASSUME NoMessageAssumption == NoMessage \notin Messages
ASSUME FieldListsAssumption == FieldLists \subseteq Seq(Messages)

VARIABLES
  fields,   \* [m |-> the message types of m's message-typed fields, in order]
  direct,   \* messages with required numbers or extension ranges of their own
  cache,    \* needsInitCheckMap; "visiting" is the struct{}{} marker
  mu,       \* holder of needsInitCheckMu
  pc,       \* per caller: "idle", "lock" (missed the map), "run" (holds the lock)
  query,    \* per caller: the descriptor asked about
  stack,    \* frames of needsInitCheckLocked of the lock's holder, innermost last
  answer    \* per caller: the last result, "none" before the first

graph == <<fields, direct>>
vars == <<fields, direct, cache, mu, pc, query, stack, answer>>

Verdicts == {"true", "false"}
Frames == [md : Messages, next : Nat \ {0}]

(***************************************************************************)
(* What the function's comment promises: m transitively includes a         *)
(* required or extension field.  This is membership in the least set that  *)
(* contains direct and every message with a field of a type in the set.    *)
(***************************************************************************)
ClosedUnderUse(S) ==
  /\ direct \subseteq S
  /\ \A m \in Messages : (\E i \in DOMAIN fields[m] : fields[m][i] \in S) => m \in S

NeedsCheck(m) == \A S \in SUBSET Messages : ClosedUnderUse(S) => m \in S

-----------------------------------------------------------------------------
Frame(m) == [md |-> m, next |-> 1]

InitGraph == fields \in [Messages -> FieldLists] /\ direct \in SUBSET Messages

InitState ==
  /\ cache = [m \in Messages |-> "none"]
  /\ mu = NoCaller
  /\ pc = [c \in Callers |-> "idle"]
  /\ query = [c \in Callers |-> NoMessage]
  /\ stack = <<>>
  /\ answer = [c \in Callers |-> "none"]

(* Mutant: the unlocked look takes any entry, the marker too, for an answer. *)
LoadAnyEntry(c, m) ==
  /\ pc[c] = "idle"
  /\ query' = [query EXCEPT ![c] = m]
  /\ IF cache[m] # "none"
       THEN /\ answer' = [answer EXCEPT ![c] = IF cache[m] = "true" THEN "true" ELSE "false"]
            /\ UNCHANGED pc
       ELSE /\ pc' = [pc EXCEPT ![c] = "lock"]
            /\ UNCHANGED answer
  /\ UNCHANGED <<graph, cache, mu, stack>>

(* needsInitCheck: the unlocked look into the map.  Only a bool is an       *)
(* answer; the marker of an exploration in progress is treated as a miss.   *)
Load(c, m) ==
  /\ pc[c] = "idle"
  /\ query' = [query EXCEPT ![c] = m]
  /\ IF cache[m] \in Verdicts
       THEN /\ answer' = [answer EXCEPT ![c] = cache[m]]
            /\ UNCHANGED pc
       ELSE /\ pc' = [pc EXCEPT ![c] = "lock"]
            /\ UNCHANGED answer
  /\ UNCHANGED <<graph, cache, mu, stack>>

(* Entering needsInitCheckLocked(m) when the map has nothing for m.         *)
Enter(m) ==
  /\ cache' = [cache EXCEPT ![m] = "visiting"]
  /\ stack' = Append(stack, Frame(m))

(* Mutant: no second look into the map once the lock is held.               *)
LockWithoutRecheck(c) ==
  /\ pc[c] = "lock" /\ mu = NoCaller
  /\ mu' = c
  /\ pc' = [pc EXCEPT ![c] = "run"]
  /\ Enter(query[c])
  /\ UNCHANGED <<graph, query, answer>>

(* needsInitCheck: take needsInitCheckMu and call needsInitCheckLocked,     *)
(* which looks in the map again.                                            *)
Lock(c) ==
  /\ pc[c] = "lock" /\ mu = NoCaller
  /\ IF cache[query[c]] = "none"
       THEN /\ mu' = c
            /\ pc' = [pc EXCEPT ![c] = "run"]
            /\ Enter(query[c])
            /\ UNCHANGED answer
       ELSE /\ pc' = [pc EXCEPT ![c] = "idle"]
            /\ answer' = [answer EXCEPT ![c] =
                            IF cache[query[c]] = "true" THEN "true" ELSE "false"]
            /\ UNCHANGED <<cache, stack, mu>>
  /\ UNCHANGED <<graph, query>>

Top == stack[Len(stack)]

(* The innermost call returns has: the deferred Store, then either the      *)
(* caller's loop goes on (false: next field; true: it returns true itself   *)
(* at its next step) or, at the root, the lock is released.                 *)
Return(c, has) ==
  /\ cache' = [cache EXCEPT ![Top.md] = has]
  /\ IF Len(stack) = 1
       THEN /\ stack' = <<>>
            /\ mu' = NoCaller
            /\ pc' = [pc EXCEPT ![c] = "idle"]
            /\ answer' = [answer EXCEPT ![c] = has]
       ELSE /\ stack' = SubSeq(stack, 1, Len(stack) - 1)
            /\ UNCHANGED <<mu, pc, answer>>
  /\ UNCHANGED <<graph, query>>

(* One step of needsInitCheckLocked for the innermost frame.  A field whose *)
(* type is already in the map is answered from there: a marker (a cycle)    *)
(* counts as false.                                                         *)
FieldType == fields[Top.md][Top.next]

Descend(c) ==
  /\ pc[c] = "run" /\ mu = c
  /\ Top.md \notin direct /\ Top.next <= Len(fields[Top.md])
  /\ cache[FieldType] = "none"
  /\ Enter(FieldType)
  /\ UNCHANGED <<graph, mu, pc, query, answer>>

(* Mutant: the loop does not move past a field that closes a cycle.         *)
SkipFieldStuckOnCycle(c) ==
  /\ pc[c] = "run" /\ mu = c
  /\ Top.md \notin direct /\ Top.next <= Len(fields[Top.md])
  /\ cache[FieldType] \in {"false", "visiting"}
  /\ stack' = [stack EXCEPT ![Len(stack)].next = IF cache[FieldType] = "false" THEN @ + 1 ELSE @]
  /\ UNCHANGED <<graph, cache, mu, pc, query, answer>>

SkipField(c) ==
  /\ pc[c] = "run" /\ mu = c
  /\ Top.md \notin direct /\ Top.next <= Len(fields[Top.md])
  /\ cache[FieldType] \in {"false", "visiting"}
  /\ stack' = [stack EXCEPT ![Len(stack)] = [md |-> Top.md, next |-> Top.next + 1]]
  /\ UNCHANGED <<graph, cache, mu, pc, query, answer>>

(* Mutant: a cycle counts as true.                                          *)
ReturnTrueOnCycle(c) ==
  /\ pc[c] = "run" /\ mu = c
  /\ \/ Top.md \in direct
     \/ Top.next <= Len(fields[Top.md]) /\ cache[FieldType] \in {"true", "visiting"}
  /\ Return(c, "true")

(* Mutant: the verdict is stored only on the last return, not by a defer.   *)
ReturnTrueWithoutStore(c) ==
  /\ pc[c] = "run" /\ mu = c
  /\ \/ Top.md \in direct
     \/ Top.next <= Len(fields[Top.md]) /\ cache[FieldType] = "true"
  /\ stack' = SubSeq(stack, 1, Len(stack) - 1)
  /\ mu' = IF Len(stack) = 1 THEN NoCaller ELSE mu
  /\ pc' = IF Len(stack) = 1 THEN [pc EXCEPT ![c] = "idle"] ELSE pc
  /\ answer' = IF Len(stack) = 1 THEN [answer EXCEPT ![c] = "true"] ELSE answer
  /\ UNCHANGED <<graph, query, cache>>

ReturnTrue(c) ==
  /\ pc[c] = "run" /\ mu = c
  /\ \/ Top.md \in direct
     \/ Top.next <= Len(fields[Top.md]) /\ cache[FieldType] = "true"
  /\ Return(c, "true")

ReturnFalse(c) ==
  /\ pc[c] = "run" /\ mu = c
  /\ Top.md \notin direct /\ Top.next > Len(fields[Top.md])
  /\ Return(c, "false")

(* The holder of the lock always has a step: the exploration cannot stop.   *)
Explore(c) == Descend(c) \/ SkipField(c) \/ ReturnTrue(c) \/ ReturnFalse(c)

Next == \E c \in Callers : Lock(c) \/ Explore(c) \/ \E m \in Messages : Load(c, m)

Init == InitGraph /\ InitState

(* A Go mutex is starvation free (a waiter is handed the lock after 1ms),   *)
(* so a caller that waits is eventually served: strong fairness of Lock.    *)
Fairness == \A c \in Callers : SF_vars(Lock(c)) /\ WF_vars(Explore(c))

Spec == Init /\ [][Next]_vars
FairSpec == Spec /\ Fairness

-----------------------------------------------------------------------------
(* Type correctness of the cache, the lock and the exploration's stack.     *)
TypeOK ==
  /\ fields \in [Messages -> FieldLists] /\ direct \in SUBSET Messages
  /\ cache \in [Messages -> Verdicts \cup {"none", "visiting"}]
  /\ mu \in Callers \cup {NoCaller}
  /\ pc \in [Callers -> {"idle", "lock", "run"}]
  /\ query \in [Callers -> Messages \cup {NoMessage}]
  /\ stack \in Seq(Frames)
  /\ answer \in [Callers -> Verdicts \cup {"none"}]

OnStack(m) == \E i \in DOMAIN stack : stack[i].md = m

(* The marker stored by needsInitCheckLocked never outlives the call that   *)
(* stored it: a type is marked exactly while a frame explores it, so no     *)
(* later caller that holds the lock can mistake a stale marker for a cycle. *)
MarkersAreFrames ==
  /\ \A m \in Messages : cache[m] = "visiting" <=> OnStack(m)
  /\ \A i, j \in DOMAIN stack : stack[i].md = stack[j].md => i = j
  /\ mu = NoCaller <=> stack = <<>>

(* A cached or returned true is never wrong, on any message graph and for   *)
(* any interleaving: only types that transitively include a required or     *)
(* extension field are ever slowed down by an initialization check.         *)
TrueIsSound ==
  /\ \A m \in Messages : cache[m] = "true" => NeedsCheck(m)
  /\ \A c \in Callers : pc[c] = "idle" /\ answer[c] = "true" => NeedsCheck(query[c])

(* No message type contains itself: every nonempty set of types has a       *)
(* member none of whose fields has a type in the set.                       *)
Acyclic ==
  \A S \in SUBSET Messages : S # {} =>
    \E m \in S : \A i \in DOMAIN fields[m] : fields[m][i] \notin S

(* On an acyclic message graph a cached or returned false is never wrong    *)
(* either: no type whose values can be partially initialized has its check  *)
(* skipped by checkInitializedPointer's early return.                       *)
FalseIsSoundWhenAcyclic ==
  Acyclic =>
    /\ \A m \in Messages : cache[m] = "false" => ~NeedsCheck(m)
    /\ \A c \in Callers : pc[c] = "idle" /\ answer[c] = "false" => ~NeedsCheck(query[c])

(* needsInitCheck's comment, for every graph: "It returns true if the       *)
(* message transitively includes any required or extension fields."         *)
(* A type explored inside a cycle is cached as false when the type that     *)
(* closes the cycle is still marked, and keeps that verdict.                *)
ReturnsTrueIfNeeded ==
  \A c \in Callers : pc[c] = "idle" /\ answer[c] = "false" => ~NeedsCheck(query[c])

(* A verdict once stored is never overwritten, so the unlocked Load of      *)
(* needsInitCheck may use it forever.                                       *)
VerdictIsFinal ==
  [][\A m \in Messages : cache[m] \in Verdicts => cache'[m] = cache[m]]_vars

(* Every caller that misses the map and waits for the lock gets an answer:  *)
(* explorations terminate on every graph, cyclic ones included.             *)
EveryCallReturns == \A c \in Callers : pc[c] = "lock" ~> pc[c] = "idle"
=============================================================================
