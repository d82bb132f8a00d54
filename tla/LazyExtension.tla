--------------------------- MODULE LazyExtension ---------------------------
(***************************************************************************)
(* One extension field that is kept in wire format until it is used        *)
(* (internal/impl/codec_extension.go).                                     *)
(*                                                                         *)
(* Unmarshal appends validated records to the field's buffer; the first    *)
(* goroutine that asks for the value decodes the buffer under a mutex and  *)
(* sets atomicOnce, after which the value is read without the mutex.       *)
(* Marshal prefers the buffer while there is one.  Reading may happen      *)
(* concurrently; Unmarshal, Set and Clear may not, and run while no reader *)
(* is active.                                                              *)
(*                                                                         *)
(* A record's content is left out: a buffer is the number of records in    *)
(* it, a value the number of records merged into it and the goroutine that *)
(* created it.                                                             *)
(***************************************************************************)
EXTENDS Naturals

CONSTANTS Threads,    \* goroutines that read the field
          None,       \* a nil buffer, an invalid value, no owner
          App,        \* the value was made by Unmarshal or by the application
          MaxRecords  \* bound on the records received

ASSUME ThreadsAssumption == None \notin Threads /\ App \notin Threads /\ App # None
ASSUME RecordsAssumption == MaxRecords \in Nat \ {0} /\ None \notin Nat

VARIABLES
  kind,      \* "unset": not in the extension map; "lazy": field lazy is not nil; "plain"
  once,      \* lazy.atomicOnce, accessed atomically
  mu,        \* holder of lazy.mu
  b,         \* lazy.b: records in the buffer, or None (lazy.xi is set and cleared with it)
  lval,      \* lazy.value
  val,       \* field value, used when lazy is nil
  received,  \* ghost: records the field consists of
  pc, op,    \* per goroutine: where it is, the operation it runs
  got        \* per goroutine: what its last call obtained

field == <<kind, b, lval, val, received>>
extVars == <<kind, once, mu, b, lval, val, received, pc, op, got>>

Object(who, n) == [by |-> who, n |-> n]
Wire == "wire"

ExtInit ==
  /\ kind = "unset" /\ once = 0 /\ mu = None
  /\ b = None /\ lval = None /\ val = None /\ received = 0
  /\ pc = [t \in Threads |-> "idle"]
  /\ op = [t \in Threads |-> "value"]
  /\ got = [t \in Threads |-> None]

-----------------------------------------------------------------------------
(* Operations that change the message: no reader may be active, and what    *)
(* readers obtained before says nothing about the message after it.         *)
Exclusive ==
  /\ \A t \in Threads : pc[t] = "idle"
  /\ got' = [t \in Threads |-> None]
  /\ UNCHANGED <<mu, pc, op>>

(* Mutant: an expanded field is appended to as well.                        *)
canLazyExpanded == kind \in {"unset", "lazy"}

canLazy == kind = "unset" \/ (kind = "lazy" /\ once = 0)

(* unmarshalExtension of a record that validates as initialized:            *)
(* appendLazyBytes, to a new lazyExtensionValue if there is none.           *)
UnmarshalLazily ==
  /\ Exclusive
  /\ canLazy /\ received < MaxRecords
  /\ kind' = "lazy"
  /\ b' = IF b = None THEN 1 ELSE b + 1
  /\ received' = received + 1
  /\ UNCHANGED <<once, lval, val>>

(* What Value() returns to a caller that is alone: lazyInit decodes the     *)
(* buffer if nobody has.                                                    *)
ValueNow == CASE kind = "lazy" /\ once = 0 -> Object(App, b)
              [] kind = "lazy" /\ once = 1 -> lval
              [] OTHER -> val

(* x.Set: the lazyExtensionValue is dropped.                                *)
Set(v, n) ==
  /\ kind' = "plain" /\ val' = v /\ received' = n
  /\ once' = 0 /\ b' = None /\ lval' = None

(* unmarshalExtension of any other record: not known to be initialized, or  *)
(* the field is not lazy any more.  It is merged into the value so far.     *)
UnmarshalEagerly ==
  /\ Exclusive
  /\ received < MaxRecords
  /\ Set(IF kind = "unset" THEN Object(App, 1) ELSE [ValueNow EXCEPT !.n = @ + 1], received + 1)

SetByApplication ==
  /\ Exclusive
  /\ Set(Object(App, 1), 1)

Clear ==
  /\ Exclusive
  /\ kind # "unset"
  /\ kind' = "unset" /\ val' = None /\ received' = 0
  /\ once' = 0 /\ b' = None /\ lval' = None

-----------------------------------------------------------------------------
(* Readers.                                                                 *)
Goto(t, l) == pc' = [pc EXCEPT ![t] = l]
Move(t, from, to) == pc[t] = from /\ Goto(t, to)
Return(t, v) == got' = [got EXCEPT ![t] = v] /\ Goto(t, "idle")

(* Get or Range ("value"), Marshal ("buffer") or CheckInitialized ("check") *)
Call(t, o) ==
  /\ kind # "unset"
  /\ Move(t, "idle", IF o = "value" THEN "value" ELSE "unexpanded")
  /\ op' = [op EXCEPT ![t] = o]
  /\ got' = [got EXCEPT ![t] = None]
  /\ UNCHANGED <<field, once, mu>>

(* isUnexpandedLazy: CheckInitialized skips the field, Marshal locks it to  *)
(* take its buffer, and both use the value of an expanded one.              *)
Unexpanded(t) ==
  /\ pc[t] = "unexpanded"
  /\ \/ kind = "lazy" /\ once = 0 /\ op[t] = "buffer" /\ Goto(t, "lockbuffer") /\ UNCHANGED got
     \/ kind = "lazy" /\ once = 0 /\ op[t] = "check" /\ Goto(t, "idle") /\ UNCHANGED got
     \/ ~(kind = "lazy" /\ once = 0) /\ Goto(t, "value") /\ UNCHANGED got
  /\ UNCHANGED <<field, once, mu, op>>

LockBuffer(t) ==
  /\ mu = None /\ mu' = t
  /\ Move(t, "lockbuffer", "takebuffer")
  /\ UNCHANGED <<field, once, op, got>>

(* lazyBuffer returns the buffer and unlocks; nil if the field was expanded *)
(* meanwhile, and then Marshal uses the value.                              *)
TakeBuffer(t) ==
  /\ pc[t] = "takebuffer"
  /\ mu' = None
  /\ \/ b # None /\ Return(t, Object(Wire, b))
     \/ b = None /\ Goto(t, "value") /\ UNCHANGED got
  /\ UNCHANGED <<field, once, op>>

(* Mutant: a reader polls until nobody is inside the mutex.                 *)
ValuePolls(t) ==
  /\ pc[t] = "value"
  /\ \/ kind = "plain" /\ Return(t, val)
     \/ kind = "lazy" /\ once = 0 /\ mu = None /\ Goto(t, "lock") /\ UNCHANGED got
     \/ kind = "lazy" /\ once = 1 /\ Goto(t, "read") /\ UNCHANGED got
  /\ UNCHANGED <<field, once, mu, op>>

(* Mutant: a reader that finds the mutex taken decodes a copy for itself.   *)
ValueCopies(t) ==
  /\ pc[t] = "value"
  /\ \/ kind = "plain" /\ Return(t, val)
     \/ kind = "lazy" /\ once = 0 /\ (mu = None \/ b = None) /\ Goto(t, "lock") /\ UNCHANGED got
     \/ kind = "lazy" /\ once = 0 /\ mu # None /\ b # None /\ Return(t, Object(t, b))
     \/ kind = "lazy" /\ once = 1 /\ Goto(t, "read") /\ UNCHANGED got
  /\ UNCHANGED <<field, once, mu, op>>

(* Value: the value itself, or the lazily decoded one once it is valid.     *)
Value(t) ==
  /\ pc[t] = "value"
  /\ \/ kind = "plain" /\ Return(t, val)
     \/ kind = "lazy" /\ once = 0 /\ Goto(t, "lock") /\ UNCHANGED got
     \/ kind = "lazy" /\ once = 1 /\ Goto(t, "read") /\ UNCHANGED got
  /\ UNCHANGED <<field, once, mu, op>>

(* lazyInit, from taking the mutex to releasing it.                         *)
Lock(t) ==
  /\ mu = None /\ mu' = t
  /\ Move(t, "lock", "recheck")
  /\ UNCHANGED <<field, once, op, got>>

(* Mutant: atomicOnce is set before the value is stored.                    *)
RecheckAndPublish(t) ==
  /\ Move(t, "recheck", IF once = 1 THEN "unlock" ELSE "decode")
  /\ once' = 1
  /\ UNCHANGED <<field, mu, op, got>>

Recheck(t) ==
  /\ Move(t, "recheck", IF once = 1 THEN "unlock" ELSE "decode")
  /\ UNCHANGED <<field, once, mu, op, got>>

(* Decodes the buffer; without lazy.xi it panics.                           *)
Decode(t) ==
  /\ b # None
  /\ Move(t, "decode", "drop")
  /\ lval' = Object(t, b)
  /\ UNCHANGED <<kind, once, mu, b, val, received, op, got>>

DropBuffer(t) ==
  /\ Move(t, "drop", "publish")
  /\ b' = None
  /\ UNCHANGED <<kind, once, mu, lval, val, received, op, got>>

Publish(t) ==
  /\ Move(t, "publish", "unlock")
  /\ once' = 1
  /\ UNCHANGED <<field, mu, op, got>>

Unlock(t) ==
  /\ Move(t, "unlock", "read")
  /\ mu' = None
  /\ UNCHANGED <<field, once, op, got>>

(* f.lazy.value is read without the mutex.                                  *)
Read(t) ==
  /\ pc[t] = "read"
  /\ Return(t, lval)
  /\ UNCHANGED <<field, once, mu, op>>

-----------------------------------------------------------------------------
Acquire(t) == Lock(t) \/ LockBuffer(t)
Step(t) ==
  \/ Acquire(t) \/ Unexpanded(t) \/ TakeBuffer(t) \/ Value(t)
  \/ Recheck(t) \/ Decode(t) \/ DropBuffer(t) \/ Publish(t) \/ Unlock(t) \/ Read(t)

Change == UnmarshalLazily \/ UnmarshalEagerly \/ SetByApplication \/ Clear

ExtNext == Change \/ \E t \in Threads : Step(t) \/ \E o \in {"value", "buffer", "check"} : Call(t, o)

ExtSpec == ExtInit /\ [][ExtNext]_extVars

(* A goroutine inside a call keeps running, and sync.Mutex lets no waiter   *)
(* starve (its starvation mode).                                            *)
FairSpec == ExtSpec /\ \A t \in Threads : WF_extVars(Step(t)) /\ SF_extVars(Acquire(t))

-----------------------------------------------------------------------------
Locations == {"idle", "unexpanded", "lockbuffer", "takebuffer", "value", "lock",
              "recheck", "decode", "drop", "publish", "unlock", "read"}
Objects == [by : Threads \cup {App, Wire}, n : 0 .. MaxRecords]

(* Every variable holds a value of its kind.                                *)
ExtTypeOK ==
  /\ kind \in {"unset", "lazy", "plain"} /\ once \in {0, 1}
  /\ mu \in Threads \cup {None}
  /\ b \in (0 .. MaxRecords) \cup {None}
  /\ lval \in Objects \cup {None} /\ val \in Objects \cup {None}
  /\ received \in 0 .. MaxRecords
  /\ pc \in [Threads -> Locations]
  /\ op \in [Threads -> {"value", "buffer", "check"}]
  /\ got \in [Threads -> Objects \cup {None}]

(* Whatever a reader obtains, from the buffer, from lazyInit or from a      *)
(* value that Unmarshal merged into, consists of every record received:     *)
(* none is lost or counted twice between the representations.               *)
NoRecordLost == \A t \in Threads : got[t] # None => got[t].n = received

(* Readers of the value get one object, so that a change made through one   *)
(* of them is seen through all.                                             *)
OneObject ==
  \A t, u \in Threads :
    got[t] # None /\ got[u] # None /\ got[t].by # Wire /\ got[u].by # Wire => got[t] = got[u]

Writes(t, v) == pc[t] = CASE v = "lval" -> "decode" [] v = "b" -> "drop"
Reads(t, v) == pc[t] \in CASE v = "lval" -> {"read"} [] v = "b" -> {"takebuffer", "decode"}

(* No data race: when a goroutine is about to write the value or the        *)
(* buffer, no other one is about to read or write it.  The value is read    *)
(* without the mutex, the buffer only under it.                             *)
NoDataRace ==
  \A t, u \in Threads, v \in {"lval", "b"} :
    t # u /\ Writes(t, v) => ~Writes(u, v) /\ ~Reads(u, v)

(* Every reader returns, though each of them may have to wait for the mutex. *)
EveryCallReturns == \A t \in Threads : pc[t] # "idle" ~> pc[t] = "idle"
=============================================================================
