------------------------------ MODULE TypeInit ------------------------------
(***************************************************************************)
(* Lazy initialization of file descriptors, message types and extension    *)
(* types, and the locks it takes: File.mu (filedesc/desc.go),              *)
(* MessageInfo.initMu, ExtensionInfo.mu, needsInitCheckMu and              *)
(* protoregistry.globalMutex, a sync.RWMutex.                              *)
(*                                                                         *)
(* A goroutine is the list of instructions it still has to run; an         *)
(* instruction is one atomic access, or a call that expands into the       *)
(* instructions of its body.                                               *)
(***************************************************************************)
EXTENDS Integers, Sequences, FiniteSets, SequencesExt

CONSTANTS
  Threads,
  Files,
  Imports,       \* [file |-> the list of files it imports]
  DefaultsFrom,  \* [file |-> the list of files whose nested enums give its fields defaults]
  ByName,        \* the files built without indexes: dependencies found by name
  Messages,
  FileOf,        \* [message or extension |-> its file; for a legacy extension its enum's]
  Fields,        \* [message |-> the list of messages its fields hold]
  Extensions,
  Legacy,        \* extensions of old generated code: no descriptor yet
  Incomplete,    \* of these, the ones with a number only: a placeholder for ever
  Programs,      \* a set of [goroutine |-> the call it makes]
  None

(* The files that f imports, directly or indirectly: they are in every set  *)
(* that has f's imports and the imports of its members.                     *)
Dependencies(f) ==
  {g \in Files : \A D \in SUBSET Files :
     ToSet(Imports[f]) \subseteq D /\ (\A h \in D : ToSet(Imports[h]) \subseteq D) => g \in D}

I(op, on) == [op |-> op, on |-> on]

(* The calls that programs make. *)
Call == [op : {"contents", "find"}, on : Files] \cup [op : {"message"}, on : Messages]
        \cup [op : {"extension", "registerExtension"}, on : Extensions]
        \cup {I("registerFile", None)}

ASSUME InstanceAssumption ==
  /\ \A f \in Files : /\ Imports[f] \in Seq(Files) /\ DefaultsFrom[f] \in Seq(Files)
                      /\ ToSet(DefaultsFrom[f]) \subseteq Dependencies(f) \cup {f}
  /\ ByName \subseteq Files
  /\ \A m \in Messages : FileOf[m] \in Files /\ Fields[m] \in Seq(Messages)
  /\ \A x \in Extensions : FileOf[x] \in Files
  /\ Incomplete \subseteq Legacy /\ Legacy \subseteq Extensions
  /\ Programs \subseteq [Threads -> Call]
  /\ None \notin Threads

(* protoc, protodesc and Go's packages refuse cycles of imports. *)
ASSUME ImportsAcyclic == \A f \in Files : f \notin Dependencies(f)

VARIABLES
  todo,           \* per goroutine: its instructions
  once, L2, fmu,  \* per file: the flag, the contents, who holds File.mu
  initDone, info, imu,  \* per message type: the flag, the tables, initMu
  init, desc, conv, xmu,  \* per extension: the stage, the fields, ExtensionInfo.mu
  marked, verdicts, nmu,  \* needsInitCheckMap: keys, those with a verdict; needsInitCheckMu
  readers,        \* [goroutine |-> how often it holds globalMutex for reading]
  writer,         \* the goroutine that holds globalMutex, or has claimed it
  writing         \* the writer has the lock: no reader is left

fileVars == <<once, L2, fmu>>
messageVars == <<initDone, info, imu>>
extensionVars == <<init, desc, conv, xmu>>
needsVars == <<marked, verdicts, nmu>>
globalVars == <<readers, writer, writing>>
vars == <<todo, fileVars, messageVars, extensionVars, needsVars, globalVars>>

RLock == I("RLock", None)
RUnlock == I("RUnlock", None)

(* The instructions Op(x) for every x of the list.                          *)
Each(s, Op(_)) == FlattenSeq([i \in DOMAIN s |-> Op(s[i])])

-----------------------------------------------------------------------------
(* The calls.                                                               *)

(* Mutant: the descriptor is fetched with the lock held.                    *)
RegisterLocked(x) == <<I("Lock", None), I("TypeDescriptor", x), I("Unlock", None)>>

(* RegisterExtension fetches the descriptor before it locks.                *)
RegisterExtension(x) == <<I("TypeDescriptor", x), I("Lock", None), I("Unlock", None)>>

Body(c) ==
  CASE c.op = "contents" ->  \* Fields, Imports, Options...
         <<I("lazyInit", c.on), I("useFile", c.on)>>
    [] c.op = "find" ->      \* FindDescriptorByName of a nested name, or a RangeFiles callback
         <<RLock, I("lazyInit", c.on), I("useFile", c.on), RUnlock>>
    [] c.op = "message" ->   \* any method of a message
         <<I("init", c.on), I("useMessage", c.on)>>
    [] c.op = "extension" -> \* New, Zero, ValueOf...
         <<I("lazyInitExtension", c.on), I("useConverter", c.on)>>
    [] c.op = "registerExtension" -> RegisterExtension(c.on)
    [] c.op = "registerFile" -> <<I("Lock", None), I("Unlock", None)>>

-----------------------------------------------------------------------------
Init ==
  /\ \E p \in Programs : todo = [t \in Threads |-> Body(p[t])]
  /\ once = [f \in Files |-> FALSE]
  /\ L2 = [f \in Files |-> "nil"]
  /\ fmu = [f \in Files |-> None]
  /\ initDone = [m \in Messages |-> FALSE]
  /\ info = [m \in Messages |-> "nil"]
  /\ imu = [m \in Messages |-> None]
  /\ init = [x \in Extensions |-> IF x \in Legacy THEN 0 ELSE 1]
  /\ desc = [x \in Extensions |-> x \notin Legacy]
  /\ conv = [x \in Extensions |-> FALSE]
  /\ xmu = [x \in Extensions |-> None]
  /\ marked = {} /\ verdicts = {}
  /\ nmu = None
  /\ readers = [t \in Threads |-> 0]
  /\ writer = None
  /\ writing = FALSE

(* The goroutine's next instruction is op; it is replaced by the list s.    *)
At(t, op) == todo[t] # <<>> /\ Head(todo[t]).op = op
Arg(t) == Head(todo[t]).on
Continue(t, s) == todo' = [todo EXCEPT ![t] = s \o Tail(@)]

-----------------------------------------------------------------------------
(* globalMutex.  A writer first claims the lock, which keeps new readers    *)
(* out, and then waits for the readers that are in (sync.RWMutex).          *)

GRLock(t) ==
  /\ At(t, "RLock") /\ writer = None
  /\ readers' = [readers EXCEPT ![t] = @ + 1]
  /\ Continue(t, <<>>)
  /\ UNCHANGED <<fileVars, messageVars, extensionVars, needsVars, writer, writing>>

GRUnlock(t) ==
  /\ At(t, "RUnlock")
  /\ readers' = [readers EXCEPT ![t] = @ - 1]
  /\ Continue(t, <<>>)
  /\ UNCHANGED <<fileVars, messageVars, extensionVars, needsVars, writer, writing>>

GLock(t) ==
  /\ \/ At(t, "Lock") /\ writer = None
        /\ Continue(t, <<I("Locked", None)>>)
        /\ writer' = t /\ UNCHANGED writing
     \/ At(t, "Locked") /\ (\A s \in Threads : readers[s] = 0)
        /\ Continue(t, <<>>)
        /\ writing' = TRUE /\ UNCHANGED writer
  /\ UNCHANGED <<fileVars, messageVars, extensionVars, needsVars, readers>>

GUnlock(t) ==
  /\ At(t, "Unlock")
  /\ writer' = None /\ writing' = FALSE
  /\ Continue(t, <<>>)
  /\ UNCHANGED <<fileVars, messageVars, extensionVars, needsVars, readers>>

-----------------------------------------------------------------------------
(* File.lazyInit.                                                           *)

(* Mutant: the contents are checked instead of the flag.                    *)
TestContents(f) == L2[f] # "nil"

Initialized(f) == once[f]

(* Mutant: Values is called even for an enum of the same file.              *)
UnmarshalAnyDefault(f, g) == <<I("lazyInit", g)>>

(* A default of a field of f that is a value of an enum of g: the values of *)
(* an enum of the same file are read directly.                              *)
UnmarshalDefault(f, g) == IF g = f THEN <<>> ELSE <<I("lazyInit", g)>>

FindFileByPath(f) == <<RLock, RUnlock>>
FindNested(f) == <<RLock, I("lazyInit", f), RUnlock>>

(* unmarshalFull looks up the imports; then the dependencies are resolved,  *)
(* by index or by name, and the defaults that need them.                    *)
lazyRawInit(f) ==
  Each(Imports[f], FindFileByPath)
  \o (IF f \in ByName THEN Each(Imports[f], FindNested) ELSE <<>>)
  \o Each(DefaultsFrom[f], LAMBDA g : UnmarshalDefault(f, g))

LazyInit(t) ==
  /\ At(t, "lazyInit")
  /\ LET f == Arg(t)
     IN Continue(t, IF Initialized(f) THEN <<>>
                    ELSE <<I("lockFile", f), I("rawInit", f), I("storeOnce", f)>>)
  /\ UNCHANGED <<fileVars, messageVars, extensionVars, needsVars, globalVars>>

LockFile(t) ==
  /\ At(t, "lockFile") /\ fmu[Arg(t)] = None
  /\ fmu' = [fmu EXCEPT ![Arg(t)] = t]
  /\ Continue(t, <<>>)
  /\ UNCHANGED <<once, L2, messageVars, extensionVars, needsVars, globalVars>>

(* Mutant: whoever gets the lock initializes the file.                      *)
InitAlways(f) == TRUE

NeedsRawInit(f) == L2[f] = "nil"

RawInit(t) ==
  /\ At(t, "rawInit")
  /\ LET f == Arg(t)
     IN IF NeedsRawInit(f)
        THEN /\ L2' = [L2 EXCEPT ![f] = "partial"]
             /\ Continue(t, lazyRawInit(f) \o <<I("resolved", f)>>)
        ELSE Continue(t, <<>>) /\ UNCHANGED L2
  /\ UNCHANGED <<once, fmu, messageVars, extensionVars, needsVars, globalVars>>

Resolved(t) ==
  /\ At(t, "resolved")
  /\ L2' = [L2 EXCEPT ![Arg(t)] = "full"]
  /\ Continue(t, <<>>)
  /\ UNCHANGED <<once, fmu, messageVars, extensionVars, needsVars, globalVars>>

StoreOnce(t) ==
  /\ At(t, "storeOnce")
  /\ once' = [once EXCEPT ![Arg(t)] = TRUE]
  /\ fmu' = [fmu EXCEPT ![Arg(t)] = None]
  /\ Continue(t, <<>>)
  /\ UNCHANGED <<L2, messageVars, extensionVars, needsVars, globalVars>>

-----------------------------------------------------------------------------
(* needsInitCheck, down to the files its exploration initializes.  (Module  *)
(* NeedsInitCheck has the verdicts; here no message has a required field,   *)
(* so that every exploration goes all the way.)                             *)

NeedsInitCheck(t) ==
  /\ At(t, "needsInitCheck")
  /\ LET m == Arg(t)
     IN Continue(t, IF m \in verdicts THEN <<>>
                    ELSE <<I("lockNeeds", m), I("explore", m), I("unlockNeeds", m)>>)
  /\ UNCHANGED <<fileVars, messageVars, extensionVars, needsVars, globalVars>>

LockNeeds(t) ==
  /\ At(t, "lockNeeds") /\ nmu = None
  /\ nmu' = t
  /\ Continue(t, <<>>)
  /\ UNCHANGED <<fileVars, messageVars, extensionVars, marked, verdicts, globalVars>>

Explore(t) ==
  /\ At(t, "explore")
  /\ LET m == Arg(t)
         Sub(n) == <<I("explore", n)>>
     IN /\ marked' = marked \cup {m}
        /\ Continue(t, IF m \in marked THEN <<>>
                       ELSE <<I("lazyInit", FileOf[m])>> \o Each(Fields[m], Sub)
                            \o <<I("storeVerdict", m)>>)
  /\ UNCHANGED <<fileVars, messageVars, extensionVars, verdicts, nmu, globalVars>>

StoreVerdict(t) ==
  /\ At(t, "storeVerdict")
  /\ verdicts' = verdicts \cup {Arg(t)}
  /\ Continue(t, <<>>)
  /\ UNCHANGED <<fileVars, messageVars, extensionVars, marked, nmu, globalVars>>

UnlockNeeds(t) ==
  /\ At(t, "unlockNeeds")
  /\ nmu' = None
  /\ Continue(t, <<>>)
  /\ UNCHANGED <<fileVars, messageVars, extensionVars, marked, verdicts, globalVars>>

-----------------------------------------------------------------------------
(* MessageInfo.init.                                                        *)

NeedsCheck(m) == <<I("needsInitCheck", m)>>

InitMessage(t) ==
  /\ At(t, "init")
  /\ LET m == Arg(t)
     IN Continue(t, IF initDone[m] THEN <<>> ELSE <<I("lockInit", m), I("initOnce", m)>>)
  /\ UNCHANGED <<fileVars, messageVars, extensionVars, needsVars, globalVars>>

LockInit(t) ==
  /\ At(t, "lockInit") /\ imu[Arg(t)] = None
  /\ imu' = [imu EXCEPT ![Arg(t)] = t]
  /\ Continue(t, <<>>)
  /\ UNCHANGED <<fileVars, initDone, info, extensionVars, needsVars, globalVars>>

DoneUnderLock(m) == initDone[m]

(* makeStructInfo, makeReflectFuncs and makeCoderMethods read the fields    *)
(* and ask needsInitCheck about the messages in them and about the type.    *)
InitOnce(t) ==
  /\ At(t, "initOnce")
  /\ LET m == Arg(t)
     IN IF DoneUnderLock(m)
        THEN Continue(t, <<I("unlockInit", m)>>) /\ UNCHANGED info
        ELSE /\ info' = [info EXCEPT ![m] = "partial"]
             /\ Continue(t, <<I("lazyInit", FileOf[m])>>
                            \o Each(Fields[m], NeedsCheck) \o NeedsCheck(m)
                            \o <<I("storeDone", m), I("unlockInit", m)>>)
  /\ UNCHANGED <<fileVars, initDone, imu, extensionVars, needsVars, globalVars>>

StoreDone(t) ==
  /\ At(t, "storeDone")
  /\ info' = [info EXCEPT ![Arg(t)] = "full"]
  /\ initDone' = [initDone EXCEPT ![Arg(t)] = TRUE]
  /\ Continue(t, <<>>)
  /\ UNCHANGED <<fileVars, imu, extensionVars, needsVars, globalVars>>

UnlockInit(t) ==
  /\ At(t, "unlockInit")
  /\ imu' = [imu EXCEPT ![Arg(t)] = None]
  /\ Continue(t, <<>>)
  /\ UNCHANGED <<fileVars, initDone, info, extensionVars, needsVars, globalVars>>

-----------------------------------------------------------------------------
(* ExtensionInfo.                                                           *)

(* TypeDescriptor wants extensionInfoDescInit, lazyInit extensionInfoFullInit. *)
Stage(op) == IF op = "TypeDescriptor" THEN 1 ELSE 2

LazyInitExtension(t) ==
  /\ \E op \in {"TypeDescriptor", "lazyInitExtension"} :
       /\ At(t, op)
       /\ LET x == Arg(t)
          IN Continue(t, (IF init[x] >= Stage(op) THEN <<>>
                          ELSE <<I("lockExtension", x), I("lazyInitSlow", x), I("unlockExtension", x)>>)
                         \o (IF op = "TypeDescriptor" THEN <<I("useDescriptor", x)>> ELSE <<>>))
  /\ UNCHANGED <<fileVars, messageVars, extensionVars, needsVars, globalVars>>

LockExtension(t) ==
  /\ At(t, "lockExtension") /\ xmu[Arg(t)] = None
  /\ xmu' = [xmu EXCEPT ![Arg(t)] = t]
  /\ Continue(t, <<>>)
  /\ UNCHANGED <<fileVars, messageVars, init, desc, conv, needsVars, globalVars>>

(* initFromLegacy derives the descriptor, reading the values of the field's *)
(* enum; initToLegacy, for new generated code, looks up the extended        *)
(* message in GlobalTypes; then the converter, which reads the default, and *)
(* the coder are made.                                                      *)
LazyInitSlow(t) ==
  /\ At(t, "lazyInitSlow")
  /\ LET x == Arg(t)
     IN Continue(t,
          IF init[x] = 2 THEN <<>>
          ELSE IF x \in Incomplete THEN <<I("setDesc", x), I("storeFull", x)>>
          ELSE (IF desc[x] THEN <<RLock, RUnlock, I("lazyInit", FileOf[x])>>
                ELSE <<I("lazyInit", FileOf[x]), I("setDesc", x)>>)
               \o <<I("setConv", x), I("storeFull", x)>>)
  /\ UNCHANGED <<fileVars, messageVars, extensionVars, needsVars, globalVars>>

SetDesc(t) ==
  /\ At(t, "setDesc")
  /\ desc' = [desc EXCEPT ![Arg(t)] = TRUE]
  /\ Continue(t, <<>>)
  /\ UNCHANGED <<fileVars, messageVars, init, conv, xmu, needsVars, globalVars>>

SetConv(t) ==
  /\ At(t, "setConv")
  /\ conv' = [conv EXCEPT ![Arg(t)] = TRUE]
  /\ Continue(t, <<>>)
  /\ UNCHANGED <<fileVars, messageVars, init, desc, xmu, needsVars, globalVars>>

StoreFull(t) ==
  /\ At(t, "storeFull")
  /\ init' = [init EXCEPT ![Arg(t)] = 2]
  /\ Continue(t, <<>>)
  /\ UNCHANGED <<fileVars, messageVars, desc, conv, xmu, needsVars, globalVars>>

UnlockExtension(t) ==
  /\ At(t, "unlockExtension")
  /\ xmu' = [xmu EXCEPT ![Arg(t)] = None]
  /\ Continue(t, <<>>)
  /\ UNCHANGED <<fileVars, messageVars, init, desc, conv, needsVars, globalVars>>

-----------------------------------------------------------------------------
(* The caller reads what it asked for.                                      *)
Uses == {"useFile", "useMessage", "useDescriptor", "useConverter"}
Use(t) ==
  /\ \E op \in Uses : At(t, op)
  /\ Continue(t, <<>>)
  /\ UNCHANGED <<fileVars, messageVars, extensionVars, needsVars, globalVars>>

Step(t) ==
  \/ GRLock(t) \/ GRUnlock(t) \/ GLock(t) \/ GUnlock(t)
  \/ LazyInit(t) \/ LockFile(t) \/ RawInit(t) \/ Resolved(t) \/ StoreOnce(t)
  \/ NeedsInitCheck(t) \/ LockNeeds(t) \/ Explore(t) \/ StoreVerdict(t) \/ UnlockNeeds(t)
  \/ InitMessage(t) \/ LockInit(t) \/ InitOnce(t) \/ StoreDone(t) \/ UnlockInit(t)
  \/ LazyInitExtension(t) \/ LockExtension(t) \/ LazyInitSlow(t) \/ SetDesc(t) \/ SetConv(t)
  \/ StoreFull(t) \/ UnlockExtension(t)
  \/ Use(t)

Next == \E t \in Threads : Step(t)
Spec == Init /\ [][Next]_vars

(* The Go scheduler runs some goroutine as long as one can run.             *)
FairSpec == Spec /\ WF_vars(Next)

-----------------------------------------------------------------------------
(* Properties.                                                              *)

Instruction ==
  [op : {"lazyInit", "lockFile", "rawInit", "resolved", "storeOnce", "useFile"}, on : Files]
  \cup [op : {"init", "lockInit", "initOnce", "storeDone", "unlockInit", "useMessage",
              "needsInitCheck", "lockNeeds", "explore", "storeVerdict", "unlockNeeds"},
        on : Messages]
  \cup [op : {"TypeDescriptor", "lazyInitExtension", "lockExtension", "lazyInitSlow", "setDesc",
              "setConv", "storeFull", "unlockExtension", "useDescriptor", "useConverter"},
        on : Extensions]
  \cup [op : {"RLock", "RUnlock", "Lock", "Locked", "Unlock"}, on : {None}]

(* One type invariant: goroutines run instructions of the model, and no     *)
(* RUnlock comes without its RLock.                                         *)
TypeOK ==
  /\ todo \in [Threads -> Seq(Instruction)]
  /\ once \in [Files -> BOOLEAN] /\ L2 \in [Files -> {"nil", "partial", "full"}]
  /\ fmu \in [Files -> Threads \cup {None}]
  /\ initDone \in [Messages -> BOOLEAN] /\ info \in [Messages -> {"nil", "partial", "full"}]
  /\ imu \in [Messages -> Threads \cup {None}]
  /\ init \in [Extensions -> 0 .. 2]
  /\ desc \in [Extensions -> BOOLEAN] /\ conv \in [Extensions -> BOOLEAN]
  /\ xmu \in [Extensions -> Threads \cup {None}]
  /\ verdicts \subseteq marked /\ marked \subseteq Messages /\ nmu \in Threads \cup {None}
  /\ readers \in [Threads -> Nat] /\ writer \in Threads \cup {None} /\ writing \in BOOLEAN

(* Nobody sees anything half made: when a caller reads a file's contents, a *)
(* message type's tables, an extension's descriptor or its converter,       *)
(* whichever goroutine made it has finished (desc.go:153-167,               *)
(* message.go:66-96, extension.go:110-144).                                 *)
NothingHalfMade ==
  \A t \in Threads :
    /\ At(t, "useFile") => L2[Arg(t)] = "full"
    /\ At(t, "useMessage") => info[Arg(t)] = "full"
    /\ At(t, "useDescriptor") => desc[Arg(t)]
    /\ At(t, "useConverter") => conv[Arg(t)] \/ Arg(t) \in Incomplete

(* What is complete is never made again: a pointer into it that a caller    *)
(* holds stays valid (desc.go:162, message.go:78, extension.go:128).        *)
MadeOnce ==
  [][/\ \A f \in Files : L2[f] = "full" => L2'[f] = "full"
     /\ \A m \in Messages : info[m] = "full" => info'[m] = "full"]_vars

(* No goroutine asks again for a mutex it holds, although the               *)
(* initialization of a file asks other descriptors for their contents:      *)
(* "lest we bind ourselves in a deadlock" (filedesc/desc.go:677-683).       *)
NoReentry ==
  \A t \in Threads :
    /\ At(t, "lockFile") => fmu[Arg(t)] # t
    /\ At(t, "lockInit") => imu[Arg(t)] # t
    /\ At(t, "lockExtension") => xmu[Arg(t)] # t
    /\ At(t, "lockNeeds") => nmu # t
    /\ At(t, "RLock") => writer # t

(* All calls return: the five locks, taken in whatever nesting the types    *)
(* call for, never leave goroutines waiting for each other.                 *)
AllCallsReturn == <>(\A t \in Threads : todo[t] = <<>>)
=============================================================================
