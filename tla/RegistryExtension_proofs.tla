----------------------- MODULE RegistryExtension_proofs -----------------------
(***************************************************************************)
(* Proofs about the two components that a lazy extension goes through: the *)
(* registries, where its type is found, and the extension field, where its *)
(* value is decoded.                                                       *)
(*                                                                         *)
(* Registry: the file registry finds exactly what is registered, refuses   *)
(* exactly what clashes, and never changes its mind; the two registries    *)
(* agree.  The inductive invariant says which file or package every entry  *)
(* of descsByName stands for; that prefixes of a name form a chain does    *)
(* the rest.                                                               *)
(*                                                                         *)
(* LazyExtension, for any goroutines and any number of records: the        *)
(* inductive invariant ties the mutex to the location of its holder, and   *)
(* says which representation (buffer, lazily decoded value, plain value)   *)
(* holds the records received at each of these locations.                  *)
(***************************************************************************)
EXTENDS Registry, LazyExtension, TLAPS

Entries ==
  \A n \in Names :
    /\ \A f \in Files : descsByName[n] = f <=> Registered(f) /\ n \in TopLevel(f)
    /\ descsByName[n] = "package" <=> \E f \in Files : Registered(f) /\ n \in Packages(f)

PathsAgree ==
  /\ \A f \in Files : Registered(f) => Occurs(f, filesByPath[FileDesc[f].path])
  /\ \A p \in Paths, f \in Files :
       Occurs(f, filesByPath[p]) => Registered(f) /\ FileDesc[f].path = p

Started ==
  \A f \in Files :
    /\ Registered(f) => next[f] # 0
    /\ ~Ignoring /\ next[f] # 0 => Registered(f)

FileInv == TypeOK /\ Entries /\ PathsAgree /\ Started

-----------------------------------------------------------------------------
(* Facts about names and files.                                             *)

LEMMA FileFields ==
  ASSUME NEW f \in Files
  PROVE  /\ FileDesc[f].path \in Paths
         /\ FileDesc[f].package \in Names \cup {Root}
         /\ Packages(f) \subseteq Names
         /\ TopLevel(f) \subseteq Names
         /\ FileDesc[f].nested \subseteq Names
         /\ Declared(f) = TopLevel(f) \cup FileDesc[f].nested
BY FilesAssumption, NamesAssumption DEF Packages, TopLevel, Declared

(* Packages are closed under parents; declarations lie directly in theirs.  *)
LEMMA Scopes ==
  ASSUME NEW f \in Files
  PROVE  /\ \A p \in Packages(f) : Above[p] \subseteq Packages(f)
         /\ \A d \in TopLevel(f) : Above[d] = Packages(f) /\ d \notin Packages(f)
         /\ \A n \in Declared(f) : \E d \in TopLevel(f) : d \in {n} \cup Above[n]
<1>1. \A p \in Packages(f) : Above[p] \subseteq Packages(f)
  BY FilesAssumption, NamesAssumption DEF Packages
<1>2. \A d \in TopLevel(f) : Above[d] = Packages(f)
  BY ScopeAssumption DEF TopLevel
<1>3. \A d \in TopLevel(f) : d \notin Packages(f)
  BY <1>2, NamesAssumption, FileFields
<1>4. \A n \in Declared(f) : \E d \in TopLevel(f) : d \in {n} \cup Above[n]
  BY ScopeAssumption, FileFields DEF TopLevel
<1>. QED  BY <1>1, <1>2, <1>3, <1>4

(* Two prefixes of a name are equal or one is a prefix of the other.        *)
LEMMA Chain ==
  ASSUME NEW n \in Names, NEW a \in {n} \cup Above[n], NEW c \in {n} \cup Above[n]
  PROVE  a = c \/ a \in Above[c] \/ c \in Above[a]
<1>1. {a, c} \in (SUBSET ({n} \cup Above[n])) \ {{}}
  OBVIOUS
<1>2. PICK p \in {a, c} : {a, c} \subseteq {p} \cup Above[p]
  BY <1>1, NearestAssumption
<1>. QED  BY <1>2

LEMMA OccursAppend ==
  ASSUME NEW s \in Seq(Files), NEW f \in Files, NEW g \in Files
  PROVE  Occurs(g, Append(s, f)) <=> Occurs(g, s) \/ g = f
<1>1. ASSUME Occurs(g, Append(s, f)) PROVE Occurs(g, s) \/ g = f
  <2>1. PICK i \in DOMAIN Append(s, f) : Append(s, f)[i] = g
    BY <1>1 DEF Occurs
  <2>2. CASE i = Len(s) + 1
    BY <2>1, <2>2
  <2>3. CASE i # Len(s) + 1
    <3>1. i \in DOMAIN s /\ s[i] = g
      BY <2>1, <2>3
    <3>. QED  BY <3>1 DEF Occurs
  <2>. QED  BY <2>2, <2>3
<1>2. ASSUME Occurs(g, s) PROVE Occurs(g, Append(s, f))
  <2>1. PICK i \in DOMAIN s : s[i] = g
    BY <1>2 DEF Occurs
  <2>2. i \in DOMAIN Append(s, f) /\ Append(s, f)[i] = g
    BY <2>1
  <2>. QED  BY <2>2 DEF Occurs
<1>3. ASSUME g = f PROVE Occurs(g, Append(s, f))
  <2>1. Len(s) + 1 \in DOMAIN Append(s, f) /\ Append(s, f)[Len(s) + 1] = g
    BY <1>3
  <2>. QED  BY <2>1 DEF Occurs
<1>. QED  BY <1>1, <1>2, <1>3

-----------------------------------------------------------------------------
(* What RegisterFile does: it keeps the tables or enters the file.          *)

FileKept == UNCHANGED <<descsByName, packageFiles, filesByPath, numFiles>>
FileEntered(f) ==
  /\ descsByName' = Enter(f)
  /\ packageFiles' = [packageFiles EXCEPT ![FileDesc[f].package] = Append(@, f)]
  /\ filesByPath' = [filesByPath EXCEPT ![FileDesc[f].path] = Append(@, f)]
  /\ numFiles' = numFiles + 1

LEMMA FileOutcomes ==
  ASSUME NEW f \in Files, RegisterFile(f)
  PROVE  /\ next[f] = 0 /\ f \notin failed
         /\ UNCHANGED <<policy, typesByName, extensionsByMessage, num, tried>>
         /\ \/ FileRefused(f) /\ FileKept /\ failed' = failed \cup {f} /\ next' = next
            \/ FileIgnored(f) /\ FileKept /\ failed' = failed /\ next' = [next EXCEPT ![f] = 1]
            \/ /\ ~FileRefused(f) /\ ~FileIgnored(f)
               /\ FileEntered(f) /\ failed' = failed /\ next' = [next EXCEPT ![f] = 1]
BY DEF RegisterFile, fileVars, typeVars, FileKept, FileEntered

-----------------------------------------------------------------------------
(* Type correctness.                                                        *)

LEMMA RegisterTypes ==
  ASSUME TypeOK, NEW t \in Types, Register(t)
  PROVE  /\ typesByName' \in [Names -> Types \cup {Nil}]
         /\ extensionsByMessage' \in [Names \X Numbers -> Types \cup {Nil}]
         /\ num' \in [Kinds -> Nat]
<1>1. TypeDesc[t].name \in Names /\ TypeDesc[t].kind \in Kinds /\ Key(t) \in Names \X Numbers
  BY TypesAssumption DEF Key, Numbers
<1>. QED  BY <1>1 DEF Register, TypeOK

LEMMA TypeCorrect == TypeOK /\ [Next]_vars => TypeOK'
<1>. SUFFICES ASSUME TypeOK, [Next]_vars PROVE TypeOK'
  OBVIOUS
<1>1. ASSUME NEW f \in Files, RegisterFile(f) PROVE TypeOK'
  <2>1. failed' \in SUBSET Files /\ next' \in [Files -> Nat]
    <3>1. failed' = failed \/ failed' = failed \cup {f}
      BY <1>1, FileOutcomes
    <3>2. next' = next \/ next' = [next EXCEPT ![f] = 1]
      BY <1>1, FileOutcomes
    <3>3. failed' \in SUBSET Files
      BY <3>1 DEF TypeOK
    <3>4. next \in [Files -> Nat]
      BY DEF TypeOK
    <3>5. next' \in [Files -> Nat]
      BY <3>2, <3>4
    <3>. QED  BY <3>3, <3>5
  <2>2. CASE FileKept
    BY <1>1, <2>1, <2>2, FileOutcomes DEF TypeOK, FileKept
  <2>3. CASE FileEntered(f)
    <3>1. descsByName' \in [Names -> Files \cup {Nil, "package"}]
      BY <2>3 DEF TypeOK, Enter, FileEntered
    <3>2. packageFiles' \in [Names \cup {Root} -> Seq(Files)]
      BY <2>3, FileFields DEF TypeOK, FileEntered
    <3>3. filesByPath' \in [Paths -> Seq(Files)]
      BY <2>3, FileFields DEF TypeOK, FileEntered
    <3>4. numFiles' \in Nat
      BY <2>3 DEF TypeOK, FileEntered
    <3>. QED  BY <1>1, <2>1, <3>1, <3>2, <3>3, <3>4, FileOutcomes DEF TypeOK
  <2>. QED  BY <1>1, <2>2, <2>3, FileOutcomes
<1>2. ASSUME NEW f \in Files, RegisterType(f) PROVE TypeOK'
  <2>1. TypesOf[f][next[f]] \in Types
    BY <1>2, TypesAssumption DEF RegisterType
  <2>2. CASE UNCHANGED <<typeVars, next>>
    BY <1>2, <2>2 DEF RegisterType, TypeOK, typeVars, fileVars
  <2>3. CASE /\ Register(TypesOf[f][next[f]])
             /\ next' = [next EXCEPT ![f] = @ + 1]
             /\ UNCHANGED failed
    BY <1>2, <2>1, <2>3, RegisterTypes DEF RegisterType, TypeOK, fileVars
  <2>. QED  BY <1>2, <2>2, <2>3 DEF RegisterType
<1>3. ASSUME NEW t \in OwnTypes, RegisterOwnType(t) PROVE TypeOK'
  <2>1. t \in Types
    BY TypesAssumption
  <2>2. CASE UNCHANGED typeVars
    BY <1>3, <2>2 DEF RegisterOwnType, TypeOK, typeVars, fileVars
  <2>3. CASE Register(t)
    BY <1>3, <2>1, <2>3, RegisterTypes DEF RegisterOwnType, TypeOK, fileVars
  <2>. QED  BY <1>3, <2>2, <2>3 DEF RegisterOwnType
<1>4. ASSUME UNCHANGED vars PROVE TypeOK'
  BY <1>4 DEF vars, fileVars, typeVars, TypeOK
<1>. QED  BY <1>1, <1>2, <1>3, <1>4 DEF Next, Terminated

(* The state of both registries, and of every Build, has its type.          *)
THEOREM TypeSafe == Spec => []TypeOK
<1>1. Init => TypeOK
  BY DEF Init, TypeOK
<1>. QED  BY <1>1, TypeCorrect, PTL DEF Spec

-----------------------------------------------------------------------------
(* The file registry.                                                       *)

LEMMA RegisteredAfter ==
  ASSUME TypeOK, NEW f \in Files, FileEntered(f), NEW g \in Files
  PROVE  Registered(g)' <=> Registered(g) \/ g = f
<1>1. CASE FileDesc[g].package = FileDesc[f].package
  <2>1. packageFiles'[FileDesc[g].package] = Append(packageFiles[FileDesc[g].package], f)
    BY <1>1, FileFields DEF FileEntered, TypeOK
  <2>2. packageFiles[FileDesc[g].package] \in Seq(Files)
    BY FileFields DEF TypeOK
  <2>. QED  BY <2>1, <2>2, OccursAppend DEF Registered
<1>2. CASE FileDesc[g].package # FileDesc[f].package
  <2>1. packageFiles'[FileDesc[g].package] = packageFiles[FileDesc[g].package]
    BY <1>2, FileFields DEF FileEntered, TypeOK
  <2>. QED  BY <1>2, <2>1 DEF Registered, Occurs
<1>. QED  BY <1>1, <1>2

(* A file that is entered has found its names free.                         *)
LEMMA EntriesAfter ==
  ASSUME TypeOK, Entries, NEW f \in Files, FileEntered(f), ~PackageConflict(f), ~NameConflict(f)
  PROVE  Entries'
<1>. SUFFICES ASSUME NEW n \in Names
              PROVE  /\ \A g \in Files : descsByName'[n] = g <=> Registered(g)' /\ n \in TopLevel(g)
                     /\ descsByName'[n] = "package"
                          <=> \E g \in Files : Registered(g)' /\ n \in Packages(g)
  BY DEF Entries, TopLevel, Packages
<1>1. \A g \in Files : Registered(g)' <=> Registered(g) \/ g = f
  BY RegisteredAfter
<1>2. /\ \A g \in Files : descsByName[n] = g <=> Registered(g) /\ n \in TopLevel(g)
      /\ descsByName[n] = "package" <=> \E g \in Files : Registered(g) /\ n \in Packages(g)
  BY DEF Entries
<1>3. CASE n \in TopLevel(f)
  <2>1. descsByName'[n] = f
    BY <1>3 DEF FileEntered, Enter
  <2>2. descsByName[n] = Nil
    BY <1>3 DEF NameConflict
  <2>3. n \notin Packages(f)
    BY <1>3, Scopes
  <2>. QED  BY <1>1, <1>2, <1>3, <2>1, <2>2, <2>3, NilAssumption
<1>4. CASE n \notin TopLevel(f) /\ n \in Packages(f)
  <2>1. descsByName'[n] = "package"
    BY <1>4 DEF FileEntered, Enter
  <2>2. descsByName[n] \notin Files
    BY <1>4 DEF PackageConflict
  <2>. QED  BY <1>1, <1>2, <1>4, <2>1, <2>2, NilAssumption
<1>5. CASE n \notin TopLevel(f) /\ n \notin Packages(f)
  <2>1. descsByName'[n] = descsByName[n]
    BY <1>5 DEF FileEntered, Enter
  <2>. QED  BY <1>1, <1>2, <1>5, <2>1
<1>. QED  BY <1>3, <1>4, <1>5

LEMMA PathsAfter ==
  ASSUME TypeOK, PathsAgree, NEW f \in Files, FileEntered(f)
  PROVE  PathsAgree'
<1>1. \A g \in Files : Registered(g)' <=> Registered(g) \/ g = f
  BY RegisteredAfter
<1>2. ASSUME NEW p \in Paths, NEW g \in Files
      PROVE  Occurs(g, filesByPath'[p]) <=> Occurs(g, filesByPath[p]) \/ (g = f /\ p = FileDesc[f].path)
  <2>1. filesByPath[p] \in Seq(Files)
    BY DEF TypeOK
  <2>2. CASE p = FileDesc[f].path
    <3>1. filesByPath'[p] = Append(filesByPath[p], f)
      BY <2>2 DEF FileEntered, TypeOK
    <3>. QED  BY <2>1, <2>2, <3>1, OccursAppend
  <2>3. CASE p # FileDesc[f].path
    <3>1. filesByPath'[p] = filesByPath[p]
      BY <2>3 DEF FileEntered, TypeOK
    <3>. QED  BY <2>3, <3>1
  <2>. QED  BY <2>2, <2>3
<1>3. ASSUME NEW g \in Files, Registered(g)' PROVE Occurs(g, filesByPath'[FileDesc[g].path])
  BY <1>1, <1>2, <1>3, FileFields DEF PathsAgree
<1>4. ASSUME NEW p \in Paths, NEW g \in Files, Occurs(g, filesByPath'[p])
      PROVE  Registered(g)' /\ FileDesc[g].path = p
  BY <1>1, <1>2, <1>4 DEF PathsAgree
<1>5. \A p, g : Occurs(g, filesByPath[p])' <=> Occurs(g, filesByPath'[p])
  BY DEF Occurs
<1>. QED  BY <1>3, <1>4, <1>5 DEF PathsAgree

(* Every step keeps the tables of the file registry or enters a file.       *)
LEMMA FileSteps ==
  ASSUME FileInv, [Next]_vars
  PROVE  /\ policy' = policy
         /\ \A f \in Files : next'[f] # 0 => next[f] # 0 \/ RegisterFile(f)
         /\ \A f \in Files : next[f] # 0 => next'[f] # 0
         /\ \/ FileKept
            \/ \E f \in Files : RegisterFile(f) /\ FileEntered(f)
<1>0. next \in [Files -> Nat]
  BY DEF FileInv, TypeOK
<1>1. ASSUME NEW f \in Files, RegisterFile(f)
      PROVE  /\ policy' = policy
             /\ \A g \in Files : next'[g] # 0 => next[g] # 0 \/ RegisterFile(g)
             /\ \A g \in Files : next[g] # 0 => next'[g] # 0
             /\ FileKept \/ FileEntered(f)
  <2>1. next' = next \/ next' = [next EXCEPT ![f] = 1]
    BY <1>1, FileOutcomes
  <2>2. \A g \in Files : g # f => next'[g] = next[g]
    BY <1>0, <2>1
  <2>3. next[f] = 0
    BY <1>1, FileOutcomes
  <2>. QED  BY <1>1, <2>2, <2>3, FileOutcomes
<1>2. ASSUME NEW f \in Files, RegisterType(f)
      PROVE  /\ policy' = policy
             /\ \A g \in Files : (next'[g] # 0) <=> (next[g] # 0)
             /\ FileKept
  <2>1. next' = next \/ next' = [next EXCEPT ![f] = @ + 1]
    BY <1>2 DEF RegisterType
  <2>2. next[f] # 0
    BY <1>2 DEF RegisterType
  <2>3. \A g \in Files : (next'[g] # 0) <=> (next[g] # 0)
    BY <1>0, <2>1, <2>2
  <2>. QED  BY <1>2, <2>3 DEF RegisterType, fileVars, FileKept
<1>3. ASSUME NEW t \in OwnTypes, RegisterOwnType(t)
      PROVE  policy' = policy /\ next' = next /\ FileKept
  BY <1>3 DEF RegisterOwnType, fileVars, FileKept
<1>4. ASSUME UNCHANGED vars PROVE policy' = policy /\ next' = next /\ FileKept
  BY <1>4 DEF vars, fileVars, FileKept
<1>. QED  BY <1>1, <1>2, <1>3, <1>4 DEF Next, Terminated

LEMMA KeptRegistered ==
  ASSUME FileKept, NEW f \in Files
  PROVE  Registered(f)' <=> Registered(f)
BY DEF FileKept, Registered, Occurs

LEMMA FileInvStep == FileInv /\ [Next]_vars => FileInv'
<1>. SUFFICES ASSUME FileInv, [Next]_vars PROVE FileInv'
  OBVIOUS
<1>1. TypeOK'
  BY TypeCorrect DEF FileInv
<1>2. CASE FileKept
  <2>1. \A f \in Files : Registered(f)' <=> Registered(f)
    BY <1>2, KeptRegistered
  <2>2. Entries'
    BY <1>2, <2>1 DEF FileInv, Entries, FileKept, TopLevel, Packages
  <2>3. PathsAgree'
    BY <1>2 DEF FileInv, PathsAgree, FileKept, Registered, Occurs
  <2>4. ASSUME NEW f \in Files, ~Ignoring, next'[f] # 0, next[f] = 0 PROVE FALSE
    <3>1. RegisterFile(f)
      BY <2>4, FileSteps
    <3>2. FileIgnored(f) \/ FileEntered(f)
      BY <1>1, <2>4, <3>1, FileOutcomes
    <3>3. ~FileIgnored(f)
      BY <2>4 DEF FileIgnored, FileRefused
    <3>4. Registered(f)'
      BY <3>2, <3>3, RegisteredAfter DEF FileInv
    <3>5. ~Registered(f)
      BY <2>4 DEF FileInv, Started
    <3>. QED  BY <2>1, <3>4, <3>5
  <2>5. Started'
    BY <2>1, <2>4, FileSteps DEF FileInv, Started, Ignoring
  <2>. QED  BY <1>1, <2>2, <2>3, <2>5 DEF FileInv
<1>3. ASSUME NEW f \in Files, RegisterFile(f), FileEntered(f), ~FileKept PROVE FileInv'
  <2>1. ~FileRefused(f) /\ ~FileIgnored(f) /\ next' = [next EXCEPT ![f] = 1]
    BY <1>3, FileOutcomes
  <2>2. ~PackageConflict(f) /\ ~NameConflict(f)
    BY <2>1 DEF FileIgnored
  <2>3. Entries'
    BY <1>3, <2>2, EntriesAfter DEF FileInv
  <2>4. PathsAgree'
    BY <1>3, PathsAfter DEF FileInv
  <2>5. next \in [Files -> Nat]
    BY DEF FileInv, TypeOK
  <2>6. \A g \in Files : next'[g] = IF g = f THEN 1 ELSE next[g]
    BY <2>1, <2>5
  <2>7. \A g \in Files : Registered(g)' <=> Registered(g) \/ g = f
    BY <1>3, RegisteredAfter DEF FileInv
  <2>8. Started'
    BY <2>6, <2>7, FileSteps DEF FileInv, Started, Ignoring
  <2>. QED  BY <1>1, <2>3, <2>4, <2>8 DEF FileInv
<1>. QED  BY <1>2, <1>3, FileSteps

LEMMA FileInvInit == Init => FileInv
<1>. SUFFICES ASSUME Init PROVE FileInv
  OBVIOUS
<1>1. TypeOK
  BY DEF Init, TypeOK
<1>2. \A f \in Files : ~Registered(f)
  BY FileFields DEF Init, Registered, Occurs
<1>3. Entries
  BY <1>2, NilAssumption DEF Init, Entries
<1>4. PathsAgree
  BY <1>2 DEF Init, PathsAgree, Occurs
<1>5. Started
  BY <1>2 DEF Init, Started
<1>. QED  BY <1>1, <1>3, <1>4, <1>5 DEF FileInv

THEOREM FileInvariant == Spec => []FileInv
BY FileInvInit, FileInvStep, PTL DEF Spec

-----------------------------------------------------------------------------
(* Lookup by name.                                                          *)

LEMMA NearestEntered ==
  ASSUME NEW n \in Names, Entered(n) # {}
  PROVE  /\ Nearest(n) \in Entered(n)
         /\ Entered(n) \subseteq {Nearest(n)} \cup Above[Nearest(n)]
<1>1. Entered(n) \in (SUBSET ({n} \cup Above[n])) \ {{}}
  BY DEF Entered
<1>2. \E p \in Entered(n) : Entered(n) \subseteq {p} \cup Above[p]
  BY <1>1, NearestAssumption
<1>. QED  BY <1>2 DEF Nearest

(* The nearest entry above a declared name is the top-level declaration it  *)
(* is in: anything nearer would make that declaration a package.            *)
LEMMA NearestOfDeclared ==
  ASSUME FileInv, NEW f \in Files, Registered(f), NEW n \in Names,
         NEW d \in TopLevel(f), d \in {n} \cup Above[n]
  PROVE  Entered(n) # {} /\ Nearest(n) = d /\ descsByName[d] = f
<1>1. d \in Names
  BY FileFields
<1>2. descsByName[d] = f
  BY <1>1 DEF FileInv, Entries
<1>3. d \in Entered(n)
  BY <1>2, NilAssumption DEF Entered
<1>4. Nearest(n) \in Entered(n) /\ d \in {Nearest(n)} \cup Above[Nearest(n)]
  BY <1>3, NearestEntered
<1>5. Nearest(n) \in Names /\ descsByName[Nearest(n)] # Nil
  BY <1>4, NamesAssumption DEF Entered
<1>6. ASSUME d \in Above[Nearest(n)] PROVE FALSE
  <2>1. CASE descsByName[Nearest(n)] = "package"
    <3>1. PICK g \in Files : Registered(g) /\ Nearest(n) \in Packages(g)
      BY <1>5, <2>1 DEF FileInv, Entries
    <3>2. d \in Packages(g)
      BY <1>6, <3>1, Scopes
    <3>3. descsByName[d] = "package"
      BY <1>1, <3>1, <3>2 DEF FileInv, Entries
    <3>. QED  BY <1>2, <3>3, NilAssumption
  <2>2. CASE descsByName[Nearest(n)] \in Files
    <3>1. PICK g \in Files : Registered(g) /\ Nearest(n) \in TopLevel(g)
      BY <1>5, <2>2 DEF FileInv, Entries
    <3>2. d \in Packages(g)
      BY <1>6, <3>1, Scopes
    <3>3. descsByName[d] = "package"
      BY <1>1, <3>1, <3>2 DEF FileInv, Entries
    <3>. QED  BY <1>2, <3>3, NilAssumption
  <2>. QED  BY <1>5, <2>1, <2>2 DEF FileInv, TypeOK
<1>. QED  BY <1>2, <1>3, <1>4, <1>6

LEMMA FindFinds ==
  ASSUME FileInv, NEW f \in Files, Registered(f), NEW n \in Names, n \in Declared(f)
  PROVE  FindDescriptorByName(n) = <<f, n>>
<1>1. PICK d \in TopLevel(f) : d \in {n} \cup Above[n]
  BY Scopes
<1>2. Entered(n) # {} /\ Nearest(n) = d /\ descsByName[d] = f
  BY <1>1, NearestOfDeclared
<1>3. f # "package"
  BY NilAssumption
<1>4. n \in TopLevel(f) => n = d
  <2>1. ASSUME n \in TopLevel(f), n # d PROVE FALSE
    <3>1. d \in Packages(f)
      BY <1>1, <2>1, Scopes
    <3>. QED  BY <3>1, Scopes
  <2>. QED  BY <2>1
<1>5. n = d \/ n \in FileDesc[f].nested
  BY <1>4, FileFields
<1>. QED  BY <1>2, <1>3, <1>5 DEF FindDescriptorByName

LEMMA FindOnly ==
  ASSUME FileInv, NEW n \in Names, FindDescriptorByName(n) # NotFound
  PROVE  \E f \in Files : Registered(f) /\ n \in Declared(f) /\ FindDescriptorByName(n) = <<f, n>>
<1>1. Entered(n) # {} /\ descsByName[Nearest(n)] # "package"
  BY DEF FindDescriptorByName
<1>2. Nearest(n) \in Names /\ descsByName[Nearest(n)] # Nil
  BY <1>1, NearestEntered, NamesAssumption DEF Entered
<1>3. PICK f \in Files : f = descsByName[Nearest(n)]
  BY <1>1, <1>2 DEF FileInv, TypeOK
<1>4. Registered(f) /\ Nearest(n) \in TopLevel(f)
  BY <1>2, <1>3 DEF FileInv, Entries
<1>5. FindDescriptorByName(n) = <<f, n>> /\ (n = Nearest(n) \/ n \in FileDesc[f].nested)
  BY <1>1, <1>3 DEF FindDescriptorByName
<1>6. n \in Declared(f)
  BY <1>4, <1>5, FileFields
<1>. QED  BY <1>4, <1>5, <1>6

LEMMA ExactFromInv == FileInv => FindIsExact
<1>. SUFFICES ASSUME FileInv, NEW n \in Names, NEW f \in Files
              PROVE  FindDescriptorByName(n) = <<f, n>> <=> Registered(f) /\ n \in Declared(f)
  BY DEF FindIsExact
<1>1. ASSUME FindDescriptorByName(n) = <<f, n>> PROVE Registered(f) /\ n \in Declared(f)
  <2>1. FindDescriptorByName(n) # NotFound
    BY <1>1 DEF NotFound
  <2>2. PICK g \in Files : Registered(g) /\ n \in Declared(g) /\ FindDescriptorByName(n) = <<g, n>>
    BY <2>1, FindOnly
  <2>3. f = g
    BY <1>1, <2>2
  <2>. QED  BY <2>2, <2>3
<1>. QED  BY <1>1, FindFinds

(* FindDescriptorByName finds exactly the declarations of the registered    *)
(* files, nested ones included, for every set of files and names.           *)
THEOREM FindExact == Spec => []FindIsExact
BY FileInvariant, ExactFromInv, PTL

(* A name that resolves keeps its meaning, whatever the policy ignores.     *)
THEOREM DescriptorsFinal == Spec => DescriptorsAreFinal
<1>1. ASSUME FileInv, FileInv', [Next]_vars, NEW n \in Names, FindDescriptorByName(n) # NotFound
      PROVE  FindDescriptorByName(n)' = FindDescriptorByName(n)
  <2>1. PICK f \in Files : Registered(f) /\ n \in Declared(f) /\ FindDescriptorByName(n) = <<f, n>>
    BY <1>1, FindOnly
  <2>2. Registered(f)'
    <3>1. CASE FileKept
      BY <2>1, <3>1, KeptRegistered
    <3>2. CASE \E g \in Files : FileEntered(g)
      BY <1>1, <2>1, <3>2, RegisteredAfter DEF FileInv
    <3>. QED  BY <1>1, <3>1, <3>2, FileSteps
  <2>3. FindIsExact'
    BY <1>1, ExactFromInv, PTL
  <2>4. FindDescriptorByName(n)' = <<f, n>>
    BY <2>1, <2>2, <2>3 DEF FindIsExact, Declared
  <2>. QED  BY <2>1, <2>4
<1>2. FileInv /\ FileInv' /\ [Next]_vars =>
        [\A n \in Names : FindDescriptorByName(n) # NotFound
           => FindDescriptorByName(n)' = FindDescriptorByName(n)]_vars
  BY <1>1
<1>. QED  BY <1>2, FileInvariant, PTL DEF Spec, DescriptorsAreFinal

-----------------------------------------------------------------------------
(* Registration conflicts.                                                  *)

LEMMA PathTakenExact ==
  ASSUME FileInv, NEW f \in Files
  PROVE  PathTaken(f) <=> \E g \in Files : Registered(g) /\ FileDesc[f].path = FileDesc[g].path
<1>0. filesByPath[FileDesc[f].path] \in Seq(Files)
  BY FileFields DEF FileInv, TypeOK
<1>1. ASSUME PathTaken(f)
      PROVE  \E g \in Files : Registered(g) /\ FileDesc[f].path = FileDesc[g].path
  <2>1. 1 \in DOMAIN filesByPath[FileDesc[f].path]
    BY <1>0, <1>1 DEF PathTaken
  <2>2. PICK g \in Files : g = filesByPath[FileDesc[f].path][1]
    BY <1>0, <2>1
  <2>3. Occurs(g, filesByPath[FileDesc[f].path])
    BY <2>1, <2>2 DEF Occurs
  <2>. QED  BY <2>3, FileFields DEF FileInv, PathsAgree
<1>2. ASSUME NEW g \in Files, Registered(g), FileDesc[f].path = FileDesc[g].path
      PROVE  PathTaken(f)
  <2>1. Occurs(g, filesByPath[FileDesc[f].path])
    BY <1>2 DEF FileInv, PathsAgree
  <2>. QED  BY <1>0, <2>1 DEF Occurs, PathTaken
<1>. QED  BY <1>1, <1>2

(* The checks of top-level names and packages find every overlap.           *)
LEMMA OverlapExact ==
  ASSUME FileInv, NEW f \in Files
  PROVE  PackageConflict(f) \/ NameConflict(f)
           <=> \E g \in Files : Registered(g) /\ Overlap(f, g)
<1>1. ASSUME PackageConflict(f) PROVE \E g \in Files : Registered(g) /\ Overlap(f, g)
  <2>1. PICK p \in Packages(f) : descsByName[p] \in Files
    BY <1>1 DEF PackageConflict
  <2>2. PICK g \in Files : Registered(g) /\ p \in TopLevel(g)
    BY <2>1, FileFields DEF FileInv, Entries
  <2>. QED  BY <2>1, <2>2, FileFields DEF Overlap
<1>2. ASSUME NameConflict(f) PROVE \E g \in Files : Registered(g) /\ Overlap(f, g)
  <2>1. PICK d \in TopLevel(f) : descsByName[d] # Nil
    BY <1>2 DEF NameConflict
  <2>2. d \in Names /\ d \in Declared(f)
    BY FileFields
  <2>3. PICK g \in Files : Registered(g) /\ (d \in TopLevel(g) \/ d \in Packages(g))
    BY <2>1, <2>2 DEF FileInv, Entries, TypeOK
  <2>4. d \in Declared(g) \cup Packages(g)
    BY <2>3, FileFields
  <2>. QED  BY <2>2, <2>3, <2>4 DEF Overlap
<1>3. ASSUME NEW g \in Files, Registered(g), Overlap(f, g)
      PROVE  PackageConflict(f) \/ NameConflict(f)
  <2>1. ASSUME NEW d \in TopLevel(f), d \in TopLevel(g) \/ d \in Packages(g) PROVE NameConflict(f)
    <3>1. descsByName[d] = g \/ descsByName[d] = "package"
      BY <1>3, <2>1, FileFields DEF FileInv, Entries
    <3>. QED  BY <3>1, NilAssumption DEF NameConflict
  <2>2. ASSUME NEW p \in Packages(f), p \in TopLevel(g) PROVE PackageConflict(f)
    <3>1. descsByName[p] = g
      BY <1>3, <2>2, FileFields DEF FileInv, Entries
    <3>. QED  BY <3>1 DEF PackageConflict
  <2>3. ASSUME NEW n \in Declared(f), n \in Declared(g) PROVE PackageConflict(f) \/ NameConflict(f)
    <3>1. PICK d \in TopLevel(f) : d \in {n} \cup Above[n]
      BY Scopes
    <3>2. PICK e \in TopLevel(g) : e \in {n} \cup Above[n]
      BY <2>3, Scopes
    <3>3. n \in Names
      BY FileFields
    <3>4. d = e \/ d \in Above[e] \/ e \in Above[d]
      BY <3>1, <3>2, <3>3, Chain
    <3>5. d = e \/ d \in Packages(g) \/ e \in Packages(f)
      BY <3>4, Scopes
    <3>. QED  BY <3>5, <2>1, <2>2
  <2>4. ASSUME NEW n \in Declared(f), n \in Packages(g) PROVE NameConflict(f)
    <3>1. PICK d \in TopLevel(f) : d \in {n} \cup Above[n]
      BY Scopes
    <3>2. d \in Packages(g)
      BY <2>4, <3>1, Scopes
    <3>. QED  BY <2>1, <3>2
  <2>5. ASSUME NEW n \in Packages(f), n \in Declared(g) PROVE PackageConflict(f)
    <3>1. PICK e \in TopLevel(g) : e \in {n} \cup Above[n]
      BY <2>5, Scopes
    <3>2. e \in Packages(f)
      BY <2>5, <3>1, Scopes
    <3>. QED  BY <2>2, <3>2
  <2>. QED  BY <1>3, <2>3, <2>4, <2>5 DEF Overlap
<1>. QED  BY <1>1, <1>2, <1>3

LEMMA ClashExact ==
  ASSUME FileInv, NEW f \in Files
  PROVE  Clash(f) <=> FileRefused(f) \/ FileIgnored(f)
<1>1. Clash(f) <=> \/ \E g \in Files : Registered(g) /\ Overlap(f, g)
                   \/ /\ \E g \in Files : Registered(g) /\ FileDesc[f].path = FileDesc[g].path
                      /\ checkGenProtoConflict(f) \/ ~Ignoring
  BY DEF Clash
<1>2. FileRefused(f) \/ FileIgnored(f)
        <=> \/ PackageConflict(f) \/ NameConflict(f)
            \/ PathTaken(f) /\ (checkGenProtoConflict(f) \/ ~Ignoring)
  BY DEF FileRefused, FileIgnored
<1>. QED  BY <1>1, <1>2, PathTakenExact, OverlapExact

(* RegisterFile turns a file away exactly when it clashes with a registered *)
(* one; for every set of files, although only top-level names are compared. *)
THEOREM RefusesExactly == Spec => RefusedIffClash
<1>1. ASSUME FileInv, [Next]_vars, NEW f \in Files, next[f] = 0,
             next'[f] = 1 \/ f \in failed' \ failed
      PROVE  Registered(f)' <=> ~Clash(f)
  <2>1. RegisterFile(f)
    <3>1. CASE next'[f] = 1
      BY <1>1, <3>1, FileSteps
    <3>2. CASE f \in failed' \ failed
      <4>1. ASSUME NEW g \in Files, RegisterFile(g) PROVE g = f
        BY <3>2, <4>1, FileOutcomes
      <4>2. ASSUME NEW g \in Files, RegisterType(g) PROVE FALSE
        <5>1. failed' = failed \/ failed' = failed \cup {g}
          BY <4>2 DEF RegisterType
        <5>2. g = f
          BY <3>2, <5>1
        <5>. QED  BY <1>1, <4>2, <5>2 DEF RegisterType
      <4>3. ASSUME NEW t \in OwnTypes, RegisterOwnType(t) PROVE FALSE
        BY <3>2, <4>3 DEF RegisterOwnType
      <4>4. ASSUME UNCHANGED vars PROVE FALSE
        BY <3>2, <4>4 DEF vars
      <4>. QED  BY <1>1, <4>1, <4>2, <4>3, <4>4 DEF Next, Terminated
    <3>. QED  BY <1>1, <3>1, <3>2
  <2>2. ~Registered(f)
    BY <1>1 DEF FileInv, Started
  <2>3. CASE FileRefused(f) \/ FileIgnored(f)
    <3>1. FileKept
      BY <2>1, <2>3, FileOutcomes
    <3>2. ~Registered(f)'
      BY <2>2, <3>1, KeptRegistered
    <3>. QED  BY <1>1, <2>3, <3>2, ClashExact
  <2>4. CASE ~(FileRefused(f) \/ FileIgnored(f))
    <3>1. FileEntered(f)
      BY <2>1, <2>4, FileOutcomes
    <3>2. Registered(f)'
      BY <1>1, <3>1, RegisteredAfter DEF FileInv
    <3>. QED  BY <1>1, <2>4, <3>2, ClashExact
  <2>. QED  BY <2>3, <2>4
<1>2. FileInv /\ [Next]_vars =>
        [\A f \in Files : next[f] = 0 /\ (next'[f] = 1 \/ f \in failed' \ failed)
                            => (Registered(f)' <=> ~Clash(f))]_vars
  BY <1>1
<1>. QED  BY <1>2, FileInvariant, PTL DEF Spec, RefusedIffClash

-----------------------------------------------------------------------------
(* The type registry.                                                       *)

(* A type that Build registered belongs to a registered file.               *)
Owned ==
  ~Ignoring => \A f \in Files : \A i \in 1 .. Len(TypesOf[f]) :
    typesByName[TypeDesc[TypesOf[f][i]].name] = TypesOf[f][i] => Registered(f)

TypeInv == FileInv /\ Owned /\ NumbersMatchNames

(* Every step keeps the type registry or registers one type, which comes    *)
(* from a Build that has registered its file or is the program's own.       *)
LEMMA TypeSteps ==
  ASSUME FileInv, [Next]_vars
  PROVE  \/ UNCHANGED <<typesByName, extensionsByMessage>>
         \/ \E t \in Types :
              /\ Register(t)
              /\ \/ t \in OwnTypes
                 \/ \E f \in Files : \E i \in 1 .. Len(TypesOf[f]) :
                      t = TypesOf[f][i] /\ (~Ignoring => Registered(f))
<1>1. ASSUME NEW f \in Files, RegisterFile(f) PROVE UNCHANGED <<typesByName, extensionsByMessage>>
  BY <1>1, FileOutcomes
<1>2. ASSUME NEW f \in Files, RegisterType(f), ~UNCHANGED <<typesByName, extensionsByMessage>>
      PROVE  /\ next[f] \in 1 .. Len(TypesOf[f])
             /\ TypesOf[f][next[f]] \in Types
             /\ Register(TypesOf[f][next[f]])
             /\ ~Ignoring => Registered(f)
  <2>1. next[f] \in 1 .. Len(TypesOf[f]) /\ Register(TypesOf[f][next[f]])
    BY <1>2 DEF RegisterType, typeVars
  <2>2. TypesOf[f][next[f]] \in Types
    BY <2>1, TypesAssumption
  <2>3. next[f] # 0
    BY <2>1
  <2>. QED  BY <2>1, <2>2, <2>3 DEF FileInv, Started
<1>3. ASSUME NEW t \in OwnTypes, RegisterOwnType(t), ~UNCHANGED <<typesByName, extensionsByMessage>>
      PROVE  t \in Types /\ Register(t)
  BY <1>3, TypesAssumption DEF RegisterOwnType, typeVars
<1>4. ASSUME UNCHANGED vars PROVE UNCHANGED <<typesByName, extensionsByMessage>>
  BY <1>4 DEF vars, typeVars
<1>. QED  BY <1>1, <1>2, <1>3, <1>4 DEF Next, Terminated

(* Without ignored conflicts an entry is only made where there was none.    *)
LEMMA RegisterEntry ==
  ASSUME TypeOK, NEW t \in Types, Register(t), ~Ignoring
  PROVE  /\ typesByName[TypeDesc[t].name] = Nil
         /\ \A n \in Names : typesByName'[n] = IF n = TypeDesc[t].name THEN t ELSE typesByName[n]
         /\ IsExtension(t) => extensionsByMessage[Key(t)] = Nil
         /\ \A k \in Names \X Numbers :
              extensionsByMessage'[k] = IF IsExtension(t) /\ k = Key(t) THEN t
                                        ELSE extensionsByMessage[k]
<1>1. ~TypeConflict(t)
  BY DEF Register
<1>2. TypeDesc[t].name \in Names /\ Key(t) \in Names \X Numbers
  BY TypesAssumption DEF Key, Numbers
<1>3. \A n \in Names : typesByName'[n] = IF n = TypeDesc[t].name THEN t ELSE typesByName[n]
  BY <1>2 DEF Register, TypeOK
<1>4. \A k \in Names \X Numbers :
        extensionsByMessage'[k] = IF IsExtension(t) /\ k = Key(t) THEN t ELSE extensionsByMessage[k]
  BY <1>2 DEF Register, TypeOK
<1>. QED  BY <1>1, <1>3, <1>4 DEF TypeConflict

LEMMA TypeInvStep == TypeInv /\ [Next]_vars => TypeInv'
<1>. SUFFICES ASSUME TypeInv, [Next]_vars PROVE TypeInv'
  OBVIOUS
<1>0. FileInv /\ FileInv' /\ policy' = policy
  BY FileInvStep, FileSteps DEF TypeInv
<1>1. \A f \in Files : Registered(f) => Registered(f)'
  <2>1. CASE FileKept
    BY <2>1, KeptRegistered
  <2>2. CASE \E g \in Files : FileEntered(g)
    BY <1>0, <2>2, RegisteredAfter DEF FileInv
  <2>. QED  BY <1>0, <2>1, <2>2, FileSteps
<1>2. CASE UNCHANGED <<typesByName, extensionsByMessage>>
  <2>1. Owned'
    BY <1>0, <1>1, <1>2 DEF TypeInv, Owned, Ignoring
  <2>2. NumbersMatchNames'
    BY <1>0, <1>2 DEF TypeInv, NumbersMatchNames, Ignoring, Key, IsExtension
  <2>. QED  BY <1>0, <2>1, <2>2 DEF TypeInv
<1>3. CASE Ignoring
  BY <1>0, <1>3 DEF TypeInv, Owned, NumbersMatchNames, Ignoring
<1>4. ASSUME ~Ignoring, NEW t \in Types, Register(t),
             \/ t \in OwnTypes
             \/ \E f \in Files : \E i \in 1 .. Len(TypesOf[f]) :
                  t = TypesOf[f][i] /\ Registered(f)
      PROVE  TypeInv'
  <2>1. ASSUME NEW f \in Files, NEW i \in 1 .. Len(TypesOf[f]),
               typesByName'[TypeDesc[TypesOf[f][i]].name] = TypesOf[f][i]
        PROVE  Registered(f)'
    <3>0. TypesOf[f][i] \in Types /\ TypeDesc[TypesOf[f][i]].name \in Names
      BY TypesAssumption
    <3>1. TypesOf[f][i] = t \/ typesByName[TypeDesc[TypesOf[f][i]].name] = TypesOf[f][i]
      BY <1>0, <1>4, <2>1, <3>0, RegisterEntry DEF FileInv
    <3>2. CASE TypesOf[f][i] = t
      BY <1>1, <1>4, <3>2, TypesOnceAssumption
    <3>3. CASE typesByName[TypeDesc[TypesOf[f][i]].name] = TypesOf[f][i]
      BY <1>1, <1>4, <3>3 DEF TypeInv, Owned
    <3>. QED  BY <3>1, <3>2, <3>3
  <2>2. Owned'
    BY <2>1 DEF Owned
  <2>3. ASSUME NEW u \in Types, IsExtension(u)
        PROVE  extensionsByMessage'[Key(u)] = u <=> typesByName'[TypeDesc[u].name] = u
    <3>0. TypeDesc[u].name \in Names /\ Key(u) \in Names \X Numbers
      BY TypesAssumption DEF Key, Numbers
    <3>1. extensionsByMessage[Key(u)] = u <=> typesByName[TypeDesc[u].name] = u
      BY <1>4, <2>3 DEF TypeInv, NumbersMatchNames
    <3>2. u # Nil
      BY NilAssumption
    <3>. QED  BY <1>0, <1>4, <2>3, <3>0, <3>1, <3>2, RegisterEntry DEF FileInv
  <2>4. NumbersMatchNames'
    BY <2>3 DEF NumbersMatchNames, Key, IsExtension
  <2>. QED  BY <1>0, <2>2, <2>4 DEF TypeInv
<1>. QED  BY <1>0, <1>2, <1>3, <1>4, TypeSteps

LEMMA TypeInvInit == Init => TypeInv
<1>. SUFFICES ASSUME Init PROVE TypeInv
  OBVIOUS
<1>1. FileInv
  BY FileInvInit
<1>2. ASSUME NEW t \in Types
      PROVE  typesByName[TypeDesc[t].name] = Nil /\ extensionsByMessage[Key(t)] = Nil
  BY TypesAssumption DEF Init, Key, Numbers
<1>3. \A f \in Files : \A i \in 1 .. Len(TypesOf[f]) : TypesOf[f][i] \in Types
  BY TypesAssumption
<1>4. Owned
  BY <1>2, <1>3, NilAssumption DEF Owned
<1>5. NumbersMatchNames
  BY <1>2, NilAssumption DEF NumbersMatchNames
<1>. QED  BY <1>1, <1>4, <1>5 DEF TypeInv

THEOREM TypeInvariant == Spec => []TypeInv
BY TypeInvInit, TypeInvStep, PTL DEF Spec

(* Unless conflicts are ignored, an extension is found by number exactly    *)
(* when it is found by name.                                                *)
THEOREM NumbersAndNames == Spec => []NumbersMatchNames
<1>1. TypeInv => NumbersMatchNames
  BY DEF TypeInv
<1>. QED  BY <1>1, TypeInvariant, PTL

(* Unless conflicts are ignored, a registered type's descriptor is the one  *)
(* the file registry finds by its name.                                     *)
THEOREM RegistriesAgree == Spec => []TypesMatchFiles
<1>1. ASSUME TypeInv, ~Ignoring, NEW f \in Files, NEW i \in 1 .. Len(TypesOf[f]),
             typesByName[TypeDesc[TypesOf[f][i]].name] = TypesOf[f][i]
      PROVE  FindDescriptorByName(TypeDesc[TypesOf[f][i]].name) = <<f, TypeDesc[TypesOf[f][i]].name>>
  <2>1. Registered(f)
    BY <1>1 DEF TypeInv, Owned
  <2>2. TypeDesc[TypesOf[f][i]].name \in Declared(f)
    BY TypesDeclaredAssumption DEF Declared
  <2>3. TypeDesc[TypesOf[f][i]].name \in Names
    BY TypesAssumption
  <2>. QED  BY <1>1, <2>1, <2>2, <2>3, FindFinds DEF TypeInv
<1>2. TypeInv => TypesMatchFiles
  BY <1>1 DEF TypesMatchFiles
<1>. QED  BY <1>2, TypeInvariant, PTL

(* Unless conflicts are ignored, what a type name, an extension number or a *)
(* path resolves to never changes.                                          *)
THEOREM TypesFinal == Spec => TypesAreFinal
<1>1. ASSUME FileInv, [Next]_vars, ~Ignoring, NEW n \in Names, NEW k \in Kinds,
             FindTypeByName(k, n) # NotFound
      PROVE  FindTypeByName(k, n)' = FindTypeByName(k, n)
  <2>1. typesByName[n] # Nil
    BY <1>1 DEF FindTypeByName
  <2>2. typesByName'[n] = typesByName[n]
    BY <1>1, <2>1, TypeSteps, RegisterEntry DEF FileInv
  <2>. QED  BY <2>2 DEF FindTypeByName, NotFound
<1>2. ASSUME FileInv, [Next]_vars, ~Ignoring, NEW m \in Names, NEW i \in Numbers,
             FindExtensionByNumber(m, i) # NotFound
      PROVE  FindExtensionByNumber(m, i)' = FindExtensionByNumber(m, i)
  <2>1. extensionsByMessage[<<m, i>>] # Nil
    BY <1>2 DEF FindExtensionByNumber
  <2>2. extensionsByMessage'[<<m, i>>] = extensionsByMessage[<<m, i>>]
    BY <1>2, <2>1, TypeSteps, RegisterEntry DEF FileInv
  <2>. QED  BY <2>2 DEF FindExtensionByNumber, NotFound
<1>3. ASSUME FileInv, [Next]_vars, ~Ignoring, NEW p \in Paths, FindFileByPath(p) # NotFound
      PROVE  FindFileByPath(p)' = FindFileByPath(p)
  <2>0. filesByPath \in [Paths -> Seq(Files)]
    BY <1>3 DEF FileInv, TypeOK
  <2>1. filesByPath[p] # <<>>
    <3>1. ASSUME filesByPath[p] = <<>> PROVE FALSE
      <4>1. Len(filesByPath[p]) = 0
        BY <3>1
      <4>2. FindFileByPath(p) = NotFound
        BY <4>1 DEF FindFileByPath
      <4>. QED  BY <1>3, <4>2
    <3>. QED  BY <3>1
  <2>2. ASSUME NEW f \in Files, RegisterFile(f), FileEntered(f), ~FileKept
        PROVE  filesByPath'[p] = filesByPath[p]
    <3>1. ~FileRefused(f)
      BY <2>2, FileOutcomes
    <3>2. filesByPath[FileDesc[f].path] = <<>>
      BY <1>3, <3>1 DEF FileRefused, PathTaken
    <3>3. p # FileDesc[f].path
      BY <2>1, <3>2
    <3>. QED  BY <2>0, <2>2, <3>3 DEF FileEntered
  <2>3. filesByPath'[p] = filesByPath[p]
    BY <1>3, <2>2, FileSteps DEF FileKept
  <2>. QED  BY <2>3 DEF FindFileByPath, NotFound
<1>4. FileInv /\ [Next]_vars =>
        [~Ignoring =>
           /\ \A n \in Names, k \in Kinds : FindTypeByName(k, n) # NotFound
                => FindTypeByName(k, n)' = FindTypeByName(k, n)
           /\ \A m \in Names, i \in Numbers : FindExtensionByNumber(m, i) # NotFound
                => FindExtensionByNumber(m, i)' = FindExtensionByNumber(m, i)
           /\ \A p \in Paths : FindFileByPath(p) # NotFound
                => FindFileByPath(p)' = FindFileByPath(p)]_vars
  BY <1>1, <1>2, <1>3
<1>. QED  BY <1>4, FileInvariant, PTL DEF Spec, TypesAreFinal
-----------------------------------------------------------------------------
(* The extension field.                                                    *)

Critical == {"takebuffer", "recheck", "decode", "drop", "publish", "unlock"}

Mutex == \A t \in Threads : pc[t] \in Critical <=> mu = t

Complete(v) == v \in Objects /\ v.n = received

FieldInv ==
  /\ kind = "unset" => received = 0
  /\ kind = "plain" => Complete(val)
  /\ once = 1 => kind = "lazy" /\ Complete(lval) /\ b = None
  /\ b # None => kind = "lazy" /\ b = received
  /\ kind = "lazy" /\ once = 0 /\ b = None => mu \in Threads /\ pc[mu] = "publish"

ThreadInv(t) ==
  /\ pc[t] # "idle" => kind # "unset"
  /\ pc[t] \notin {"idle", "unexpanded", "value"} => kind = "lazy"
  /\ pc[t] \in {"decode", "drop"} => once = 0 /\ b # None
  /\ pc[t] = "publish" => once = 0 /\ b = None
  /\ pc[t] \in {"drop", "publish"} => Complete(lval)
  /\ pc[t] \in {"unlock", "read"} => once = 1

(* What the last call obtained is still the field's content.               *)
GotInv(t) ==
  got[t] # None =>
    /\ pc[t] = "idle" /\ got[t].n = received
    /\ got[t].by # Wire => (kind = "lazy" /\ once = 1 /\ got[t] = lval) \/ (kind = "plain" /\ got[t] = val)

ExtInv == ExtTypeOK /\ Mutex /\ FieldInv /\ (\A t \in Threads : ThreadInv(t)) /\ (\A t \in Threads : GotInv(t))

-----------------------------------------------------------------------------
LEMMA ExtInitInv == ExtInit => ExtInv
BY ThreadsAssumption, RecordsAssumption
   DEF ExtInit, ExtInv, ExtTypeOK, Mutex, FieldInv, ThreadInv, GotInv, Critical, Locations

(* A change of the message, made while nobody reads it.                    *)
LEMMA ChangeStep == ExtInv /\ Change => ExtInv'
<1> SUFFICES ASSUME ExtInv, Change PROVE ExtInv'
  OBVIOUS
<1> USE ThreadsAssumption, RecordsAssumption
<1>0. /\ \A t \in Threads : pc[t] = "idle"
      /\ got' = [t \in Threads |-> None] /\ UNCHANGED <<mu, pc, op>>
  BY DEF Change, UnmarshalLazily, UnmarshalEagerly, SetByApplication, Clear, Exclusive
<1>1. Mutex' /\ mu = None
  BY <1>0 DEF ExtInv, Mutex, ExtTypeOK, Critical
<1>2. \A t \in Threads : ThreadInv(t)' /\ GotInv(t)'
  BY <1>0 DEF ThreadInv, GotInv
<1>3. /\ kind' \in {"unset", "lazy", "plain"} /\ once' \in {0, 1}
      /\ b' \in (0 .. MaxRecords) \cup {None} /\ lval' \in Objects \cup {None}
      /\ val' \in Objects \cup {None} /\ received' \in 0 .. MaxRecords
      /\ FieldInv'
  <2>1. CASE UnmarshalLazily
    <3>1. /\ kind' = "lazy" /\ UNCHANGED <<once, lval, val>>
          /\ b' = (IF b = None THEN 1 ELSE b + 1) /\ received' = received + 1 /\ received < MaxRecords /\ canLazy
      BY <2>1 DEF UnmarshalLazily
    <3>2. received \in 0 .. MaxRecords /\ b \in (0 .. MaxRecords) \cup {None} BY DEF ExtInv, ExtTypeOK
    <3>3. b' = received' /\ b' \in 0 .. MaxRecords /\ once = 0
      BY <1>1, <3>1, <3>2 DEF ExtInv, FieldInv, canLazy, ExtTypeOK
    <3> QED BY <3>1, <3>2, <3>3 DEF ExtInv, FieldInv, ExtTypeOK
  <2>2. ASSUME NEW v \in Objects, NEW n \in 0 .. MaxRecords, v.n = n, Set(v, n)
        PROVE  <1>3!:
    BY <2>2 DEF Set, FieldInv, Complete
  <2>3. CASE UnmarshalEagerly
    <3>1. received < MaxRecords /\ received \in 0 .. MaxRecords BY <2>3 DEF UnmarshalEagerly, ExtInv, ExtTypeOK
    <3>2. CASE kind = "unset"
      <4>1. Object(App, 1) \in Objects /\ Object(App, 1).n = received + 1 /\ received + 1 \in 0 .. MaxRecords
        BY <3>1, <3>2 DEF Object, Objects, ExtInv, FieldInv
      <4> QED BY <2>3, <3>2, <4>1, <2>2 DEF UnmarshalEagerly
    <3>3. CASE kind # "unset"
      <4>1. ValueNow \in Objects /\ ValueNow.n = received
        <5>1. CASE kind = "lazy" /\ once = 0
          <6>1. b = received BY <1>1, <5>1, <1>0 DEF ExtInv, FieldInv
          <6> QED BY <3>1, <5>1, <6>1 DEF ValueNow, Object, Objects
        <5>2. CASE kind = "lazy" /\ once = 1
          BY <5>2 DEF ValueNow, ExtInv, FieldInv, Complete
        <5>3. CASE kind = "plain"
          BY <3>3, <5>3 DEF ValueNow, ExtInv, FieldInv, Complete
        <5> QED BY <3>3, <5>1, <5>2, <5>3 DEF ExtInv, ExtTypeOK
      <4> HIDE DEF ValueNow
      <4>2. [ValueNow EXCEPT !.n = @ + 1] \in Objects /\ [ValueNow EXCEPT !.n = @ + 1].n = received + 1
            /\ received + 1 \in 0 .. MaxRecords
        BY <3>1, <4>1 DEF Objects
      <4>3. Set([ValueNow EXCEPT !.n = @ + 1], received + 1)
        BY <2>3, <3>3 DEF UnmarshalEagerly
      <4> QED BY <4>2, <4>3, <2>2
    <3> QED BY <3>2, <3>3
  <2>4. CASE SetByApplication
    <3>1. Object(App, 1) \in Objects /\ Object(App, 1).n = 1 /\ 1 \in 0 .. MaxRecords
      BY DEF Object, Objects
    <3> QED BY <2>4, <3>1, <2>2 DEF SetByApplication
  <2>5. CASE Clear
    BY <2>5 DEF Clear, FieldInv
  <2> QED BY <2>1, <2>3, <2>4, <2>5 DEF Change
<1> QED BY <1>0, <1>1, <1>2, <1>3 DEF ExtInv, ExtTypeOK

-----------------------------------------------------------------------------
(* Steps that leave the field and the mutex alone: a call, a check of      *)
(* atomicOnce, a return.                                                   *)
Quiet(t, l) ==
  /\ pc' = [pc EXCEPT ![t] = l]
  /\ UNCHANGED <<kind, once, mu, b, lval, val, received>>

LEMMA QuietStep ==
  ASSUME ExtInv, NEW t \in Threads, NEW l \in Locations, Quiet(t, l), ExtTypeOK',
         pc[t] \notin Critical \/ (pc[t] = "recheck" /\ l \in {"decode", "unlock"}),
         l \in Critical => pc[t] \in Critical,
         l # "idle" => kind # "unset",
         l \notin {"idle", "unexpanded", "value"} => kind = "lazy",
         l = "decode" => once = 0 /\ b # None,
         l \notin {"drop", "publish"},
         l \in {"unlock", "read"} => once = 1,
         got' = [got EXCEPT ![t] = got'[t]],
         GotInv(t)'
  PROVE  ExtInv'
<1>1. Mutex'
  BY DEF Quiet, ExtInv, Mutex, ExtTypeOK, Critical
<1>2. FieldInv'
  BY DEF Quiet, ExtInv, FieldInv, ExtTypeOK, Complete, Critical
<1>3. \A u \in Threads : ThreadInv(u)'
  BY DEF Quiet, ExtInv, ThreadInv, ExtTypeOK, Complete
<1>4. \A u \in Threads : GotInv(u)'
  BY DEF Quiet, ExtInv, GotInv, ExtTypeOK
<1> QED BY <1>1, <1>2, <1>3, <1>4 DEF ExtInv

(* Types are kept by the readers' steps.                                   *)
LEMMA ReaderType ==
  ASSUME ExtInv, NEW t \in Threads, Step(t) \/ \E o \in {"value", "buffer", "check"} : Call(t, o)
  PROVE  ExtTypeOK'
<1> USE ThreadsAssumption, RecordsAssumption DEF ExtInv, ExtTypeOK, Goto, Move, Return, field, Locations
<1>1. ASSUME NEW o \in {"value", "buffer", "check"}, Call(t, o) PROVE ExtTypeOK'
  BY <1>1 DEF Call
<1>2. CASE Acquire(t)
  BY <1>2 DEF Acquire, Lock, LockBuffer
<1>3. CASE Unexpanded(t)
  BY <1>3 DEF Unexpanded
<1>4. CASE TakeBuffer(t)
  <2>1. b # None => Object(Wire, b) \in Objects BY DEF Object, Objects
  <2> QED BY <1>4, <2>1 DEF TakeBuffer
<1>5. CASE Value(t)
  BY <1>5 DEF Value
<1>6. CASE Recheck(t)
  BY <1>6 DEF Recheck
<1>7. CASE Decode(t)
  <2>1. b # None => Object(t, b) \in Objects BY DEF Object, Objects
  <2> QED BY <1>7, <2>1 DEF Decode
<1>8. CASE DropBuffer(t)
  BY <1>8 DEF DropBuffer
<1>9. CASE Publish(t)
  BY <1>9 DEF Publish
<1>10. CASE Unlock(t)
  BY <1>10 DEF Unlock
<1>11. CASE Read(t)
  BY <1>11 DEF Read
<1> QED BY <1>1, <1>2, <1>3, <1>4, <1>5, <1>6, <1>7, <1>8, <1>9, <1>10, <1>11 DEF Step

LEMMA ReaderStep ==
  ASSUME ExtInv, NEW t \in Threads, Step(t) \/ \E o \in {"value", "buffer", "check"} : Call(t, o)
  PROVE  ExtInv'
<1>0. ExtTypeOK'
  BY ReaderType
<1> USE ThreadsAssumption DEF ExtInv
<1>g. pc[t] # "idle" => got[t] = None
  BY DEF GotInv
<1>1. ASSUME NEW o \in {"value", "buffer", "check"}, Call(t, o) PROVE ExtInv'
  <2>1. PICK l \in {"value", "unexpanded"} : Quiet(t, l)
    BY <1>1 DEF Call, Move, Goto, field, Quiet
  <2>2. pc[t] = "idle" /\ kind # "unset" /\ got' = [got EXCEPT ![t] = None] /\ got'[t] = None
    BY <1>1 DEF Call, Move, ExtTypeOK
  <2>3. GotInv(t)' BY <2>2 DEF GotInv
  <2> QED BY <1>0, <2>1, <2>2, <2>3, QuietStep DEF Critical, Locations
<1>n. ASSUME UNCHANGED got, pc[t] # "idle" PROVE GotInv(t)' /\ got' = [got EXCEPT ![t] = got'[t]]
  BY <1>n, <1>g DEF GotInv, ExtTypeOK
<1>3. CASE Unexpanded(t)
  <2>1. pc[t] = "unexpanded" /\ UNCHANGED got
    BY <1>3 DEF Unexpanded
  <2>2. PICK l \in {"lockbuffer", "idle", "value"} : Quiet(t, l) /\ (l = "lockbuffer" => kind = "lazy")
    BY <1>3 DEF Unexpanded, Goto, Quiet, field
  <2>3. kind # "unset" BY <2>1 DEF ThreadInv
  <2> QED BY <1>0, <1>n, <2>1, <2>2, <2>3, QuietStep DEF Critical, Locations
<1>5. CASE Value(t)
  <2>1. pc[t] = "value" /\ kind # "unset"
    BY <1>5 DEF Value, ThreadInv
  <2>2. CASE kind = "plain"
    <3>1. Quiet(t, "idle") /\ got' = [got EXCEPT ![t] = val]
      BY <1>5, <2>2 DEF Value, Return, Goto, Quiet, field
    <3>2. got'[t] = val /\ pc'[t] = "idle" /\ UNCHANGED <<kind, val, received>>
      BY <3>1 DEF Quiet, ExtTypeOK
    <3>3. GotInv(t)' BY <2>2, <3>2 DEF GotInv, FieldInv, Complete
    <3> QED BY <1>0, <2>1, <3>1, <3>2, <3>3, QuietStep DEF Critical, Locations
  <2>3. CASE kind = "lazy"
    <3>1. UNCHANGED got /\ \/ Quiet(t, "lock")
                           \/ Quiet(t, "read") /\ once = 1
      BY <1>5, <2>3 DEF Value, Return, Goto, Quiet, field
    <3> QED BY <1>0, <1>n, <2>1, <2>3, <3>1, QuietStep DEF Critical, Locations
  <2> QED BY <2>1, <2>2, <2>3 DEF ExtTypeOK
<1>6. CASE Recheck(t)
  <2>1. pc[t] = "recheck" /\ UNCHANGED got /\ Quiet(t, IF once = 1 THEN "unlock" ELSE "decode")
    BY <1>6 DEF Recheck, Move, Goto, Quiet, field
  <2>2. kind = "lazy" /\ mu = t /\ once \in {0, 1}
    BY <2>1 DEF ThreadInv, Mutex, Critical, ExtTypeOK
  <2>3. once = 0 => b # None
    BY <2>1, <2>2 DEF FieldInv
  <2> QED BY <1>0, <1>n, <2>1, <2>2, <2>3, QuietStep DEF Critical, Locations
<1>11. CASE Read(t)
  <2>1. pc[t] = "read" /\ Quiet(t, "idle") /\ got' = [got EXCEPT ![t] = lval]
    BY <1>11 DEF Read, Return, Goto, Quiet, field
  <2>2. kind = "lazy" /\ once = 1 /\ got'[t] = lval /\ pc'[t] = "idle" /\ UNCHANGED <<kind, once, lval, received>>
    BY <2>1 DEF ThreadInv, Quiet, ExtTypeOK
  <2>3. GotInv(t)' BY <2>2 DEF GotInv, FieldInv, Complete
  <2> QED BY <1>0, <2>1, <2>2, <2>3, QuietStep DEF Critical, Locations
<1>2. CASE Acquire(t)
  <2>1. /\ mu = None /\ mu' = t /\ UNCHANGED <<kind, b, lval, val, received, once, got>>
        /\ pc[t] \in {"lock", "lockbuffer"} /\ pc' = [pc EXCEPT ![t] = pc'[t]] /\ pc'[t] \in {"recheck", "takebuffer"}
    BY <1>2 DEF Acquire, Lock, LockBuffer, Move, Goto, field, ExtTypeOK
  <2>2. \A u \in Threads : pc[u] \notin Critical
    BY <2>1 DEF Mutex
  <2>3. Mutex' BY <2>1, <2>2 DEF Mutex, Critical, ExtTypeOK
  <2>4. FieldInv' BY <2>1 DEF FieldInv, Complete
  <2>5. \A u \in Threads : ThreadInv(u)' BY <2>1 DEF ThreadInv, Complete, ExtTypeOK
  <2>6. \A u \in Threads : GotInv(u)' BY <2>1 DEF GotInv, ExtTypeOK
  <2> QED BY <1>0, <2>3, <2>4, <2>5, <2>6
<1>r. ASSUME pc[t] \in {"takebuffer", "unlock"}, mu' = None, NEW l \in {"idle", "value", "read"}, pc' = [pc EXCEPT ![t] = l],
             UNCHANGED <<kind, b, lval, val, received, once>>, l = "read" => once = 1,
             got' = [got EXCEPT ![t] = got'[t]], GotInv(t)'
      PROVE  ExtInv'
  <2>1. mu = t /\ kind = "lazy" BY <1>r DEF Mutex, Critical, ThreadInv
  <2>2. Mutex' BY <1>r, <2>1 DEF Mutex, Critical, ExtTypeOK
  <2>3. FieldInv' BY <1>r, <2>1 DEF FieldInv, Complete, ExtTypeOK
  <2>4. \A u \in Threads : ThreadInv(u)' BY <1>r, <2>1 DEF ThreadInv, Complete, ExtTypeOK
  <2>5. \A u \in Threads : GotInv(u)' BY <1>r DEF GotInv, ExtTypeOK
  <2> QED BY <1>0, <2>2, <2>3, <2>4, <2>5
<1>4. CASE TakeBuffer(t)
  <2>1. pc[t] = "takebuffer" /\ mu' = None /\ UNCHANGED <<kind, b, lval, val, received, once>>
    BY <1>4 DEF TakeBuffer, field
  <2>2. CASE b # None
    <3>1. got' = [got EXCEPT ![t] = Object(Wire, b)] /\ pc' = [pc EXCEPT ![t] = "idle"]
      BY <1>4, <2>2 DEF TakeBuffer, Return, Goto
    <3>2. got'[t] = Object(Wire, b) /\ pc'[t] = "idle" /\ b = received
      BY <2>2, <3>1 DEF ExtTypeOK, FieldInv
    <3>3. GotInv(t)' BY <2>1, <3>2 DEF GotInv, Object
    <3> QED BY <2>1, <3>1, <3>2, <3>3, <1>r
  <2>3. CASE b = None
    <3>1. UNCHANGED got /\ pc' = [pc EXCEPT ![t] = "value"]
      BY <1>4, <2>3 DEF TakeBuffer, Goto
    <3> QED BY <2>1, <3>1, <1>n, <1>r
  <2> QED BY <2>2, <2>3
<1>10. CASE Unlock(t)
  <2>1. pc[t] = "unlock" /\ mu' = None /\ UNCHANGED <<kind, b, lval, val, received, once, got>> /\ pc' = [pc EXCEPT ![t] = "read"]
    BY <1>10 DEF Unlock, Move, Goto, field
  <2>2. once = 1 BY <2>1 DEF ThreadInv
  <2> QED BY <2>1, <2>2, <1>n, <1>r
<1>o. pc[t] \in Critical => mu = t /\ \A u \in Threads \ {t} : pc[u] \notin Critical
  BY DEF Mutex
<1>7. CASE Decode(t)
  <2>1. /\ pc[t] = "decode" /\ pc' = [pc EXCEPT ![t] = "drop"] /\ lval' = Object(t, b)
        /\ UNCHANGED <<kind, once, mu, b, val, received, got>>
    BY <1>7 DEF Decode, Move, Goto
  <2>2. once = 0 /\ b # None /\ b = received /\ kind = "lazy" /\ Complete(lval)'
    <3>1. once = 0 /\ b # None /\ b = received /\ kind = "lazy" BY <2>1 DEF ThreadInv, FieldInv
    <3>2. lval' \in Objects /\ lval'.n = received
      BY <1>0, <2>1, <3>1 DEF Object, Objects, ExtTypeOK
    <3> QED BY <2>1, <3>1, <3>2 DEF Complete
  <2>3. Mutex' BY <2>1 DEF Mutex, Critical, ExtTypeOK
  <2>4. FieldInv' BY <2>1, <2>2 DEF FieldInv, Complete
  <2>5. \A u \in Threads : ThreadInv(u)' BY <1>o, <2>1, <2>2 DEF ThreadInv, ExtTypeOK, Critical
  <2>6. \A u \in Threads : GotInv(u)' BY <2>1, <2>2 DEF GotInv, ExtTypeOK
  <2> QED BY <1>0, <2>3, <2>4, <2>5, <2>6
<1>8. CASE DropBuffer(t)
  <2>1. /\ pc[t] = "drop" /\ pc' = [pc EXCEPT ![t] = "publish"] /\ b' = None
        /\ UNCHANGED <<kind, once, mu, lval, val, received, got>>
    BY <1>8 DEF DropBuffer, Move, Goto
  <2>2. once = 0 /\ kind = "lazy" /\ Complete(lval) /\ mu = t BY <1>o, <2>1 DEF ThreadInv, Critical
  <2>3. Mutex' BY <2>1 DEF Mutex, Critical, ExtTypeOK
  <2>4. FieldInv' BY <2>1, <2>2 DEF FieldInv, Complete, ExtTypeOK
  <2>5. \A u \in Threads : ThreadInv(u)' BY <1>o, <2>1, <2>2 DEF ThreadInv, ExtTypeOK, Critical, Complete
  <2>6. \A u \in Threads : GotInv(u)' BY <2>1 DEF GotInv, ExtTypeOK
  <2> QED BY <1>0, <2>3, <2>4, <2>5, <2>6
<1>9. CASE Publish(t)
  <2>1. /\ pc[t] = "publish" /\ pc' = [pc EXCEPT ![t] = "unlock"] /\ once' = 1
        /\ UNCHANGED <<kind, b, mu, lval, val, received, got>>
    BY <1>9 DEF Publish, Move, Goto, field
  <2>2. once = 0 /\ b = None /\ kind = "lazy" /\ Complete(lval) BY <2>1 DEF ThreadInv
  <2>3. Mutex' BY <2>1 DEF Mutex, Critical, ExtTypeOK
  <2>4. FieldInv' BY <2>1, <2>2 DEF FieldInv, Complete
  <2>5. \A u \in Threads : ThreadInv(u)' BY <1>o, <2>1, <2>2 DEF ThreadInv, ExtTypeOK, Critical, Complete
  <2>6. \A u \in Threads : GotInv(u)' BY <2>1, <2>2 DEF GotInv, ExtTypeOK
  <2> QED BY <1>0, <2>3, <2>4, <2>5, <2>6
<1> QED BY <1>1, <1>2, <1>3, <1>4, <1>5, <1>6, <1>7, <1>8, <1>9, <1>10, <1>11 DEF Step

THEOREM ExtInvariance == ExtSpec => []ExtInv
<1>1. ExtInv /\ [ExtNext]_extVars => ExtInv'
  <2> SUFFICES ASSUME ExtInv, [ExtNext]_extVars PROVE ExtInv'
    OBVIOUS
  <2>1. CASE UNCHANGED extVars
    BY <2>1 DEF extVars, ExtInv, ExtTypeOK, Mutex, FieldInv, ThreadInv, GotInv, Complete
  <2> QED BY <2>1, ChangeStep, ReaderStep DEF ExtNext
<1> QED BY <1>1, ExtInitInv, PTL DEF ExtSpec

(* Types are respected by readers and by changes of the message.           *)
THEOREM ExtTypeCorrect == ExtSpec => []ExtTypeOK
BY ExtInvariance, PTL DEF ExtInv

(* Every reader obtains all the records received so far.                   *)
THEOREM RecordsKept == ExtSpec => []NoRecordLost
<1>1. ExtInv => NoRecordLost
  BY DEF ExtInv, GotInv, NoRecordLost
<1> QED BY <1>1, ExtInvariance, PTL

(* Concurrent readers of the value obtain the same object.                 *)
THEOREM SameObject == ExtSpec => []OneObject
<1>1. ExtInv => OneObject
  BY DEF ExtInv, GotInv, OneObject
<1> QED BY <1>1, ExtInvariance, PTL

(* The accesses to value and buffer are free of data races.                *)
THEOREM RaceFree == ExtSpec => []NoDataRace
<1>1. ExtInv => NoDataRace
  <2> SUFFICES ASSUME ExtInv, NEW t \in Threads, NEW u \in Threads, t # u, NEW v \in {"lval", "b"}, Writes(t, v)
               PROVE  ~Writes(u, v) /\ ~Reads(u, v)
    BY DEF NoDataRace
  <2>1. pc[t] \in {"decode", "drop"} /\ (v = "lval" => pc[t] = "decode") BY DEF Writes
  <2>2. once = 0 /\ pc[u] \notin Critical BY <2>1 DEF ExtInv, ThreadInv, Mutex, Critical
  <2>3. pc[u] # "read" BY <2>2 DEF ExtInv, ThreadInv
  <2> QED BY <2>2, <2>3 DEF Writes, Reads, Critical
<1> QED BY <1>1, ExtInvariance, PTL
=============================================================================
