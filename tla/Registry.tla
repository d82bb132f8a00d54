------------------------------ MODULE Registry ------------------------------
(***************************************************************************)
(* The registries of reflect/protoregistry/registry.go as generated code   *)
(* fills them: filetype.Builder.Build registers a file and then, one call  *)
(* after the other, its enum, message and extension types.  A program may  *)
(* also register types of its own, such as dynamic ones.  Every call holds *)
(* globalMutex from beginning to end, so it is one step; the builds of     *)
(* several files interleave between the calls.                             *)
(*                                                                         *)
(* A full name stands for its dotted path: Above[n] holds its proper       *)
(* prefixes.  A descriptor is a pair of a file and a name.                 *)
(***************************************************************************)
EXTENDS Integers, Sequences

CONSTANTS
  Names, Above,        \* full names; [name |-> the names of its parents]
  Paths, MovedPaths,   \* file paths; the ones checkGenProtoConflict knows
  Files, FileDesc,     \* [file |-> its path, package, declarations]
  Types, TypeDesc,     \* [type |-> its kind, name, extendee and number]
  TypesOf,             \* [file |-> the order in which Build registers its types]
  OwnTypes,            \* the types the program registers itself
  Root,                \* the empty package name
  Nil                  \* an absent map entry

Kinds == {"enum", "message", "extension"}
Numbers == {TypeDesc[t].number : t \in Types}

ASSUME NamesAssumption ==
  /\ Above \in [Names -> SUBSET Names]
  /\ \A n \in Names : n \notin Above[n] /\ \A m \in Above[n] : Above[m] \subseteq Above[n]
  /\ Root \notin Names
(* A name's prefixes are totally ordered by length, and finitely many.      *)
ASSUME NearestAssumption ==
  \A n \in Names : \A S \in (SUBSET ({n} \cup Above[n])) \ {{}} :
    \E p \in S : S \subseteq {p} \cup Above[p]
ASSUME FilesAssumption ==
  FileDesc \in [Files -> [path : Paths, package : Names \cup {Root}, decls : SUBSET Names,
                          values : SUBSET Names, nested : SUBSET Names]]
ASSUME NilAssumption == Nil \notin Files /\ Nil \notin Types /\ "package" \notin Files /\ Nil # "package"
ASSUME TypesAssumption ==
  /\ TypeDesc \in [Types -> [kind : Kinds, name : Names, extendee : Names, number : Nat]]
  /\ TypesOf \in [Files -> Seq(Types)]
  /\ OwnTypes \subseteq Types

(* The package of a file and its parents.                                   *)
Packages(f) ==
  IF FileDesc[f].package = Root THEN {}
  ELSE {FileDesc[f].package} \cup Above[FileDesc[f].package]

(* Mutant: the values of top-level enums are not visited.                   *)
DeclarationsOnly(f) == FileDesc[f].decls

(* rangeTopLevelDescriptors: an enum's values are its siblings.             *)
TopLevel(f) == FileDesc[f].decls \cup FileDesc[f].values
Declared(f) == FileDesc[f].decls \cup FileDesc[f].values \cup FileDesc[f].nested

(* Descriptors are well formed: a top-level declaration lies directly in    *)
(* the package, anything else inside a top-level message or service.        *)
ASSUME ScopeAssumption ==
  \A f \in Files :
    /\ \A d \in FileDesc[f].decls \cup FileDesc[f].values : Above[d] = Packages(f)
    /\ \A n \in FileDesc[f].nested :
         \E d \in FileDesc[f].decls \cup FileDesc[f].values : d \in Above[n]
ASSUME TypesDeclaredAssumption ==
  \A f \in Files : \A i \in 1 .. Len(TypesOf[f]) :
    TypeDesc[TypesOf[f][i]].name \in FileDesc[f].decls \cup FileDesc[f].nested
(* One Go type has one descriptor: it belongs to one file, once.            *)
ASSUME TypesOnceAssumption ==
  \A f, g \in Files : \A i \in 1 .. Len(TypesOf[f]), j \in 1 .. Len(TypesOf[g]) :
    TypesOf[f][i] \notin OwnTypes /\ (TypesOf[f][i] = TypesOf[g][j] => f = g /\ i = j)

VARIABLES
  policy,        \* "local" registries, or the global ones' conflict policy
  descsByName,   \* [name |-> Nil, "package" or the file that declares it]
  packageFiles,  \* [package |-> the files of its packageDescriptor]
  filesByPath,   \* [path |-> files]
  numFiles,
  typesByName,   \* [name |-> Nil or a type]
  extensionsByMessage,  \* [<<extendee, number>> |-> Nil or an extension type]
  num,           \* [kind |-> numEnums, numMessages, numExtensions]
  next,          \* [file |-> 0 before Build, else the index of its next type]
  failed,        \* the files whose Build panicked or met an error
  tried          \* the types of OwnTypes the program has registered, or tried to

fileVars == <<descsByName, packageFiles, filesByPath, numFiles>>
typeVars == <<typesByName, extensionsByMessage, num>>
vars == <<policy, fileVars, typeVars, next, failed, tried>>

Init ==
  /\ policy \in {"local", "panic", "ignore"}
  /\ descsByName = [n \in Names |-> Nil]
  /\ packageFiles = [p \in Names \cup {Root} |-> <<>>]
  /\ filesByPath = [p \in Paths |-> <<>>]
  /\ numFiles = 0
  /\ typesByName = [n \in Names |-> Nil]
  /\ extensionsByMessage = [k \in Names \X Numbers |-> Nil]
  /\ num = [k \in Kinds |-> 0]
  /\ next = [f \in Files |-> 0]
  /\ failed = {}
  /\ tried = {}

(* ignoreConflict on a global registry ("warn" differs from "ignore" only   *)
(* in what it prints).  Otherwise a conflict is an error that the caller    *)
(* gets, or a panic: either way the call does nothing.                      *)
Ignoring == policy = "ignore"

-----------------------------------------------------------------------------
(* RegisterFile.                                                            *)

PathTaken(f) == filesByPath[FileDesc[f].path] # <<>>
checkGenProtoConflict(f) == policy # "local" /\ FileDesc[f].path \in MovedPaths

(* Mutant: only the package itself is checked, not its parents.             *)
OwnPackageConflict(f) ==
  FileDesc[f].package \in Names /\ descsByName[FileDesc[f].package] \in Files

PackageConflict(f) == \E p \in Packages(f) : descsByName[p] \in Files

NameConflict(f) == \E d \in TopLevel(f) : descsByName[d] # Nil

(* Mutant: Build goes on after a conflict of names.                         *)
RefusedForPath(f) == PathTaken(f) /\ (checkGenProtoConflict(f) \/ ~Ignoring)

(* The file is refused: Build panics.                                       *)
FileRefused(f) ==
  \/ PathTaken(f) /\ (checkGenProtoConflict(f) \/ ~Ignoring)
  \/ (PackageConflict(f) \/ NameConflict(f)) /\ ~Ignoring
(* RegisterFile returns nil and has registered nothing.                     *)
FileIgnored(f) == ~FileRefused(f) /\ (PackageConflict(f) \/ NameConflict(f))

(* Mutant: the parents of the package are not entered.                      *)
EnterOwnPackage(f) ==
  [n \in Names |-> IF n \in TopLevel(f) THEN f
                   ELSE IF n = FileDesc[f].package THEN "package" ELSE descsByName[n]]

(* The package and its parents, then the top-level declarations.            *)
Enter(f) ==
  [n \in Names |-> IF n \in TopLevel(f) THEN f
                   ELSE IF n \in Packages(f) THEN "package" ELSE descsByName[n]]

RegisterFile(f) ==
  /\ next[f] = 0 /\ f \notin failed
  /\ \/ /\ FileRefused(f)
        /\ failed' = failed \cup {f}
        /\ UNCHANGED <<fileVars, next>>
     \/ /\ FileIgnored(f)
        /\ next' = [next EXCEPT ![f] = 1]
        /\ UNCHANGED <<fileVars, failed>>
     \/ /\ ~FileRefused(f) /\ ~FileIgnored(f)
        /\ descsByName' = Enter(f)
        /\ packageFiles' = [packageFiles EXCEPT ![FileDesc[f].package] = Append(@, f)]
        /\ filesByPath' = [filesByPath EXCEPT ![FileDesc[f].path] = Append(@, f)]
        /\ numFiles' = numFiles + 1
        /\ next' = [next EXCEPT ![f] = 1]
        /\ UNCHANGED failed
  /\ UNCHANGED <<policy, typeVars, tried>>

-----------------------------------------------------------------------------
(* RegisterEnum, RegisterMessage and RegisterExtension of the next type of  *)
(* the file.                                                                *)

Key(t) == <<TypeDesc[t].extendee, TypeDesc[t].number>>
IsExtension(t) == TypeDesc[t].kind = "extension"

(* Mutant: the name is not looked at.                                       *)
NumberConflictOnly(t) == IsExtension(t) /\ extensionsByMessage[Key(t)] # Nil

(* Mutant: the extension's number is not looked at.                         *)
NameConflictOnly(t) == typesByName[TypeDesc[t].name] # Nil

(* The number of an extension is looked at before its name, and neither     *)
(* table is touched before both are found free.                             *)
TypeConflict(t) ==
  \/ IsExtension(t) /\ extensionsByMessage[Key(t)] # Nil
  \/ typesByName[TypeDesc[t].name] # Nil

(* An ignored conflict replaces the entry, and is counted.                  *)
Register(t) ==
  /\ TypeConflict(t) => Ignoring
  /\ typesByName' = [typesByName EXCEPT ![TypeDesc[t].name] = t]
  /\ extensionsByMessage' = IF IsExtension(t)
                            THEN [extensionsByMessage EXCEPT ![Key(t)] = t]
                            ELSE extensionsByMessage
  /\ num' = [num EXCEPT ![TypeDesc[t].kind] = @ + 1]

(* Build registers the next type of the file, and panics on an error.       *)
RegisterType(f) ==
  /\ next[f] \in 1 .. Len(TypesOf[f]) /\ f \notin failed
  /\ LET t == TypesOf[f][next[f]]
     IN \/ /\ TypeConflict(t) /\ ~Ignoring
           /\ failed' = failed \cup {f}
           /\ UNCHANGED <<typeVars, next>>
        \/ /\ Register(t)
           /\ next' = [next EXCEPT ![f] = @ + 1]
           /\ UNCHANGED failed
  /\ UNCHANGED <<policy, fileVars, tried>>

RegisterOwnType(t) ==
  /\ t \notin tried
  /\ tried' = tried \cup {t}
  /\ \/ TypeConflict(t) /\ ~Ignoring /\ UNCHANGED typeVars
     \/ Register(t)
  /\ UNCHANGED <<policy, fileVars, next, failed>>

Done(f) == f \in failed \/ next[f] = Len(TypesOf[f]) + 1
Terminated == (\A f \in Files : Done(f)) /\ tried = OwnTypes /\ UNCHANGED vars

Next ==
  \/ \E f \in Files : RegisterFile(f) \/ RegisterType(f)
  \/ \E t \in OwnTypes : RegisterOwnType(t)
  \/ Terminated
Spec == Init /\ [][Next]_vars

-----------------------------------------------------------------------------
(* Lookups.                                                                 *)

NotFound == <<>>

(* The names FindDescriptorByName tries, as far as they have an entry.      *)
Entered(n) == {p \in {n} \cup Above[n] : descsByName[p] # Nil}
Nearest(n) == CHOOSE p \in Entered(n) : Entered(n) \subseteq {p} \cup Above[p]

(* FindDescriptorByName: the longest registered prefix decides.  Below a    *)
(* declaration findDescriptorInMessage (or Methods().ByName) searches.      *)
FindDescriptorByName(n) ==
  IF Entered(n) = {} THEN NotFound
  ELSE LET d == descsByName[Nearest(n)]
       IN IF /\ d # "package"
             /\ n = Nearest(n) \/ n \in FileDesc[d].nested
          THEN <<d, n>> ELSE NotFound

FindFileByPath(p) ==
  CASE Len(filesByPath[p]) = 0 -> NotFound
    [] Len(filesByPath[p]) = 1 -> filesByPath[p]
    [] OTHER -> <<"multiple files">>

FindTypeByName(kind, n) ==
  IF typesByName[n] = Nil THEN NotFound
  ELSE IF TypeDesc[typesByName[n]].kind = kind THEN <<typesByName[n]>>
  ELSE <<"wrong type">>

FindExtensionByNumber(m, k) ==
  IF extensionsByMessage[<<m, k>>] = Nil THEN NotFound ELSE <<extensionsByMessage[<<m, k>>]>>

-----------------------------------------------------------------------------
(* Properties.                                                              *)

Occurs(f, s) == \E i \in DOMAIN s : s[i] = f
Registered(f) == Occurs(f, packageFiles[FileDesc[f].package])

TypeOK ==
  /\ policy \in {"local", "panic", "ignore"}
  /\ descsByName \in [Names -> Files \cup {Nil, "package"}]
  /\ packageFiles \in [Names \cup {Root} -> Seq(Files)]
  /\ filesByPath \in [Paths -> Seq(Files)]
  /\ numFiles \in Nat
  /\ typesByName \in [Names -> Types \cup {Nil}]
  /\ extensionsByMessage \in [Names \X Numbers -> Types \cup {Nil}]
  /\ num \in [Kinds -> Nat]
  /\ next \in [Files -> Nat]
  /\ failed \in SUBSET Files
  /\ tried \in SUBSET OwnTypes

(* FindDescriptorByName finds exactly what the registered files declare,    *)
(* nested declarations included, although only top-level names are entered  *)
(* and checked: no two registered files declare the same name, and no       *)
(* package hides a declaration (registry.go:163-172, 222-298).                *)
FindIsExact ==
  \A n \in Names, f \in Files :
    FindDescriptorByName(n) = <<f, n>> <=> Registered(f) /\ n \in Declared(f)

(* RegisterFile refuses or ignores a file exactly when it clashes with a    *)
(* registered one: a name of one, however deeply nested, is a name or a     *)
(* package of the other, or the path is taken and the policy does not       *)
(* ignore that.  Nothing an earlier refusal left behind counts              *)
(* (registry.go:126-161).  That a taken path refuses a file is what the     *)
(* code does and registry_test.go:72 expects, against registry.go:113: "It  *)
(* is permitted for multiple files to have the same file path."             *)
Overlap(f, g) ==
  \/ Declared(f) \cap (Declared(g) \cup Packages(g)) # {}
  \/ Packages(f) \cap Declared(g) # {}
Clash(f) ==
  \E g \in Files :
    /\ Registered(g)
    /\ \/ Overlap(f, g)
       \/ FileDesc[f].path = FileDesc[g].path /\ (checkGenProtoConflict(f) \/ ~Ignoring)
RefusedIffClash ==
  [][\A f \in Files : next[f] = 0 /\ (next'[f] = 1 \/ f \in failed' \ failed)
                        => (Registered(f)' <=> ~Clash(f))]_vars

(* What a descriptor name resolves to is final under every policy: later    *)
(* registrations, even ignored conflicts, never replace it                  *)
(* (registry.go:135-172).                                                   *)
DescriptorsAreFinal ==
  [][\A n \in Names : FindDescriptorByName(n) # NotFound
       => FindDescriptorByName(n)' = FindDescriptorByName(n)]_vars

(* Unless conflicts are ignored, what a type name, an extension number or a *)
(* path resolves to is final: "A compliant implementation must              *)
(* deterministically return the same type" (registry.go:451).               *)
TypesAreFinal ==
  [][~Ignoring =>
       /\ \A n \in Names, k \in Kinds : FindTypeByName(k, n) # NotFound
            => FindTypeByName(k, n)' = FindTypeByName(k, n)
       /\ \A m \in Names, i \in Numbers : FindExtensionByNumber(m, i) # NotFound
            => FindExtensionByNumber(m, i)' = FindExtensionByNumber(m, i)
       /\ \A p \in Paths : FindFileByPath(p) # NotFound
            => FindFileByPath(p)' = FindFileByPath(p)]_vars

(* Unless conflicts are ignored, the two registries agree at every moment,  *)
(* in the middle of a Build and after a panic: the descriptor of a type     *)
(* that Build registered is the one GlobalFiles knows by its name           *)
(* (filetype/build.go:138-239).  When they are ignored, the file registry   *)
(* keeps the first declaration and the type registry the last.              *)
TypesMatchFiles ==
  ~Ignoring => \A f \in Files : \A i \in 1 .. Len(TypesOf[f]) :
    LET t == TypesOf[f][i]
    IN typesByName[TypeDesc[t].name] = t
         => FindDescriptorByName(TypeDesc[t].name) = <<f, TypeDesc[t].name>>

(* Unless conflicts are ignored, an extension is found by its number        *)
(* exactly when it is found by its name, whatever registration failed on    *)
(* the way (registry.go:549-570).                                           *)
NumbersMatchNames ==
  ~Ignoring => \A t \in Types : IsExtension(t) =>
    (extensionsByMessage[Key(t)] = t <=> typesByName[TypeDesc[t].name] = t)
=============================================================================
