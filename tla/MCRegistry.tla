----------------------------- MODULE MCRegistry -----------------------------
(* Seven files: two of package a, one of a.b that shares the path of the    *)
(* first, one whose package is a message of the first, one whose package is *)
(* nested in it, one that declares the name a, and one with a path that     *)
(* moved.  The program's own types repeat names and extension numbers.      *)
EXTENDS Registry, TLC
CONSTANTS f1, f2, f3, f4, f5, f6, f7, m1, x2, m3, x7, xo, yo

MCAbove ==
  "a" :> {} @@ "a.M" :> {"a"} @@ "a.M.x" :> {"a", "a.M"} @@ "a.M.x.y" :> {"a", "a.M", "a.M.x"}
  @@ "a.b" :> {"a"} @@ "a.b.X" :> {"a", "a.b"} @@ "a.V" :> {"a"}
MCNames == DOMAIN MCAbove

File(path, pkg, decls, values, nested) ==
  [path |-> path, package |-> pkg, decls |-> decls, values |-> values, nested |-> nested]
MCFileDesc ==
  f1 :> File("p", "a", {"a.M"}, {}, {"a.M.x"})
  @@ f2 :> File("p", "a.b", {"a.b.X"}, {}, {})
  @@ f3 :> File("q", "a.M", {"a.M.x"}, {}, {})
  @@ f4 :> File("r", "a.M.x", {"a.M.x.y"}, {}, {})
  @@ f5 :> File("s", Root, {"a"}, {}, {})
  @@ f6 :> File("m", "a", {"a.b"}, {"a.V"}, {})
  @@ f7 :> File("m", "a", {"a.V"}, {}, {})

Type(kind, name, m, i) == [kind |-> kind, name |-> name, extendee |-> m, number |-> i]
MCTypeDesc ==
  m1 :> Type("message", "a.M.x", "a", 0)
  @@ x2 :> Type("extension", "a.b.X", "a.M", 1)
  @@ m3 :> Type("message", "a.M.x", "a", 0)
  @@ x7 :> Type("extension", "a.V", "a.M", 1)
  @@ xo :> Type("extension", "a.M.x.y", "a.M", 1)
  @@ yo :> Type("extension", "a.M.x.y", "a.M", 2)
MCTypesOf ==
  f1 :> <<m1>> @@ f2 :> <<x2>> @@ f3 :> <<m3>> @@ f4 :> <<>> @@ f5 :> <<>>
  @@ f6 :> <<>> @@ f7 :> <<x7>>
=============================================================================
