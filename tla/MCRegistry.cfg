SPECIFICATION Spec
CONSTANTS
  Nil = Nil
  Root = Root
  f1 = f1
  f2 = f2
  f3 = f3
  f4 = f4
  f5 = f5
  f6 = f6
  f7 = f7
  m1 = m1
  x2 = x2
  m3 = m3
  x7 = x7
  xo = xo
  yo = yo
  Names <- MCNames
  Above <- MCAbove
  Paths = {"p", "q", "r", "s", "m"}
  MovedPaths = {"m"}
  Files = {f1, f2, f3, f4, f5, f6, f7}
  FileDesc <- MCFileDesc
  Types = {m1, x2, m3, x7, xo, yo}
  OwnTypes = {xo, yo}
  TypeDesc <- MCTypeDesc
  TypesOf <- MCTypesOf
INVARIANTS FindIsExact TypesMatchFiles NumbersMatchNames
PROPERTIES RefusedIffClash DescriptorsAreFinal TypesAreFinal
