SPECIFICATION Spec
CONSTANTS
  f1 = f1
  f2 = f2
  t1 = t1
  t2 = t2
  Fields = {f1, f2}
  Threads = {t1, t2}
  FieldOrder <- MCOrder
  Nil = Nil
  NoSize = NoSize
  RawSize <- MCRaw
  CanonSize <- MCCanon
  MaxCached = 6
  Incomplete = {f2}
  AllowedPartial = TRUE
INVARIANTS MismatchNeedsReencoding DeterministicIsCanonical DeterministicFailsByForeignSize CheckIsExact
PROPERTIES ImplementsOnceCell
