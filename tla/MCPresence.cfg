SPECIFICATION SafeSpec
CONSTANTS
  t1 = t1
  t2 = t2
  Threads = {t1, t2}
  Size = 5
  WordBits = 2
  Owner <- Interleaved
INVARIANTS NoLostUpdate AnyIsExact
