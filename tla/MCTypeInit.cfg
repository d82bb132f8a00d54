SPECIFICATION FairSpec
CONSTANTS
  Threads = {1, 2, 3}
  None = None
  Files = {"a", "b", "g"}
  Imports <- MCImports
  DefaultsFrom <- MCDefaultsFrom
  ByName = {"g"}
  Messages = {"ma", "mb"}
  FileOf <- MCFileOf
  Fields <- MCFields
  Extensions = {"x", "y", "z"}
  Legacy = {"y", "z"}
  Incomplete = {"z"}
  Programs <- Separate
INVARIANTS NothingHalfMade NoReentry
PROPERTIES MadeOnce AllCallsReturn
CHECK_DEADLOCK FALSE
