SPECIFICATION Spec
CONSTANTS
  A = A
  B = B
  C = C
  Messages = {A, B, C}
  Callers = {c1}
  NoCaller = NoCaller
  NoMessage = NoMessage
  FieldLists <- MCFieldLists
INVARIANT ReturnsTrueIfNeeded
