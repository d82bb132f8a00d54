SPECIFICATION FairSpec
CONSTANTS
  A = A
  B = B
  C = C
  Messages = {A, B, C}
  Callers = {c1, c2}
  NoCaller = NoCaller
  NoMessage = NoMessage
  FieldLists <- MCFieldLists
INVARIANTS MarkersAreFrames TrueIsSound FalseIsSoundWhenAcyclic
PROPERTIES VerdictIsFinal EveryCallReturns
