SPECIFICATION Spec
CONSTANTS
    LazyFields <- MCLazy
    PlainFields <- MCPlain
    Classes = {"ok", "partial", "unsure", "unsurebad", "invalid", "wrongtype"}
    Modes = {"default", "discard", "nolazy"}
    MaxRecords = 3
    MaxCalls = 2
INVARIANTS ErrorsAsEager FieldsAsEager UnknownAsEager NothingHalfDecoded PartialIsRechecked InitializedIsSound
CHECK_DEADLOCK FALSE
