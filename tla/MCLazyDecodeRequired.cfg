SPECIFICATION Spec
CONSTANTS
    LazyFields <- MCLazy
    PlainFields <- MCPlain
    Classes = {"ok", "partial"}
    Modes = {"default"}
    MaxRecords = 2
    MaxCalls = 1
INVARIANTS RequiredChecked
CHECK_DEADLOCK FALSE
