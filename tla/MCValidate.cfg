SPECIFICATION Spec
CONSTANTS
    Outer = Outer
    Inner = Inner
    Wide = Wide
    Ring = Ring
    Nil = Nil
    Top = Outer
    Schema <- MCSchema
    NeedsCheck = {Outer, Inner, Wide}
    Tokens <- MCTokens
    Opaque <- MCOpaque
    Group = 4
    MaskBits = 1
    RecursionLimit = 4
    DefaultRecursionLimit = 2
    MaxTokens = 5
INVARIANTS SlicesAddUp AgreesWithUnmarshal InitializedIsSound UnmarshalInitializedIsSound
CHECK_DEADLOCK FALSE
