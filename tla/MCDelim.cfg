SPECIFICATION Spec
CONSTANTS
    Cont = 2
    MaxVarintLen = 3
    Sizes = {0, 1, 2, 3, 4}
    Fills = {0, 1, 2}
    BadFill = 1
    Limit = 3
    BufferSize = 2
    Readers = {"bufio", "plain"}
    MaxMessages = 2
INVARIANTS InOrder EndIsTold SizesAreJudged
PROPERTIES ReaderEnds
CHECK_DEADLOCK FALSE
