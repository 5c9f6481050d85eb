SPECIFICATION ConversationSpec
CONSTANTS
    Sizes = {7, 8, 9}
    Segments = {4, 7, 16, 18}
    BufSize = 16
    MaxBytes = 44
    KindOf <- KindsBySize
    OperationSizes = {14, 21}
    MaxOperations = 1
INVARIANTS
    ConversationTypeOK
    HandledExactly
    AnsweredExactly
    UnderstoodExactly
\* The device stops sending at MaxBytes.
CHECK_DEADLOCK FALSE
