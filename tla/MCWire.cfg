SPECIFICATION Spec
CONSTANTS
    Half = 64
    Cmds <- AllWords
    Seqs <- AllWords
    Payloads <- EdgePayloads
INVARIANTS
    TypeOK
    TokenRoundTrip
    BorrowFromCmd
    OperationFramed
\* One exchange, and then the model is done.
CHECK_DEADLOCK FALSE
