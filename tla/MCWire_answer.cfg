SPECIFICATION Spec
CONSTANTS
    Half = 64
    Cmds = {1}
    Seqs = {1}
    Payloads <- EdgePayloads
INVARIANT AnswerIsWhole
CHECK_DEADLOCK FALSE
