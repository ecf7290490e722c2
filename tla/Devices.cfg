SPECIFICATION Spec
CONSTANTS
    w1 = w1
    w2 = w2
    w3 = w3
    Worker = {w1, w2, w3}
    Swap1 = swbuf1
    Swap2 = swbuf2
    RawBuf = rhpbuf
    Drive = {0, 1}
    Loads <- AllLoads
    Cylinders = 3
    MaxErrors = 2
    u1 = u1
    u2 = u2
    User = {u1, u2}
    Nobody = Nobody
    Sessions <- AllSessions
    TTHIWAT = 2
    TTLOWAT = 1
    TTYHOG = 8
    BlockAt = 2
    UnblockAt = 1
    CANBSIZ = 6
INVARIANTS RequestsKept NobodyMisled ReadsEditedLines
PROPERTIES AllAreServed WritersReturn
CHECK_DEADLOCK FALSE
