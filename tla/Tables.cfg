SPECIFICATION LiveSpec
CONSTANTS
    Call = {c1, c2, c3}
    MaxTime = 3
    NCALL = 6
    Room = 5
    Size = 7
    SMAPSIZ = 4
    FirstFree = 3
    MaxFree = 8
    NICMEM = 3
    Queue = {q1, q2}
    Char = {0, 1}
    NCLIST = 3
    CBSIZE = 2
    MaxMove = 3
    NDIRECT = 1
    NINDIR = 2
    NBLOCK = 4
    Strings <- Pair
    Counts = {3}
    Offsets <- Borders
    MaxStuck = 1
INVARIANTS Ordered CoreIInv BlocksKept BlocksInOnePlace
PROPERTIES ImplementsTimers EveryCallIsMade ImplementsFirstFit ImplementsQueues ImplementsFile
VIEW TablesView
