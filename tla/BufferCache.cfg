SPECIFICATION Spec
CONSTANTS
  Proc = {p1, p2}
  Buf = {b1, b2}
  Block = {k1, k2}
  Val = {v1, v2}
  Stale = Stale
  NoProc = NoProc
  NoBlock = NoBlock
  NoBuf = NoBuf
  NoChan = NoChan
  FreeList = FreeList
  MayFail = TRUE
SYMMETRY Symmetric
INVARIANTS Accounted NoLostWakeup
PROPERTIES ImplementsStore
CHECK_DEADLOCK FALSE
