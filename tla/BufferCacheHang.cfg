SPECIFICATION Spec
CONSTANTS
  Proc = {p1, p2}
  Buf = {b1, b2}
  Block = {k1, k2, k3}
  Val = {v1}
  Stale = Stale
  NoProc = NoProc
  NoBlock = NoBlock
  NoBuf = NoBuf
  NoChan = NoChan
  FreeList = FreeList
  MayFail = FALSE
INVARIANTS NoHangInBreada
CHECK_DEADLOCK FALSE
