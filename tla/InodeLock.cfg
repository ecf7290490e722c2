SPECIFICATION Spec
CONSTANTS
  Proc = {p1, p2}
  Ino = {i1, i2}
  NoIno = NoIno
  Name = {n1, n2}
  NoName = NoName
  NICINOD = 2
  NoProc = NoProc
  Systems <- Unsafe
INVARIANTS LockHasOneOwner
CHECK_DEADLOCK FALSE
