SPECIFICATION Spec
CONSTANTS
  Proc = {p1, p2}
  Ino = {i1, i2}
  NoIno = NoIno
  Name = {n1, n2}
  NoName = NoName
  NICINOD = 1
  NoProc = NoProc
  Systems <- Mixes
SYMMETRY Symmetric
INVARIANTS CountsReferences LocksWork FilesHaveNames
PROPERTIES NewIsFresh
