SPECIFICATION LiveSpec
CONSTANTS
  Proc = {p1, p2}
  PIPSIZ = 2
  MaxCount = 3
  NoProc = NoProc
INVARIANTS OneHolder CountsSides NoLostWakeup
PROPERTIES ToldTheTruth ImplementsStream EndsAreNoticed
