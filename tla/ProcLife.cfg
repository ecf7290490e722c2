SPECIFICATION LiveSpec
CONSTANTS
  Systems <- Mixes
INVARIANTS TableIsSound OneConversation GroupsHaveLeaders
PROPERTIES PtraceReturns
CHECK_DEADLOCK FALSE
