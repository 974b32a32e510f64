SPECIFICATION Spec
CONSTANTS
  NPROC = 2
  NINODE = 3
  NINODES = 3
  NFILE = 1
  NOFILE = 2
  Name <- MCName
  Calls <- MCCalls
INVARIANTS RefsCounted NoPanic NoDeadlock
PROPERTY HeldStays
CHECK_DEADLOCK FALSE
