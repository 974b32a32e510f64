SPECIFICATION FairSpec
CONSTANTS
  NPROC = 3
  MaxPid = 4
  KillPids = {2}
INVARIANTS NoLostExit FreeSlotIdle
PROPERTIES KilledExits InitReaps
