SPECIFICATION FairSpec
CONSTANTS
  Proc = {p1, p2}
  Block = {b1, b2, b3}
  Val = {v0, v1}
  Zero = v0
  Torn = Torn
  Absent = Absent
  MAXOPBLOCKS = 2
  LOGSIZE = 4
  Nlog = 4
  OpBlocks = 1
INVARIANTS RecyclableIsClean NoPanic
PROPERTIES CrashAtomicity SleepersWoken
