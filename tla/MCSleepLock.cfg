SPECIFICATION FairSpec
CONSTANTS
  NPROC = 3
  Cpu = {c1, c2}
  NoCpu = NoCpu
INVARIANTS MutualExclusion StackExclusive NoLostWakeup
PROPERTIES SleepersWoken
