SPECIFICATION Spec
CONSTANTS
  NCPU = 2
  None = None
  p1 = p1
  p2 = p2
  Proc = {p1, p2}
  WRAP = 3
  Sleeps <- MCSleeps
  Kills <- MCKills
  Uptimes = {p2}
PROPERTIES TrapResumes
INVARIANTS VectorRight SleepOnTime
VIEW View
