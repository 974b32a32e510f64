SPECIFICATION Spec
CONSTANTS
  Proc = {w1, w2, r1}
  Readers = {r1}
  Writers = {w1, w2}
  Byte = {a, b}
  Junk = Junk
  NoProc = NoProc
  PIPESIZE = 2
  WRAP = 4
  MaxN = 2
SYMMETRY Symmetry
INVARIANTS NoLostWakeup NoUseAfterFree
PROPERTIES PipeIsFifo
CHECK_DEADLOCK FALSE
