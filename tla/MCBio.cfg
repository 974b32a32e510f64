SPECIFICATION Spec
CONSTANTS
  Thread = {t1, t2}
  Nobody = Nobody
  Intr = Intr
  Block = {n1, n2, n3}
  NoBlock = NoBlock
  Val = {v1, v2}
  NBUF = 2
  MaxPins <- MCPins
  Nums = {4, 8}
  IDX = 8
SYMMETRY Symmetry
INVARIANTS Coherent RefsCounted NoLostWakeup RequestTracked
CHECK_DEADLOCK FALSE
