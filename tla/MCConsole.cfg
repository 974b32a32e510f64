SPECIFICATION Spec
CONSTANTS
  Reader = {r1, r2}
  Writer = {w1, w2}
  r1 = r1
  r2 = r2
  w1 = w1
  w2 = w2
  Nobody = Nobody
  Char <- MCChar
  Byte <- MCByte
  Loads <- MCLoads
  INPUT_BUF = 2
  UART_TX_BUF_SIZE = 2
  WRAP = 4
  FIFO = 5
VIEW View
INVARIANTS NoLostWakeup
PROPERTIES InputIsLines OutputIsFifo
CHECK_DEADLOCK FALSE
