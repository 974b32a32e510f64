SPECIFICATION Spec
CONSTANTS
  Proc <- MCProc
  Ino <- MCIno
  BSIZE = 2
  NDIRECT = 2
  FSSIZE = 14
  LOGSIZE = 1
  NINODES = 4
  IPB = 2
  MAXOPBLOCKS = 6
  Files <- MCFiles
  Writes <- MCWrites
  Reads <- MCReads
  Truncs <- MCTruncs
INVARIANTS BlocksOwned TransactionFits
CHECK_DEADLOCK FALSE
VIEW View
PROPERTY FileIsBytes
