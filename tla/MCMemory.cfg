SPECIFICATION Spec
CONSTANTS
  NPAGES = 16
  PGSIZE = 2
  FANOUT = 5
  LEVELS = 2
  W32 = 128
  W64 = 256
  NPROC = 2
  Zero = Zero
  x = x
  Byte = {Zero, x}
  Junk = Junk
  NoPte = NoPte
  NoPage = NoPage
  Trampoline = Trampoline
  NoAccess = NoAccess
  Dead = Dead
  Increments <- MCIncrements
  Images <- MCImages
  Addrs = {1}
  Lens = {2}
INVARIANTS PagesConserved
PROPERTY OwnAddressSpace
VIEW Shape
CHECK_DEADLOCK FALSE
