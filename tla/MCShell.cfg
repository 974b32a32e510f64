SPECIFICATION Spec
CONSTANTS
  Lines <- MCLines
  Strings <- MCStrings
  MAXARGS = 3
  NPROC = 6
  NPIPE = 2
  NOFILE = 6
INVARIANTS ParseRight WiredRight ForegroundDone
PROPERTY PromptReturns
