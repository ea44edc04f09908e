CONSTANTS
  NPAGE = 18
  NPROC = 3
  PGSIZE = 2
  VPAGES = 4
  KTABS = 2
  WORD = 64
  Programs <- Progs
  InitProg <- Small
  ArgLens = {1}
  SbrkBy <- Amounts
  MaxCalls = 4
  MaxStores = 1
SPECIFICATION Spec
INVARIANTS PagesOwned SizeIsMapped OwnMemory
CHECK_DEADLOCK FALSE
