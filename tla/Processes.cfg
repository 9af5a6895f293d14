SPECIFICATION Spec
CONSTANTS
  Procs = {p1, p2, p3}
  First = p1
  Ids = {2, 10, 20, 21}
  MaxDescs = 2
  MaxSems = 1
  MaxCount = 1
  None = None
INVARIANTS LivesWhileReferredTo WaitReturnsTheChildsCode NobodyWaitsInVain
CHECK_DEADLOCK FALSE
