SPECIFICATION Spec
CONSTANTS
  Procs = {p1, p2}
  First = p1
  NFrames = 10
  Width = 2
  Touched = {0, 2}
  Values = {1}
  MayExec = {p1}
INVARIANTS OneUsePerFrame 
CHECK_DEADLOCK FALSE
