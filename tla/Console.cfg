SPECIFICATION ConsoleSpec
CONSTANTS
  W = 128
  MaxLen = 5
  Null = Null
  Bad = Bad
  t1 = t1
  t2 = t2
  p1 = p1
  p2 = p2
  Threads = {t1, t2}
  Programs = {p1, p2}
  Plans <- AllPlans
INVARIANTS LinesStayWhole PrintsAsAsked
 
CHECK_DEADLOCK FALSE
