CONSTANTS
  Cores = {c1, c2}
  Threads = {t1, t2, t3}
  None = None
  initial_count = 3
  MaxCalls = 6
SPECIFICATION Spec
INVARIANTS NoMissedSignal InterruptsFollowTheLock
PROPERTIES ImplementsRounds EveryoneLeaves
CHECK_DEADLOCK FALSE
