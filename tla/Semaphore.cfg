CONSTANTS
  Cores = {c1, c2}
  Threads = {t1, t2, t3}
  Initial = 1
  MaxSignals = 1
  None = None
SPECIFICATION Spec
INVARIANTS NobodyWaitsForAPermit RestoresInterrupts OneThreadOnePlace
PROPERTIES ImplementsCountingSemaphore EveryWaiterIsLetIn
