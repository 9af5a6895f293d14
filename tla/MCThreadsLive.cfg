CONSTANTS
  Cores = {c1}
  Reaper = reaper
  Workers = {w1, w2}
  None = None
SPECIFICATION Spec
PROPERTIES EveryReadyThreadRuns EveryZombieIsDeleted
