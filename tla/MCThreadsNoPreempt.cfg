CONSTANTS
  Cores = {c1, c2}
  Reaper = reaper
  Workers = {w1}
  None = None
SPECIFICATION Spec
INVARIANTS PreemptibleInOwnCode
