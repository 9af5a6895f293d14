CONSTANTS
  Cores = {c1, c2}
  Reaper = reaper
  Workers = {w1, w2, w3}
  None = None
SPECIFICATION Spec
INVARIANTS OnePlace PreemptedOnlyOutsideBlock IdleStaysHome InterruptsOnInOwnCode
PROPERTIES ImplementsLifecycle
SYMMETRY Symmetry
