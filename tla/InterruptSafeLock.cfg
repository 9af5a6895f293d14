CONSTANT Cores = {c1, c2}
SPECIFICATION Spec
INVARIANTS MutualExclusion NoSelfDeadlock RestoresInterrupts
PROPERTY AlwaysReleased
