SPECIFICATION Spec
CONSTANTS
  Machines <- AllMachines
  MaxProcs = 3
  PciSlots = 3
  Slots = 8
  LoadSlot = 4
  CountW = 16
  Hz = 10
  Garbage = {0, 1, 255}
INVARIANTS OwnStack ReadyWhenUsed
PROPERTIES ProgramStarts WaitsOnlyForAnswers
CHECK_DEADLOCK FALSE
