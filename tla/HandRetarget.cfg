SPECIFICATION Spec
CONSTANTS
  shield = shield
  torch = torch
  Owners <- MCOwners
  MaxMiss = 2
  MaxSource = 4
  MaxEvents = 2
  ResizeWhileHeld = TRUE
SYMMETRY Symmetry
CHECK_DEADLOCK FALSE
PROPERTY ReallocationNeverFaults
