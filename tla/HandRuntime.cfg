SPECIFICATION Spec
CONSTANTS
  shield = shield
  torch = torch
  Owners <- MCOwners
  MaxMiss = 2
  MaxSource = 4
  MaxEvents = 2
  ResizeWhileHeld = FALSE
SYMMETRY Symmetry
INVARIANTS
  DrawsOwnCapture
  NoSelfFault
  ShownFresh
CHECK_DEADLOCK FALSE
