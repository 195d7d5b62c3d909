\* The rule the header states, for the whole run.
CONSTANTS
  Names = {n1, n2, n3, n4}
  Families = {kPlayerRoot, kPane, kPrivateBatch}
  MaxRefusals = 2
  NoHolder = NoHolder
SPECIFICATION Spec
SYMMETRY Symmetric
INVARIANTS OneUnprovenPerRun
