CONSTANTS
  Mirrors = {m1, m2}
  Roots = {r1, r2}
  Slots = {s1, s2}
  MinSamples = 2
  MinTime = 2
  MaxSource = 4
  Vacant = Vacant
SPECIFICATION Spec
CHECK_DEADLOCK FALSE
SYMMETRY Interchangeable
INVARIANTS
  AdmissionEarned
PROPERTIES
  DispatchEarned NoSpuriousRestart
