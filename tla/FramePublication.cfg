\* Two mirrors in two lifetimes each, two slots, two textures, two producers;
\* sequences saturate at 3, where the code's saturate at 2^64 - 1.
CONSTANTS
  Forms = {f1, f2}
  Gens = {g1, g2}
  SlotCount = 2
  Resources = {r1, r2}
  Leases = {1}
  Producers = {p1, p2}
  MaxSeq = 3
  NoFrame = NoFrame
  NoToken = NoToken
  NoSlot = NoSlot
  NoResource = NoResource
  NoLease = NoLease
SPECIFICATION Spec
SYMMETRY Symmetric
INVARIANTS
  IndexExact ReceiptHonoured
PROPERTIES
  StaleKeyFindsNothing ImplementsFrameStore
