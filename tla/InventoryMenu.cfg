\* One item and its capture; the menu may open at any moment of it.
CONSTANTS
  Names = {m3}
  Families = {kPlayerRoot}
  MaxRefusals = 1
  NoHolder = NoHolder
  PlayerName = m3
  PlayerFamily = kPlayerRoot
  Roots = {r1}
  NoRoot = NoRoot
  MaxLeaks = 1
  Items = {i1}
  NoItem = NoItem
  Attempts = 8
SPECIFICATION ScopesSpec
CHECK_DEADLOCK FALSE
INVARIANTS InventorySuspendsCleanly
