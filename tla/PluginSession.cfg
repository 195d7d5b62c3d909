\* Four names over three families: every conflict between proven and unproven; two roots and two
\* items, so a scope may find another root or item than the one that is owed.
CONSTANTS
  Names = {m3, n2, n3, n4}
  Families = {kPlayerRoot, kPane, kPrivateBatch}
  MaxRefusals = 2
  NoHolder = NoHolder
  PlayerName = m3
  PlayerFamily = kPlayerRoot
  Roots = {r1, r2}
  NoRoot = NoRoot
  MaxLeaks = 1
  Items = {i1, i2}
  NoItem = NoItem
  Attempts = 8
\* Cell events on the main thread, or on two threads of their own.
  Main = main
  Events = {e1, e2}
\* Three mirrors, one of them in two lifetimes; a source captures one of them or all.
  Identities <- TwoLifetimes
  Modes = {TRUE, FALSE}
  Vacant = Vacant
  Hand = Hand
\* Two controls stand for the four, one that a pickup reads and one that it does not.
  Required = {kActivate, kFighting}
  PickupNeeds = {kActivate}
  Look = kLooking
  Disabled = {kFighting}
  Menus = {"inventory", "other"}
  MaxOwned = 1
  MaxTasks = 1
  MaxPlays = 2
  MaxFailures = 1
\* Declarations: one base more than the catalog takes, and two files.
  Bases = {1, 2, 3}
  MaxBases = 2
  Leaves = {1, 2}
  Forms = {f1, f2, f3}
  NoForm = NoForm
  OwnBases = 2
  Callers = {main, e1}
  Origin = main
SPECIFICATION SessionSpec
CHECK_DEADLOCK FALSE
INVARIANTS
  NoSelfConflict FailuresAttributable BodyHasOwner
  ItemHasOwner PublishedIsClean HidingSurvivesInventory
  KitsConserved PlacementCleansUp OwnGameOnly
PROPERTIES
  SlotsStable PlanCovers FairShare
  DeferralEnds WaitEnds TicketRestored TakenWhole
