---------------------- MODULE StandingMirrorPlacement -----------------------
(***************************************************************************)
(* Interactive placement of a standing mirror                              *)
(* (src/src/StandingMirrorPlacement.cpp): using or dropping a kit queues a *)
(* task; the task stands a ghost in front of the player; once the menus    *)
(* are closed and the game has its controls back the ghost follows the     *)
(* player, until input, a menu, a failure or a load ends the placement.    *)
(* One lock is held by every handler, so a handler is one step.            *)
(*                                                                         *)
(* The five styles differ in their forms only and are one here.  A native  *)
(* call may fail without effect; a disposal may leave the reference, an    *)
(* enabling of controls may stop halfway, a removal may take two kits and  *)
(* its roll back may fail.  What the code logs as a failure of its own     *)
(* clean-up is kept in "failed".  The count of an item can be read.        *)
(***************************************************************************)
EXTENDS Integers, FiniteSets, Sequences

CONSTANTS
  Required,    \* the controls a placement leases: kActivate, kMenu, kFighting, kWheelZoom
  PickupNeeds, \* those of them a pickup reads: kActivate, kMenu
  Look,        \* kLooking, leased while the mirror is turned with the mouse
  Disabled,    \* those controls the game itself may disable
  Menus,       \* menus that open: the inventory, and others ("tween", "other")
  MaxOwned,    \* bound on the kits the player ever has
  MaxTasks,    \* bound on the tasks that wait
  MaxPlays,    \* bound on the games started or loaded
  MaxFailures  \* bound on the clean-ups that fail in one behaviour, no kind twice

ASSUME PlacementConstants ==
  /\ PickupNeeds \cup Disabled \subseteq Required \cup {Look}
  /\ Menus \subseteq {"inventory", "tween", "other"}
  /\ {MaxOwned, MaxTasks, MaxPlays, MaxFailures} \subseteq Nat

VARIABLES
  kits, drops, mirrors, \* kits the player carries, dropped kits, placed mirrors
  owned,       \* what the game has given less what it has taken
  ghosts,      \* preview references in the world
  controlsOff, \* the controls that ControlMap has disabled
  gameOff,     \* those the game wants disabled
  menus,       \* the open menus
  placing,     \* g_state
  tasks,       \* SKSE's task queue, the plugin's own
  asking,      \* a Papyrus call between its checks and its task
  formsReady,  \* g_ready
  dormant,     \* g_suspended
  generation,  \* g_lifecycleGeneration
  play,        \* which game is played; 0 is the main menu
  failed       \* the clean-ups that failed: of a "kit", a "ghost", of "controls"

worldVars == <<kits, drops, mirrors, owned>>
controlVars == <<controlsOff, gameOff>>
hostVars == <<formsReady, dormant, generation, play>>
placementVars == <<worldVars, ghosts, controlVars, menus, placing, tasks, asking, hostVars, failed>>

NoPlacement == [stage |-> "none", leased |-> FALSE, look |-> FALSE, play |-> 0]
NoCall == -1 \* asking

PlacementInit ==
  /\ kits = 0 /\ drops = 0 /\ mirrors = 0 /\ owned = 0
  /\ ghosts = 0
  /\ controlsOff = {} /\ gameOff = {} /\ menus = {}
  /\ placing = NoPlacement /\ tasks = <<>> /\ asking = NoCall
  /\ formsReady \in BOOLEAN /\ dormant = TRUE /\ generation = 1
  /\ play = 0
  /\ failed = {}

Fails(kinds) ==
  /\ kinds \cap failed = {}
  /\ failed' = failed \cup kinds /\ Cardinality(failed') <= MaxFailures
If(condition, kind) == IF condition THEN {kind} ELSE {}

-----------------------------------------------------------------------------
(* What the handlers are built from *)

\* Mutant of HeldBy: RestoreControlLease returns after the look lease.
HeldLookOnly(p) == IF p.look THEN {Look} ELSE {}

\* What RestoreControlLease gives back.
HeldBy(p) == (IF p.leased THEN Required ELSE {}) \cup (IF p.look THEN {Look} ELSE {})

\* The placement p ends with the controls "off" disabled and those it holds
\* given back, its ghost disposed of (DisposeReference, RestoreControlLease).
Ends(p, off, kinds) ==
  \E gone \in BOOLEAN, freed \in SUBSET HeldBy(p) :
    /\ placing' = NoPlacement
    /\ ghosts' = IF gone THEN ghosts - 1 ELSE ghosts
    /\ controlsOff' = off \ freed
    /\ Fails(kinds \cup If(~gone, "ghost") \cup If((off \cap HeldBy(p)) \ freed # {}, "controls"))

CancelLocked == Ends(placing, controlsOff, {}) /\ UNCHANGED <<worldVars, gameOff>>

\* AcquireControlLease answers kPending, kAcquired; or kFailed, upon which both
\* callers cancel: there is no control map, or a toggle failed and those done
\* are undone.
LeasePending == ~placing.leased /\ controlsOff \cap Required # {}
LeaseTaken == placing.leased \/ controlsOff \cap Required = {}
LeasedOff == IF placing.leased THEN controlsOff ELSE controlsOff \cup Required
\* Mutant of LeaseFails: "acquired" is set after the toggles.
LeaseFailsLate ==
  /\ ~placing.leased
  /\ \/ CancelLocked
     \/ /\ LeaseTaken
        /\ \E taken \in SUBSET Required : Ends(placing, controlsOff \cup taken, {})
        /\ UNCHANGED <<worldVars, gameOff>>

LeaseFails ==
  /\ ~placing.leased
  /\ \/ CancelLocked
     \/ /\ LeaseTaken
        /\ \E taken \in SUBSET Required :
             Ends([placing EXCEPT !.leased = TRUE], controlsOff \cup taken, {})
        /\ UNCHANGED <<worldVars, gameOff>>

\* The lease is taken; the placement is live once its ghost has moved.
Leases(moved) ==
  /\ LeaseTaken
  /\ placing' = [placing EXCEPT !.leased = TRUE,
                                !.stage = IF moved THEN "live" ELSE "waiting"]
  /\ controlsOff' = LeasedOff
  /\ UNCHANGED <<worldVars, gameOff, ghosts, failed>>

\* ConsumeInventoryItem of n kits: the count after, whether exactly one was
\* taken, and whether the code gives up with kits missing.
Consumed(n) ==
  {o \in [kits : {n, n - 1, n - 2} \cap Nat, taken : BOOLEAN, lost : BOOLEAN] :
     /\ o.kits = n <=> ~o.taken /\ ~o.lost
     /\ o.taken => o.kits = n - 1 /\ ~o.lost}

\* Mutant of TakenBack: the reference is deleted before the kit is added.
DeletedFirst(n, inWorld) ==
  {[kits |-> n, left |-> inWorld, lost |-> FALSE]} \cup
  IF inWorld = 0 THEN {}
  ELSE [kits : {n, n + 1}, left : {inWorld - 1}, lost : {FALSE}]

\* A kit comes back from the world: TransferDroppedItemToInventory,
\* PickupPlacedMirrorReference.  One is added before the reference is deleted,
\* and taken away again if it cannot be.
TakenBack(n, inWorld) ==
  {[kits |-> n, left |-> inWorld, lost |-> FALSE]} \cup
  IF inWorld = 0 THEN {}
  ELSE {[kits |-> n + 1, left |-> inWorld - 1, lost |-> FALSE]} \cup
       {[kits |-> o.kits, left |-> inWorld, lost |-> ~o.taken] : o \in Consumed(n + 1)}

\* BeginPlacementMainThread with n kits: nothing, a ghost that could be neither
\* set up nor disposed of, or a placement that waits.
Begins(n) ==
  \/ UNCHANGED <<placing, ghosts, failed>>
  \/ /\ formsReady /\ ~dormant /\ placing = NoPlacement /\ n > 0
     /\ ghosts' = ghosts + 1
     /\ \/ UNCHANGED placing /\ Fails({"ghost"})
        \/ /\ placing' = [NoPlacement EXCEPT !.stage = "waiting", !.play = play]
           /\ UNCHANGED failed

-----------------------------------------------------------------------------
(* Requests *)

Listens == ~dormant /\ formsReady

Queue(kind, s) ==
  /\ Len(tasks) < MaxTasks
  /\ tasks' = Append(tasks, [kind |-> kind, generation |-> generation, play |-> s])

\* BeginPlacementNative on a thread of the script machine, up to the read of
\* the generation; no script runs on from one game into the next.
BeginPlacementNative ==
  /\ Listens /\ play > 0 /\ asking = NoCall
  /\ asking' = play
  /\ UNCHANGED <<worldVars, ghosts, controlVars, menus, placing, tasks, hostVars, failed>>

\* QueueBeginPlacement.
QueueBeginPlacement ==
  /\ asking # NoCall
  /\ Queue("begin", asking) /\ asking' = NoCall
  /\ UNCHANGED <<worldVars, ghosts, controlVars, menus, placing, hostVars, failed>>

\* The player drops a kit; ContainerSink, QueueDroppedPlacement.
PlayerDropsKit ==
  /\ play > 0 /\ kits > 0
  /\ kits' = kits - 1 /\ drops' = drops + 1
  /\ IF Listens THEN Queue("drop", play) ELSE UNCHANGED tasks
  /\ UNCHANGED <<mirrors, owned, ghosts, controlVars, menus, placing, asking, hostVars, failed>>

\* A task finds its game still played.
Current(t) == t.generation = generation /\ ~dormant

RunPlacementTask ==
  /\ tasks # <<>>
  /\ tasks' = Tail(tasks)
  /\ LET t == Head(tasks) IN
     \/ ~Current(t) /\ UNCHANGED <<kits, drops, placing, ghosts, failed>>
     \/ Current(t) /\ t.kind = "begin" /\ Begins(kits) /\ UNCHANGED <<kits, drops>>
     \/ /\ Current(t) /\ t.kind = "drop"
        /\ \E o \in TakenBack(kits, drops) :
             /\ kits' = o.kits /\ drops' = o.left
             /\ IF o.left < drops THEN Begins(o.kits)
                ELSE UNCHANGED <<placing, ghosts>> /\ Fails(If(o.lost, "kit"))
  /\ UNCHANGED <<mirrors, owned, controlVars, menus, asking, hostVars>>

-----------------------------------------------------------------------------
(* InputSink, MenuSink, ActivateSink.  A batch of events holds one button here: *)
(* the rest of a batch is the next one.                                    *)

Quiet == UNCHANGED <<menus, tasks, asking, hostVars>>
HandlesInput(stage) == ~dormant /\ menus = {} /\ placing.stage = stage

\* InputSink::ProcessEvent with a placement that waits: it goes live, or the
\* lease or the first move of the ghost fails.
InputWhileWaiting ==
  /\ HandlesInput("waiting")
  /\ \/ Leases(TRUE)
     \/ LeaseFails
     \/ /\ LeaseTaken
        /\ Ends([placing EXCEPT !.leased = TRUE], LeasedOff, {})
        /\ UNCHANGED <<worldVars, gameOff>>
  /\ Quiet

\* The ghost could not follow, or the player cancels.
InputCancels == HandlesInput("live") /\ CancelLocked /\ Quiet

\* The right mouse button; SetLookLease may fail without effect.
InputTurns ==
  /\ HandlesInput("live")
  /\ placing' = [placing EXCEPT !.look = ~@]
  /\ controlsOff' = IF placing.look THEN controlsOff \ {Look} ELSE controlsOff \cup {Look}
  /\ UNCHANGED <<worldVars, ghosts, gameOff, failed>> /\ Quiet

\* ConfirmLocked, and the cancellation if it fails.  The ghost goes, the mirror
\* is staged, and taking the kit is the last step that can fail.
InputConfirms ==
  /\ HandlesInput("live")
  /\ \/ CancelLocked
     \/ \E o \in Consumed(kits), gone \in BOOLEAN :
          /\ kits' = o.kits
          /\ mirrors' = IF o.taken \/ ~gone THEN mirrors + 1 ELSE mirrors
          /\ Ends(placing, controlsOff, If(o.lost \/ (~o.taken /\ ~gone), "kit"))
          /\ UNCHANGED <<drops, owned, gameOff>>
  /\ Quiet

\* The activate button with no placement, through PickupCrosshairMirror, or
\* ActivateSink.
PickupPlacedMirrorReference ==
  /\ Listens \/ HandlesInput("none")
  /\ play > 0
  /\ controlsOff \cap PickupNeeds = {}
  /\ \E o \in TakenBack(kits, mirrors) :
       kits' = o.kits /\ mirrors' = o.left /\ Fails(If(o.lost, "kit"))
  /\ UNCHANGED <<drops, owned, ghosts, controlVars, placing>> /\ Quiet

\* A menu opens over a live placement; other menus are not listened to.
MenuOpened(m) ==
  /\ m \notin menus /\ menus' = menus \cup {m}
  /\ IF ~dormant /\ m # "other" /\ placing.stage = "live" THEN CancelLocked
     ELSE UNCHANGED <<worldVars, ghosts, controlVars, placing, failed>>
  /\ UNCHANGED <<tasks, asking, hostVars>>

\* The inventory closes over a placement that waits.
MenuClosed(m) ==
  /\ m \in menus /\ menus' = menus \ {m}
  /\ \/ /\ ~dormant /\ m = "inventory" /\ placing.stage = "waiting"
        /\ LeaseFails \/ \E moved \in BOOLEAN : Leases(moved)
     \/ /\ dormant \/ m # "inventory" \/ placing.stage # "waiting" \/ LeasePending
        /\ UNCHANGED <<worldVars, ghosts, controlVars, placing, failed>>
  /\ UNCHANGED <<tasks, asking, hostVars>>

-----------------------------------------------------------------------------
(* Loads *)

\* OnPreLoadGame; bounded to one load that is not completed.
PreLoadGame ==
  /\ generation <= 2 * play + 1
  /\ dormant' = TRUE /\ generation' = generation + 1
  /\ IF placing = NoPlacement
     THEN UNCHANGED <<worldVars, ghosts, controlVars, placing, failed>>
     ELSE CancelLocked
  /\ UNCHANGED <<menus, tasks, asking, formsReady, play>>

\* Mutant of NextGame: the generation counts pre-loads only.
NextGameUncounted ==
  /\ play < MaxPlays /\ asking = NoCall
  /\ play' = play + 1
  /\ owned' \in 0..MaxOwned
  /\ kits' \in 0..owned' /\ drops' \in 0..(owned' - kits') /\ mirrors' = owned' - kits' - drops'
  /\ ghosts' = 0 /\ menus' = {}
  /\ dormant' = FALSE /\ placing' = NoPlacement
  /\ controlsOff' = controlsOff \ HeldBy(placing)
  /\ UNCHANGED <<gameOff, tasks, asking, formsReady, generation, failed>>

\* The world of the next game, any that was saved or a new one, without its
\* temporary ghost; and OnGameLoaded.  A new game comes with no pre-load message.
NextGame ==
  /\ play < MaxPlays /\ asking = NoCall
  /\ play' = play + 1
  /\ owned' \in 0..MaxOwned
  /\ kits' \in 0..owned' /\ drops' \in 0..(owned' - kits') /\ mirrors' = owned' - kits' - drops'
  /\ ghosts' = 0 /\ menus' = {}
  /\ generation' = generation + 1 /\ dormant' = FALSE
  /\ placing' = NoPlacement
  /\ \E freed \in SUBSET HeldBy(placing) :
       /\ controlsOff' = controlsOff \ freed
       /\ Fails(If(HeldBy(placing) \ freed # {}, "controls"))
  /\ UNCHANGED <<gameOff, tasks, asking, formsReady>>

-----------------------------------------------------------------------------
(* The game *)

GameGivesKit ==
  /\ play > 0 /\ owned < MaxOwned
  /\ kits' = kits + 1 /\ owned' = owned + 1
  /\ UNCHANGED <<drops, mirrors, ghosts, controlVars, placing, failed>> /\ Quiet

GameTakesKit ==
  /\ kits > 0
  /\ kits' = kits - 1 /\ owned' = owned - 1
  /\ UNCHANGED <<drops, mirrors, ghosts, controlVars, placing, failed>> /\ Quiet

PlayerTakesDrop ==
  /\ drops > 0
  /\ kits' = kits + 1 /\ drops' = drops - 1
  /\ UNCHANGED <<mirrors, owned, ghosts, controlVars, placing, failed>> /\ Quiet

GameSetsControls ==
  /\ \E off \in SUBSET Disabled :
       gameOff' = off /\ controlsOff' = (controlsOff \cup off) \ (gameOff \ off)
  /\ UNCHANGED <<worldVars, ghosts, placing, failed>> /\ Quiet

PlacementNext ==
  \/ BeginPlacementNative \/ QueueBeginPlacement \/ PlayerDropsKit \/ RunPlacementTask
  \/ InputWhileWaiting \/ InputCancels \/ InputTurns \/ InputConfirms
  \/ PickupPlacedMirrorReference
  \/ \E m \in Menus : MenuOpened(m) \/ MenuClosed(m)
  \/ PreLoadGame \/ NextGame
  \/ GameGivesKit \/ GameTakesKit \/ PlayerTakesDrop \/ GameSetsControls

\* The engine delivers input every frame; that the control map is missing is
\* not counted on to end a wait.
PlacementFairness == WF_placementVars(LeaseTaken /\ InputWhileWaiting)

PlacementSpec == PlacementInit /\ [][PlacementNext]_placementVars /\ PlacementFairness

-----------------------------------------------------------------------------
(* Properties *)

\* Whatever step of a placement, a pickup or a transfer fails, no kit is lost
\* and none is made: what the player was given is carried, dropped or placed,
\* unless the code has reported that its own roll back failed.
KitsConserved == "kit" \notin failed => kits + drops + mirrors = owned

\* However a placement ends, no ghost is left in the world and no control is
\* left disabled that the game does not want disabled.
PlacementCleansUp ==
  /\ "ghost" \notin failed => ghosts = IF placing = NoPlacement THEN 0 ELSE 1
  /\ "controls" \notin failed => controlsOff \subseteq gameOff \cup HeldBy(placing)

\* A request of one game neither moves a kit nor starts a placement in the
\* next, and no placement outlives its game.
OwnGameOnly ==
  /\ placing # NoPlacement => placing.play = play
  /\ \A i \in 1..Len(tasks) : Current(tasks[i]) => tasks[i].play = play

\* A placement does not wait for ever once menus stay closed and the game has
\* given its controls back: nothing that earlier placements did keeps them off.
WaitEnds ==
  <>[](menus = {} /\ gameOff = {} /\ "controls" \notin failed) =>
    (placing.stage = "waiting" ~> placing.stage # "waiting")
=============================================================================
