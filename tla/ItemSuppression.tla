--------------------------- MODULE ItemSuppression --------------------------
(***************************************************************************)
(* Hiding the mirror item while the player is drawn into it: the lease     *)
(* machine of src/src/HandMirrorItemSuppressionLeasePolicy.h, and the      *)
(* adapter of src/src/SecondView.cpp that reads, writes and reads back the *)
(* item's app-cull bit for it, tries again, and leaves a ticket for the    *)
(* scene fence when it cannot put the bit back.                            *)
(*                                                                         *)
(* Every action is one native call with what follows it up to the next     *)
(* look at HandSuppressionLifecycleTransitionSuspended.  A menu, an equip  *)
(* or a load makes that true between any two; it stays so until the next   *)
(* fence.  A call that faults latches g_faulted, and may have done its     *)
(* work; a write that is not verified leaves the other value.              *)
(*                                                                         *)
(* A capture has one machine, so the lease identity presented to it is its *)
(* own and is left out; the tokens do not run out.                         *)
(***************************************************************************)
EXTENDS Integers, FiniteSets

CONSTANTS Items,    \* mirror items that are or were equipped
          NoItem,
          Attempts  \* the adapter's tries to restore (eight in the code)

ASSUME ItemConstants == NoItem \notin Items /\ Attempts \in Nat \ {0}

VARIABLES
  item,      \* the app-cull bit of each item
  worn,      \* what the game last put there
  itemRefs,  \* references of the plugin to each item
  machine,   \* LeaseMachine
  lease,     \* HandSuppressionState, and where the adapter is
  ticket,    \* g_pendingHandSuppressionRecovery
  suspended, \* HandSuppressionLifecycleTransitionSuspended
  latched    \* g_faulted

itemVars == <<item, worn, itemRefs, machine, lease, ticket, suspended, latched>>

NewMachine ==
  [phase |-> "idle", first |-> "none", prior |-> FALSE, owned |-> FALSE, proven |-> FALSE]

\* clone: whether the equipped clone the capture leased is the live one, has a
\* newer generation, or has been replaced.  plain: every call of this capture
\* was verified and every observation completed.
NoLease ==
  [at |-> "none", target |-> NoItem, ok |-> TRUE, culled |-> FALSE, tries |-> 0,
   closing |-> FALSE, pass |-> "none", context |-> "ordinary", retained |-> NoItem,
   may |-> FALSE, faulted |-> FALSE, cleanupOnly |-> FALSE, clone |-> "current",
   plain |-> TRUE]
NoTicket == [item |-> NoItem, prior |-> FALSE]

ItemInit ==
  /\ item = [i \in Items |-> FALSE] /\ worn = item
  /\ itemRefs = [i \in Items |-> 0]
  /\ machine = NewMachine /\ lease = NoLease /\ ticket = NoTicket
  /\ suspended = FALSE /\ latched = FALSE

-----------------------------------------------------------------------------
(* LeaseMachine.  An observation has a status, and is exact when the live   *)
(* subtree and the generations are the leased ones.                         *)

AdapterFailure(status) == CASE status = "returned" -> "none"
                            [] status = "failed" -> "abnormal"
                            [] status = "unread" -> "missing"

\* The failure a readback shows: the bit must be as wanted.
ReadbackFailure(ob, culled, wanted) ==
  IF AdapterFailure(ob.status) # "none" THEN AdapterFailure(ob.status)
  ELSE IF ~ob.exact THEN "drift"
  ELSE IF culled # wanted THEN "mismatch" ELSE "none"

\* LatchFailure keeps the first.
Latch(m, f) == IF m.first = "none" THEN [m EXCEPT !.first = f] ELSE m

MachineBegin(m, ob, culled) ==
  LET f == IF AdapterFailure(ob.status) # "none" THEN AdapterFailure(ob.status)
           ELSE IF ~ob.exact THEN "ancestry" ELSE "none"
  IN  IF f # "none" THEN [Latch(m, f) EXCEPT !.phase = "faulted"]
      ELSE [m EXCEPT !.prior = culled, !.phase = IF culled THEN "no-write" ELSE "awaiting-set"]

CompleteSuppressionReadback(m, ob, culled) ==
  LET f == ReadbackFailure(ob, culled, TRUE)
  IN  IF f # "none" THEN [Latch(m, f) EXCEPT !.phase = "fail-stop"]
      ELSE [m EXCEPT !.owned = TRUE, !.phase = "owned-write"]

MachineClose(m, ob, culled, returned) ==
  LET seen == Latch(IF returned THEN m ELSE Latch(m, "abnormal"), ReadbackFailure(ob, culled, TRUE))
      good == seen.first = "none"
  IN  IF m.phase = "owned-write"
      THEN [seen EXCEPT !.phase = IF good THEN "awaiting-restore" ELSE "fail-stop"]
      ELSE [seen EXCEPT !.phase = IF good THEN "closed" ELSE "faulted", !.proven = good]

\* Mutant: a restore is proven by having been tried.
RestoreTried(m, ob, culled) ==
  [m EXCEPT !.proven = TRUE, !.phase = IF m.first = "none" THEN "closed" ELSE "faulted"]

CompleteRestoreReadback(m, ob, culled) ==
  LET f == ReadbackFailure(ob, culled, m.prior)
  IN  IF f # "none" THEN [Latch(m, f) EXCEPT !.proven = FALSE, !.phase = "fail-stop"]
      ELSE [m EXCEPT !.proven = TRUE, !.phase = IF m.first = "none" THEN "closed" ELSE "faulted"]

\* Mutant: a failure after which the transition is no excuse, whatever it is.
AttributableIfNone(f, context) == f = "none"

\* What a lifecycle transition excuses.
IsLifecycleAttributableFailure(f, context) ==
  \/ f \in {"none", "missing", "drift"}
  \/ f = "abnormal" /\ context = "pass-failed"

-----------------------------------------------------------------------------
(* The native calls *)

\* MakeHandSuppressionObservation after a call that returned or failed.
Observations ==
  {[status |-> IF lease.ok THEN "returned" ELSE "failed", exact |-> lease.clone = "current"],
   [status |-> "unread", exact |-> FALSE]}

Completes(ob) == ob.status # "unread"

\* WriteHandItemCullSEH.
Writes == {"verified", "unverified", "fault"}
Written(i, v, how) ==
  \E b \in CASE how = "verified" -> {v} [] how = "unverified" -> {~v} [] how = "fault" -> {v, item[i]} :
    item' = [item EXCEPT ![i] = b]

\* ReleaseHandItemSEH.
ItemDropped(i, released) ==
  \E n \in IF released THEN {1} ELSE {0, 1} : itemRefs' = [itemRefs EXCEPT ![i] = @ - n]

Latched(fault) == latched' = (latched \/ fault)

\* The capture goes on at a place, or its adapter returns.
Goes(l, at) == lease' = [l EXCEPT !.at = at]
Returns(l) == Goes([l EXCEPT !.cleanupOnly = TRUE], "returned")
FailStops(l) == Goes([l EXCEPT !.faulted = TRUE], "returned") /\ latched' = TRUE

\* RetainHandSuppressionCleanupOnly succeeds.
Retainable(l) == l.may /\ l.retained # NoItem /\ ticket = NoTicket

\* Mutant: the ticket has the value the item has.
TicketAsIs(l) == [item |-> l.retained, prior |-> item[l.retained]]
Ticket(l) == [item |-> l.retained, prior |-> machine.prior]

\* TryRecoverPendingHandSuppression of a pending ticket; ok is what it returns.
TryRecover(ok) ==
  \E how \in Writes, released \in BOOLEAN :
    /\ Written(ticket.item, ticket.prior, how)
    /\ IF how = "verified"
       THEN ticket' = NoTicket /\ ItemDropped(ticket.item, released) /\ Latched(~released)
       ELSE Latched(how = "fault") /\ UNCHANGED <<ticket, itemRefs>>
    /\ ok = (how = "verified" /\ released)

-----------------------------------------------------------------------------
(* CloseHandSuppressionForLifecycleTransition *)

\* The retained item is put back whatever the live clone is now; of the tries
\* the last one tells, and one before it may have faulted.
RestoreRetained(l, terminal) ==
  \E how \in Writes, before \in BOOLEAN, released \in BOOLEAN :
    /\ Written(l.retained, machine.prior, how)
    /\ IF how = "verified"
       THEN /\ ItemDropped(l.retained, released)
            /\ LET done == [l EXCEPT !.may = FALSE, !.retained = NoItem,
                                    !.plain = @ /\ released /\ ~before]
               IN IF released /\ ~terminal THEN Returns(done) /\ Latched(before)
                  ELSE FailStops(done)
            /\ UNCHANGED ticket
       ELSE /\ ticket' = IF Retainable(l) THEN Ticket(l) ELSE ticket
            /\ LET kept == [l EXCEPT !.retained = IF Retainable(l) THEN NoItem ELSE @, !.plain = FALSE]
               IN IF Retainable(l) /\ ~terminal
                  THEN Returns([kept EXCEPT !.may = FALSE]) /\ Latched(before \/ how = "fault")
                  ELSE FailStops(kept)
            /\ UNCHANGED itemRefs

\* Where the adapter has nothing to put back, a write it once owned is a fault:
\* a transition first seen after the restore ends the captures.
ReleaseNoWrite(l, terminal) ==
  /\ IF terminal \/ machine.owned \/ l.retained # NoItem
     THEN FailStops(l) ELSE Returns(l) /\ UNCHANGED latched
  /\ UNCHANGED <<item, itemRefs, ticket>>

CloseForLifecycleTransition(l) ==
  LET terminal == l.faulted \/ ~IsLifecycleAttributableFailure(machine.first, l.context)
  IN  IF l.may THEN RestoreRetained(l, terminal) ELSE ReleaseNoWrite(l, terminal)

\* A look at the transition between two calls.
TransitionSeen ==
  /\ suspended
  /\ lease.at \in {"read", "begun", "retained", "written", "completed", "restoring",
                   "rewritten", "reread", "closing", "closeread", "closed", "settling"}
  /\ CloseForLifecycleTransition(lease)
  /\ UNCHANGED <<worn, machine, suspended>>

\* The adapter is at a place and has looked.
At(place) == lease.at = place /\ ~suspended /\ UNCHANGED <<worn, suspended>>

-----------------------------------------------------------------------------
(* BeginHandSuppression *)

BeginStarts ==
  /\ lease.at = "none" /\ ~latched
  /\ \E i \in Items : lease' = [NoLease EXCEPT !.at = "start", !.target = i]
  /\ UNCHANGED <<item, worn, itemRefs, machine, ticket, suspended, latched>>

BeginRefused ==
  /\ suspended /\ lease.at \in {"start", "recovered"}
  /\ Returns(lease)
  /\ UNCHANGED <<item, worn, itemRefs, machine, ticket, suspended, latched>>

BeginRecovers ==
  /\ At("start")
  /\ IF ticket = NoTicket THEN Goes(lease, "recovered") /\ UNCHANGED <<item, itemRefs, ticket, latched>>
     ELSE \E ok \in BOOLEAN :
            TryRecover(ok) /\ Goes([lease EXCEPT !.ok = ok, !.plain = ok], "recovered")
  /\ UNCHANGED machine

BeginReads ==
  /\ At("recovered")
  /\ \/ ~lease.ok /\ Goes([lease EXCEPT !.faulted = TRUE], "returned") /\ UNCHANGED latched
     \/ lease.ok /\ Goes([lease EXCEPT !.culled = item[lease.target]], "read") /\ UNCHANGED latched
     \/ lease.ok /\ FailStops([lease EXCEPT !.plain = FALSE])
  /\ UNCHANGED <<item, itemRefs, machine, ticket>>

BeginObserves ==
  /\ At("read")
  /\ \E ob \in Observations :
       /\ machine' = MachineBegin(machine, ob, lease.culled)
       /\ Goes([lease EXCEPT !.plain = @ /\ Completes(ob)], "begun")
  /\ UNCHANGED <<item, itemRefs, ticket, latched>>

\* An item that is hidden already is leased without a write.
BeginRetains ==
  /\ At("begun")
  /\ CASE machine.phase = "no-write" -> Goes(lease, "active") /\ UNCHANGED <<itemRefs, latched>>
       [] machine.phase = "faulted" -> FailStops(lease) /\ UNCHANGED itemRefs
       [] machine.phase = "awaiting-set" ->
            \/ /\ itemRefs' = [itemRefs EXCEPT ![lease.target] = @ + 1]
               /\ Goes([lease EXCEPT !.retained = lease.target, !.may = TRUE], "retained")
               /\ UNCHANGED latched
            \/ /\ \E n \in 0 .. 1 : itemRefs' = [itemRefs EXCEPT ![lease.target] = @ + n]
               /\ FailStops([lease EXCEPT !.plain = FALSE])
  /\ UNCHANGED <<item, machine, ticket>>

\* A write with its verdict; a restore that is not verified is no pass failure.
WritesItem(v, next) ==
  /\ \E how \in Writes :
       /\ Written(lease.target, v, how)
       /\ Latched(how = "fault")
       /\ Goes([lease EXCEPT !.ok = how = "verified", !.culled = item'[lease.target],
                             !.plain = @ /\ how = "verified",
                             !.context = IF how = "verified" THEN @ ELSE "ordinary"], next)
  /\ UNCHANGED <<worn, itemRefs, machine, ticket, suspended>>

BeginWrites == At("retained") /\ WritesItem(TRUE, "written")

BeginRereads ==
  /\ At("written")
  /\ \E ob \in Observations :
       /\ machine' = CompleteSuppressionReadback(machine, ob, lease.culled)
       /\ Goes([lease EXCEPT !.plain = @ /\ Completes(ob)], "completed")
  /\ UNCHANGED <<item, itemRefs, ticket, latched>>

BeginCompletes ==
  /\ At("completed")
  /\ Goes(lease, IF machine.owned THEN "active" ELSE "restoring")
  /\ UNCHANGED <<item, itemRefs, machine, ticket, latched>>

\* What could not be suppressed and could not be restored either keeps a ticket.
BeginFails ==
  /\ lease.at = "restored" /\ ~lease.closing
  /\ ticket' = IF Retainable(lease) THEN Ticket(lease) ELSE ticket
  /\ FailStops([lease EXCEPT !.retained = NoItem])
  /\ UNCHANGED <<item, worn, itemRefs, machine, suspended>>

-----------------------------------------------------------------------------
(* CompleteHandRestoreAction *)

\* The first try looks at the transition before it writes, the others only after.
RestoreWrites ==
  /\ At("restoring") \/ lease.at = "again"
  /\ WritesItem(machine.prior, "rewritten")

RestoreRereads ==
  /\ At("rewritten")
  /\ \E ob \in Observations :
       /\ machine' = CompleteRestoreReadback(machine, ob, lease.culled)
       /\ Goes([lease EXCEPT !.plain = @ /\ Completes(ob)], "reread")
  /\ UNCHANGED <<item, itemRefs, ticket, latched>>

RestoreReleases ==
  /\ At("reread")
  /\ IF machine.proven
     THEN \E released \in BOOLEAN :
            /\ ItemDropped(lease.retained, released)
            /\ Goes([lease EXCEPT !.ok = released, !.may = FALSE, !.retained = NoItem,
                                  !.faulted = ~released, !.plain = @ /\ released], "restored")
            /\ Latched(~released)
     ELSE /\ Goes([lease EXCEPT !.ok = FALSE, !.tries = @ + 1],
                  IF lease.tries + 1 < Attempts THEN "again" ELSE "restored")
          /\ UNCHANGED <<itemRefs, latched>>
  /\ UNCHANGED <<item, machine, ticket>>

-----------------------------------------------------------------------------
(* CloseHandSuppression *)

\* The private pass returns, and ClassifySuppressionPrivatePassEvidence.
PassReturns ==
  /\ lease.at = "active"
  /\ \E pass \in {"normal", "failed", "native-fault"} :
       /\ pass # "native-fault" => ~latched
       /\ Goes([lease EXCEPT !.pass = pass, !.closing = TRUE, !.tries = 0,
                             !.context = IF pass = "failed" THEN "pass-failed" ELSE "ordinary"],
               "closing")
  /\ UNCHANGED <<item, worn, itemRefs, machine, ticket, suspended, latched>>

CloseReads ==
  /\ At("closing")
  /\ \E read \in BOOLEAN :
       /\ Goes([lease EXCEPT !.ok = read, !.culled = item[lease.target] /\ read,
                             !.plain = @ /\ read,
                             !.context = IF read /\ item[lease.target] THEN @ ELSE "ordinary"],
               "closeread")
       /\ Latched(~read)
  /\ UNCHANGED <<item, itemRefs, machine, ticket>>

\* CanCleanupSynchronousSubtreeReplacement, of a healthy observer.
SubtreeReplaced(ob) ==
  /\ lease.pass = "normal" /\ Completes(ob) /\ lease.clone = "replaced"
  /\ lease.ok /\ lease.culled
  /\ machine.owned /\ machine.first = "none" /\ lease.may /\ lease.retained # NoItem

CloseObserves ==
  /\ At("closeread")
  /\ \E ob \in {[o EXCEPT !.status = IF lease.ok THEN @ ELSE "unread"] : o \in Observations},
        healthy \in BOOLEAN :
       LET l == [lease EXCEPT !.plain = @ /\ healthy /\ Completes(ob)]
       IN IF healthy /\ SubtreeReplaced(ob)
          THEN CloseForLifecycleTransition(l) /\ UNCHANGED machine
          ELSE /\ machine' = MachineClose(machine, ob, lease.culled, lease.pass = "normal")
               /\ Goes(l, "closed")
               /\ UNCHANGED <<item, itemRefs, ticket, latched>>

CloseRestores ==
  /\ At("closed")
  /\ Goes([lease EXCEPT !.ok = FALSE],
          CASE machine.phase = "closed" -> "returned"
            [] machine.phase = "faulted" -> "settling"
            [] OTHER -> "restoring")
  /\ UNCHANGED <<item, itemRefs, machine, ticket, latched>>

\* CompleteCleanPrivatePassLifecycleAfterRestore.
CleanLifecycle ==
  /\ lease.context = "pass-failed" /\ suspended /\ ~lease.faulted
  /\ lease.ok /\ machine.proven /\ machine.first = "abnormal"
  /\ ~lease.may /\ lease.retained = NoItem

CloseSettles ==
  /\ lease.at = "restored" /\ lease.closing
  /\ IF CleanLifecycle THEN Returns(lease) ELSE Goes(lease, "settling")
  /\ UNCHANGED <<item, worn, itemRefs, machine, ticket, suspended, latched>>

\* A close that is not proven leaves its ticket to the fence.
CloseEnds ==
  /\ At("settling")
  /\ IF lease.ok /\ machine.proven
     THEN Goes(lease, IF machine.first = "none" THEN "returned" ELSE "judging")
          /\ UNCHANGED <<ticket, latched>>
     ELSE IF Retainable(lease)
     THEN ticket' = Ticket(lease) /\ Returns([lease EXCEPT !.retained = NoItem]) /\ UNCHANGED latched
     ELSE FailStops(lease) /\ UNCHANGED ticket
  /\ UNCHANGED <<item, itemRefs, machine>>

\* A failure is judged once more: the transition may have come by now.
CloseJudges ==
  /\ lease.at = "judging"
  /\ IF CleanLifecycle THEN Returns(lease) /\ UNCHANGED latched ELSE FailStops(lease)
  /\ UNCHANGED <<item, worn, itemRefs, machine, ticket, suspended>>

\* The capture looks at what the adapter and the pass have left.
NativeFault ==
  \/ latched
  \/ ~lease.cleanupOnly /\ (lease.faulted \/ machine.first # "none" \/ lease.may)
  \/ ~lease.cleanupOnly /\ lease.pass \notin {"none", "normal"}

CaptureEnds ==
  /\ lease.at = "returned"
  /\ latched' = NativeFault
  /\ lease' = NoLease /\ machine' = NewMachine
  /\ UNCHANGED <<item, worn, itemRefs, ticket, suspended>>

-----------------------------------------------------------------------------
(* The game, the fence and a load *)

\* A menu, an equip or a load is seen; the clone of a capture is replaced.
MenuOpens == ~suspended /\ suspended' = TRUE
             /\ UNCHANGED <<item, worn, itemRefs, machine, lease, ticket, latched>>
CloneChanges ==
  /\ lease.at # "none" /\ lease.clone = "current"
  /\ \E c \in {"stale", "replaced"} : lease' = [lease EXCEPT !.clone = c]
  /\ UNCHANGED <<item, worn, itemRefs, machine, ticket, suspended, latched>>

\* Between captures the game hides and shows its items.  (What it does to an
\* item whose ticket is pending is not followed.)
GameSetsItem ==
  /\ lease.at = "none"
  /\ \E i \in Items \ {ticket.item}, v \in BOOLEAN :
       item' = [item EXCEPT ![i] = v] /\ worn' = [worn EXCEPT ![i] = v]
  /\ UNCHANGED <<itemRefs, machine, lease, ticket, suspended, latched>>

\* Mutant: a fault ends the recovery as it ends the captures.
FenceRecoversUnlatched ==
  /\ lease.at = "none" /\ ticket # NoTicket /\ ~latched
  /\ \E ok \in BOOLEAN : TryRecover(ok)
  /\ UNCHANGED <<worn, machine, lease, suspended>>

\* The scene fence recovers a ticket, after a fault too.
FenceRecovers ==
  /\ lease.at = "none" /\ ticket # NoTicket
  /\ \E ok \in BOOLEAN : TryRecover(ok)
  /\ UNCHANGED <<worn, machine, lease, suspended>>

\* ReserveHandAtFence, once the menu is closed.
FenceReserves ==
  /\ lease.at = "none" /\ suspended
  /\ suspended' = FALSE
  /\ UNCHANGED <<item, worn, itemRefs, machine, lease, ticket, latched>>

\* OnGameLoaded: on the render thread a recovery, on another none.
LoadRecoversItem ==
  /\ lease.at = "none" /\ ticket # NoTicket
  /\ \/ \E ok \in BOOLEAN : TryRecover(ok) /\ ticket' = NoTicket
     \/ \E how \in {"none", "unverified", "fault"} :
          /\ IF how = "none" THEN UNCHANGED item ELSE Written(ticket.item, ticket.prior, how)
          /\ latched' = TRUE
          /\ UNCHANGED <<itemRefs, ticket>>
  /\ UNCHANGED <<worn, machine, lease, suspended>>

ItemNext ==
  \/ BeginStarts \/ BeginRefused \/ BeginRecovers \/ BeginReads \/ BeginObserves
  \/ BeginRetains \/ BeginWrites \/ BeginRereads \/ BeginCompletes \/ BeginFails
  \/ RestoreWrites \/ RestoreRereads \/ RestoreReleases
  \/ PassReturns \/ CloseReads \/ CloseObserves \/ CloseRestores \/ CloseSettles \/ CloseEnds
  \/ CloseJudges \/ TransitionSeen \/ CaptureEnds
  \/ MenuOpens \/ CloneChanges \/ GameSetsItem
  \/ FenceRecovers \/ FenceReserves \/ LoadRecoversItem

-----------------------------------------------------------------------------
\* The mirror item never stays hidden unowned: where an item differs from what
\* the game put there, a capture that holds it, or the ticket, has that value
\* and a reference to write it with.
ItemHasOwner ==
  /\ \A i \in Items :
       item[i] # worn[i] =>
         \/ lease.retained = i /\ lease.may /\ machine.prior = worn[i]
         \/ ticket = [item |-> i, prior |-> worn[i]]
  /\ \A i \in {lease.retained, ticket.item} \ {NoItem} : itemRefs[i] >= 1
  /\ lease.retained # NoItem => ticket = NoTicket

\* A capture that is not discarded has put back what it hid: whatever was seen
\* while it ran, nothing of it is left when its image may be published.
PublishedIsClean ==
  lease.at = "returned" /\ lease.pass = "normal" /\ ~lease.cleanupOnly /\ ~NativeFault =>
    /\ item = worn /\ ticket = NoTicket
    /\ lease.retained = NoItem /\ \A i \in Items : itemRefs[i] = 0

\* While a capture holds the item hidden, nothing that is seen costs the player
\* the mirror: of the captures whose every call worked, one faults only if the
\* equipped clone had changed before its hiding was verified (or it hid nothing,
\* the item being hidden already), or if the transition became visible after the
\* item had been put back.
HidingSurvivesInventory ==
  lease.at = "returned" /\ lease.plain /\ lease.pass \in {"none", "normal"} /\ NativeFault =>
    \/ ~machine.owned /\ lease.clone # "current"
    \/ machine.proven /\ suspended

\* What HandMirrorReflectionRuntime.h:41 ("Suspend cleanly across InventoryMenu
\* and resume after its first clean fence") and the comment in
\* CloseHandSuppression ("Close cleanup-only instead of fault-stopping") say: a
\* menu alone, opened at any moment of a capture whose every call worked and
\* whose clone stayed, ends that capture and not the mirror.
InventorySuspendsCleanly ==
  lease.at = "returned" /\ lease.plain /\ lease.pass = "normal" /\ lease.clone = "current" =>
    ~NativeFault

\* An item left to the fence is restored, after a fault that ends all captures
\* too.
TicketRestored == ticket # NoTicket ~> ticket = NoTicket
=============================================================================
