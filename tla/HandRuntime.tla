---------------------------- MODULE HandRuntime ----------------------------
(***************************************************************************)
(* The runtime of the equipped mirror                                      *)
(* (src/src/HandMirrorReflectionRuntime.cpp) on top of its store, with the *)
(* calls SecondView.cpp makes into it.  Per main-world source the fence    *)
(* evaluates who owns the mirror, reserves a capture or gives the lease    *)
(* up; after the world the capture runs and is finalised; first-person     *)
(* calls stage the pane they drew and, when they return, draw the picture  *)
(* on it.  A first-person call may enclose the fence of the next source.   *)
(*                                                                         *)
(* Two holds keep a picture whose source has passed: the ordering hold     *)
(* (expiry 0), until the enclosing first-person call returns, and, where   *)
(* the option is on, the clean-miss hold, source by source while each      *)
(* first-person return revalidates it, for at most MaxMiss sources.        *)
(*                                                                         *)
(* Menu and equip events and the start of a load change the lifecycle      *)
(* flags between any two steps.  The end of a load is a message of the     *)
(* main thread, which draws too, so it falls in no first-person call.  A   *)
(* fault is for the rest of the process: nothing is modelled after it.     *)
(* native tells a fault the engine caused from one of the runtime's own.   *)
(* Not modelled: walls that compete for the channel, and the detached      *)
(* last-good copy, except that replaying it may revalidate a hold.         *)
(***************************************************************************)
EXTENDS HandPublication, FiniteSets

CONSTANTS MaxMiss,         \* kMaximumConsecutiveCleanMissSources
          MaxSource,       \* bound on main-world sources
          MaxEvents,       \* bound on menu, equip, load and resize events, and mishaps
          ResizeWhileHeld  \* may the targets be re-created under a hold

ASSUME HandConstants == MaxMiss \in Nat \ {0}

VARIABLES h,        \* RuntimeState and the lifecycle flags, store and coordinator
          fp,       \* FirstPersonTLS and where the engine is in the call
          frame,    \* where the engine is in the source: see Frames
          source,   \* MirrorSourceEpoch's source sequence
          engine,   \* the private targets, what they hold, and who is equipped
          shown,    \* the picture an outer draw used last, when and for whom
          native,   \* did the engine fault
          events    \* events and mishaps so far

vars == <<h, fp, frame, source, engine, shown, native, events>>

\* idle: CurrentMainWorldSourceSequence is 0; selected: inside RunSecondView;
\* fenced: the world is drawn; captured: the capture awaits its finalisation.
Frames == {"idle", "selected", "fenced", "captured", "between"}
NoSurface == [source |-> 0, owner |-> 0]
OutsideCall == [call |-> "none", active |-> FALSE, returned |-> FALSE, suppressed |-> FALSE,
                counted |-> FALSE, staged |-> NoSurface, entry |-> 0, fenced |-> FALSE]

InitialRuntime(continuity) ==
  [store |-> EmptyStore, coordinator |-> EmptyCoordinator,
   targets |-> [r \in Roles |-> 0], ready |-> FALSE, pending |-> 0, grant |-> 0,
   current |-> None, held |-> NoReceipt, expiry |-> 0, validated |-> 0,
   presented |-> 0, slots |-> [r \in Roles |-> None], cursor |-> 1, load |-> 1,
   visible |-> 0, resumeFence |-> 0,
   enabled |-> TRUE, faulted |-> FALSE, loading |-> FALSE, menu |-> FALSE,
   inventory |-> FALSE, resume |-> FALSE, equip |-> FALSE, continuity |-> continuity]

IsEnabled(x) == x.enabled /\ ~x.loading /\ ~x.faulted
Suspended(x) == x.loading \/ x.menu \/ x.inventory \/ x.equip
CleanMissEffective(x) == x.continuity /\ x.enabled /\ ~x.faulted

\* FailStopInternal: quarantine and scrub, for the rest of the process.
FailStop(x) ==
  [InitialRuntime(x.continuity) EXCEPT
     !.store = Quarantine(x.store), !.coordinator = QuarantineCoordinator,
     !.cursor = 0, !.load = 0, !.enabled = FALSE, !.faulted = TRUE]

\* The helpers return whether they succeeded and what they left.
Ok(x) == [ok |-> TRUE, h |-> x]
Failed(x) == [ok |-> FALSE, h |-> x]
Then(r, Next(_)) == IF r.ok THEN Next(r.h) ELSE r
OrFailStop(r) == IF r.ok THEN r.h ELSE FailStop(r.h)

-----------------------------------------------------------------------------
(* Releases and leases *)

\* IsHandPrivateTargetUnbound: only a target that still exists can be proved so.
Unbound(p, targets) == \E r \in Roles : targets[r] = p.target

HeldSourceAdvancedPredecessorValid(x) ==
  /\ x.ready /\ x.held.cause = "sourceAdvanced"
  /\ x.slots[x.held.retired.role] = x.held.retired

\* Mutant: the strict policy even under a hold.
BurnStrictly(x, lease) ==
  IF lease # x.cursor + 1 \/ (x.ready /\ ~CanBurnUnusedOwnerLease(x.store, lease, FALSE))
  THEN Failed(x)
  ELSE Ok([x EXCEPT !.cursor = lease,
                    !.store = IF x.ready THEN BurnUnusedOwnerLease(@) ELSE @])

BurnUnusedOwnerGrant(x, lease) ==
  IF \/ lease # x.cursor + 1
     \/ x.ready /\ ~CanBurnUnusedOwnerLease(x.store, lease,
                       HeldSourceAdvancedPredecessorValid(x))
  THEN Failed(x)
  ELSE Ok([x EXCEPT !.cursor = lease,
                    !.store = IF x.ready THEN BurnUnusedOwnerLease(@) ELSE @])

ClearNativeRole(x, role) ==
  LET own == x.current # None /\ x.current.role = role
  IN [x EXCEPT !.slots = [@ EXCEPT ![role] = None],
               !.current = IF own THEN None ELSE @,
               !.presented = IF own THEN 0 ELSE @]

ReleaseRetirement(x, receipt, targets) ==
  IF receipt = NoReceipt THEN Ok(x)
  ELSE IF ~Unbound(receipt.retired, targets) THEN Failed(x)
  ELSE IF ~CanReleaseRetired(x.store, receipt)
       THEN Failed([x EXCEPT !.store = Quarantine(@)])
  ELSE Ok(ClearNativeRole([x EXCEPT !.store = ReleaseRetired(@)], receipt.retired.role))

\* The hold is forgotten before it is known whether its target can be released.
ReleaseHeldPredecessor(x, targets) ==
  ReleaseRetirement([x EXCEPT !.held = NoReceipt, !.expiry = 0, !.validated = 0],
                    x.held, targets)

-----------------------------------------------------------------------------
(* Which picture fits a surface *)

CleanMissContinuityHoldValid(x) ==
  /\ CleanMissEffective(x) /\ x.expiry # 0 /\ HeldSourceAdvancedPredecessorValid(x)
  /\ x.expiry > x.held.retired.source /\ x.expiry - x.held.retired.source <= MaxMiss

PublicationMatchesVisibleSurface(p, surface) ==
  p # None /\ p.source = surface.source /\ p.owner = surface.owner

\* Mutant: the held picture goes on whatever is equipped now.
MatchesAnyOwner(x, surface) ==
  CleanMissContinuityHoldValid(x) /\ surface.source = x.expiry

CleanMissContinuityMatches(x, surface) ==
  /\ CleanMissContinuityHoldValid(x)
  /\ surface.source = x.expiry /\ surface.owner = x.held.retired.owner

HeldPredecessorMatchesStaged(x, surface) ==
  /\ x.held.cause = "sourceAdvanced"
  /\ PublicationMatchesVisibleSurface(x.held.retired, surface)
  /\ x.slots[x.held.retired.role] = x.held.retired

DeliveryPublicationForSurface(x, surface) ==
  IF PublicationMatchesVisibleSurface(x.current, surface) THEN x.current
  ELSE IF \/ PublicationMatchesVisibleSurface(x.held.retired, surface)
          \/ CleanMissContinuityMatches(x, surface)
       THEN x.held.retired
  ELSE None

\* Without a pane callback an ordering predecessor is not drawn.
ZeroCallbackDeliveryPublication(x, surface) ==
  IF PublicationMatchesVisibleSurface(x.current, surface) THEN x.current
  ELSE IF CleanMissContinuityMatches(x, surface) THEN x.held.retired
  ELSE None

\* FinalFirstPersonDeliveryPending, with ExactSuccessorDeliveryPending.
FinalFirstPersonDeliveryPending ==
  \/ ~fp.active
  \/ /\ ~fp.returned
     /\ \/ ~fp.counted /\ fp.staged = NoSurface
        \/ fp.counted /\ fp.staged.source = source
        \/ /\ fp.counted /\ HeldPredecessorMatchesStaged(h, fp.staged)
           /\ fp.staged.source + 1 = source

-----------------------------------------------------------------------------
(* AdvanceStoreSource *)

CanExtendConsecutiveCleanMiss(x, next) ==
  /\ x.validated = x.expiry /\ next = x.expiry + 1
  /\ next - x.held.retired.source <= MaxMiss

CanHold(x, receipt, targets) ==
  /\ x.held = NoReceipt /\ receipt # NoReceipt
  /\ receipt.retired = x.current /\ Unbound(receipt.retired, targets)
  /\ x.slots[receipt.retired.role] = receipt.retired

CanHoldCleanMissContinuityPredecessor(x, next, receipt, targets) ==
  /\ CleanMissEffective(x) /\ CanHold(x, receipt, targets)
  /\ receipt.retired.lease = x.presented
  /\ receipt.retired.owner = x.visible /\ receipt.retired.source + 1 = next

CanHoldSourceAdvancedPredecessor(x, next, receipt, targets) ==
  /\ fp.active /\ ~fp.returned /\ CanHold(x, receipt, targets)
  /\ PublicationMatchesVisibleSurface(receipt.retired, fp.staged)
  /\ fp.staged.source + 1 = next

Hold(x, receipt, expiry) ==
  [x EXCEPT !.held = receipt, !.expiry = expiry, !.validated = 0,
            !.current = None, !.presented = 0]

\* A reservation that was never resolved is cancelled and its lease burned.
CancelAbandoned(x) ==
  IF x.pending # 0
  THEN IF ~CanCancel(x.coordinator, x.pending) THEN Failed(x)
       ELSE BurnUnusedOwnerGrant(
              [x EXCEPT !.coordinator = CancelFenceReservation(@),
                        !.pending = 0, !.grant = 0], x.grant)
  ELSE IF x.coordinator.pending # 0 \/ x.grant # 0 THEN Failed(x) ELSE Ok(x)

AdvanceTo(x, next, extend, targets) ==
  LET receipt == Receipt(x.store.current, "sourceAdvanced")
      advanced == [x EXCEPT !.store = OnSourceAdvanced(@, next)]
  IN IF ~CanForceInvalidate(x.store) \/ next <= x.store.source THEN Failed(x)
     ELSE IF extend
     THEN IF receipt # NoReceipt THEN Failed(x)
          ELSE Ok([advanced EXCEPT !.expiry = next, !.validated = 0])
     ELSE IF CanHoldCleanMissContinuityPredecessor(advanced, next, receipt, targets)
     THEN Ok(Hold(advanced, receipt, next))
     ELSE IF CanHoldSourceAdvancedPredecessor(advanced, next, receipt, targets)
     THEN Ok(Hold(advanced, receipt, 0))
     ELSE ReleaseRetirement(advanced, receipt, targets)

AdvanceStoreSource(x, next, targets) ==
  LET holding == x.held # NoReceipt
      pinned == holding /\ (~CleanMissContinuityHoldValid(x) \/ next <= x.expiry)
      extend == holding /\ x.current = None /\ CanExtendConsecutiveCleanMiss(x, next)
  IN IF ~x.ready THEN Ok(x)
     ELSE IF ~Ready(x.store) THEN Failed(x)
     ELSE IF x.store.source = next THEN Ok(x)
     ELSE IF pinned \/ x.coordinator.ticket # None THEN Failed(x)
     ELSE Then(Then(IF holding /\ ~extend THEN ReleaseHeldPredecessor(x, targets)
                    ELSE Ok(x),
                    CancelAbandoned),
               LAMBDA y : AdvanceTo(y, next, extend, targets))

-----------------------------------------------------------------------------
(* The fence: EvaluateFenceOwner, then SecondView's use of its selection *)

FenceRuns ==
  /\ ~h.faulted /\ source < MaxSource
  /\ frame \in {"idle", "fenced", "between"}
  /\ fp.call = "none" \/ (fp.call = "inside" /\ ~fp.fenced)
  /\ source' = source + 1
  /\ fp' = [fp EXCEPT !.fenced = fp.call = "inside"]
  /\ UNCHANGED <<engine, shown, native>>

\* The inventory stays a barrier until a fence after the one that saw it close.
Barred ==
  ~IsEnabled(h) \/ h.menu \/ (h.inventory /\ ~h.resume /\ h.resumeFence = 0)

Resuming == ~Barred /\ h.inventory /\ h.resume

\* EvaluateFenceOwner returns at once, or RunSecondView before it.
FenceDeclines ==
  /\ FenceRuns /\ frame' = "fenced"
  /\ \/ Barred /\ UNCHANGED events
     \/ ~Barred /\ events < MaxEvents /\ events' = events + 1
  /\ UNCHANGED h

FenceResumesInventory ==
  /\ FenceRuns /\ frame' = "fenced"
  /\ Resuming
  /\ h' = [h EXCEPT !.resume = FALSE, !.resumeFence = source']
  /\ UNCHANGED events

\* An equip event gives the hold up, and the visible owner unless it is unchanged.
Wake(x) ==
  IF ~x.equip THEN Ok(x)
  ELSE ReleaseHeldPredecessor([x EXCEPT !.equip = FALSE], engine.physical)

EvaluateFenceOwner(next) ==
  LET seen == IF h.equip /\ h.visible # engine.equipped THEN 0 ELSE h.visible
  IN Then(Then(Wake([h EXCEPT !.inventory = FALSE, !.resumeFence = 0]),
               LAMBDA x : AdvanceStoreSource(x, next, engine.physical)),
          LAMBDA x : Ok([x EXCEPT !.visible = seen]))

FenceSelects ==
  /\ FenceRuns
  /\ ~Barred /\ ~Resuming /\ UNCHANGED events
  /\ LET decided == EvaluateFenceOwner(source')
     IN IF ~decided.ok THEN h' = FailStop(decided.h) /\ frame' = "fenced"
        ELSE \/ h' = decided.h /\ frame' = "selected"
             \/ h' = [decided.h EXCEPT !.visible = 0] /\ frame' = "fenced"

\* EnsureHandMirrorTargets re-creates the targets of another size one by one.
Recreated(roles) ==
  [engine EXCEPT
     !.made = @ + Cardinality(roles),
     !.stale = @ \ roles,
     !.physical = [r \in Roles |-> IF r \notin roles THEN @[r]
                                   ELSE engine.made + Cardinality(roles \cap 0 .. r)],
     !.content = [r \in Roles |-> IF r \in roles THEN 0 ELSE @[r]]]

MayRecreate(roles) ==
  roles # {} => h.held = NoReceipt \/ ResizeWhileHeld

Lease == h.cursor + 1

\* No hand this time, no camera, or the targets cannot be ensured.
AbandonFenceSelection ==
  /\ ~h.faulted /\ frame = "selected"
  /\ h' = OrFailStop(BurnUnusedOwnerGrant(h, Lease))
  /\ frame' = "fenced"
  /\ UNCHANGED <<fp, source, engine, shown, native, events>>

\* The second of the two targets cannot be ensured, the first is a new one.
EnsureFailsHalfway ==
  /\ ~h.faulted /\ frame = "selected" /\ engine.stale = Roles
  /\ MayRecreate({0}) /\ engine' = Recreated({0})
  /\ events < MaxEvents /\ events' = events + 1
  /\ h' = OrFailStop(BurnUnusedOwnerGrant(h, Lease))
  /\ frame' = "fenced"
  /\ UNCHANGED <<fp, source, shown, native>>

\* A batch that was interrupted reaches no entry for the hand.
DropFenceSelection ==
  /\ ~h.faulted /\ frame = "selected" /\ frame' = "fenced"
  /\ UNCHANGED <<h, fp, source, engine, shown, native, events>>

CanRetarget(x) ==
  x.coordinator.ticket = None /\ x.coordinator.pending = 0 /\ x.pending = 0 /\ x.grant = 0

\* kRetargeted; only a release that fails after Retarget is a violation.
Retargeted(x, physical) ==
  LET receipt == Receipt(x.store.current, "targetReallocated")
      next == [x EXCEPT !.store = Retarget(@, physical, x.load + 1)]
  IN IF ~CanForceInvalidate(x.store) THEN Failed(x)
     ELSE Then(ReleaseRetirement(next, receipt, physical),
               LAMBDA y : Ok([y EXCEPT !.load = @ + 1, !.targets = physical, !.current = None,
                                       !.presented = 0, !.slots = [r \in Roles |-> None]]))

Reserve(x) ==
  IF ReserveFails(x.coordinator, source) THEN FailStop(x)
  ELSE [x EXCEPT !.coordinator = ReserveAtFence(@, source, engine.equipped),
                 !.pending = source, !.grant = x.cursor + 1, !.visible = engine.equipped]

Declined(x) == OrFailStop(BurnUnusedOwnerGrant(x, Lease))

ReserveWith(r) == IF r.ok THEN Reserve(r.h) ELSE FailStop(r.h)

\* RetargetPrivateTargets and what ReserveHandAtFence makes of its outcome.
RetargetAndReserve(physical) ==
  LET released == ReleaseHeldPredecessor(h, physical)
  IN IF ~CanRetarget(h) THEN Declined(h)
     ELSE IF ~released.ok THEN Declined(released.h)
     ELSE ReserveWith(Then(Then(released, LAMBDA x : Retargeted(x, physical)),
                           LAMBDA x : AdvanceStoreSource(x, source, physical)))

InitializeAndReserve(physical) ==
  Reserve([h EXCEPT !.store = Initialize(@, physical, source, h.load, h.cursor),
                    !.coordinator.phase = "ready", !.targets = physical, !.ready = TRUE])

ReserveHandAtFence ==
  /\ ~h.faulted /\ frame = "selected"
  /\ MayRecreate(engine.stale)
  /\ engine' = Recreated(engine.stale)
  /\ LET physical == engine'.physical
     IN h' = IF ~IsEnabled(h) THEN h
             ELSE IF Suspended(h)
             THEN OrFailStop(Then(ReleaseHeldPredecessor(h, physical),
                                  LAMBDA x : BurnUnusedOwnerGrant(x, Lease)))
             ELSE IF ~h.ready THEN InitializeAndReserve(physical)
             ELSE IF h.targets # physical THEN RetargetAndReserve(physical)
             ELSE ReserveWith(AdvanceStoreSource(h, source, physical))
  /\ frame' = "fenced"
  /\ UNCHANGED <<fp, source, shown, native, events>>

-----------------------------------------------------------------------------
(* The deferred stage, after the world *)

HasPendingHandReservation(x) == IsEnabled(x) /\ x.pending = source /\ source # 0

CancelPendingHandReservation(x) ==
  IF ~CanCancel(x.coordinator, x.pending) THEN FailStop(x)
  ELSE OrFailStop(BurnUnusedOwnerGrant(
         [x EXCEPT !.coordinator = CancelFenceReservation(@), !.pending = 0, !.grant = 0],
         x.grant))

NothingDeferred ==
  /\ ~h.faulted /\ frame = "fenced" /\ frame' = "between"
  /\ ~HasPendingHandReservation(h)
  /\ UNCHANGED <<h, fp, source, engine, shown, native, events>>

\* Any rejection before or in BeginPostWorldCapture gives the reservation back.
DeferredRejects ==
  /\ ~h.faulted /\ frame = "fenced" /\ frame' = "between"
  /\ HasPendingHandReservation(h)
  /\ h' = LET cancelled == CancelPendingHandReservation(h)
          IN IF Suspended(h)
             THEN OrFailStop(ReleaseHeldPredecessor(cancelled, engine.physical))
             ELSE cancelled
  /\ UNCHANGED <<fp, source, engine, shown, native, events>>

Ticketed(x, begun, prior) ==
  LET attempt == begun.active
      ticketed == [x EXCEPT !.store = begun, !.pending = 0,
                            !.coordinator = IssueTicket(@, attempt)]
      released == ReleaseRetirement(ticketed, prior, engine.physical)
  IN IF \/ TicketFails(x.coordinator, attempt) \/ ~released.ok
        \/ attempt.lease # x.grant \/ attempt.lease # x.cursor + 1
     THEN FailStop(x)
     ELSE [released.h EXCEPT !.grant = 0, !.cursor = attempt.lease]

\* The role is drawn into while the ticket is open, whatever comes of it.
BeginPostWorldCapture ==
  /\ ~h.faulted /\ frame = "fenced" /\ frame' = "captured"
  /\ HasPendingHandReservation(h) /\ ~Suspended(h)
  /\ FinalFirstPersonDeliveryPending /\ engine.equipped = h.coordinator.owner
  /\ IF BeginFails(h.store) THEN h' = FailStop(h) /\ UNCHANGED engine
     ELSE LET begun == Begin(h.store, h.coordinator.owner)
              prior == IF h.store.current = None THEN NoReceipt ELSE begun.retired
          IN /\ h' = Ticketed(h, begun, prior)
             /\ engine' = [engine EXCEPT !.content[begun.active.role] = source]
  /\ UNCHANGED <<fp, source, shown, native, events>>

Aborted(x) ==
  IF x.coordinator.ticket = None \/ x.coordinator.ticket # x.store.active THEN FailStop(x)
  ELSE [x EXCEPT !.store = Abort(@), !.coordinator = CloseTicket(@)]

\* A native failure under the borrow faults, anything else is for one source.
FinalizeAborts(fault) ==
  /\ ~h.faulted /\ frame = "captured" /\ frame' = "between"
  /\ h' = IF fault THEN FailStop(Aborted(h)) ELSE Aborted(h)
  /\ native' = fault
  /\ UNCHANGED <<fp, source, engine, shown, events>>

Published(x) ==
  LET p == x.store.active
  IN IF ~FinalFirstPersonDeliveryPending \/ x.coordinator.ticket # p \/ ~Coherent(x.store)
     THEN FailStop(x)
     ELSE [x EXCEPT !.store = Complete(@), !.coordinator = CloseTicket(@),
                    !.slots[p.role] = p, !.current = p, !.presented = 0]

CompletePostWorldCapture ==
  /\ ~h.faulted /\ frame = "captured" /\ frame' = "between"
  /\ ~Suspended(h)
  /\ h' = IF IsEnabled(h) THEN Published(h) ELSE FailStop(Aborted(h))
  /\ UNCHANGED <<fp, source, engine, shown, native, events>>

-----------------------------------------------------------------------------
(* First-person calls *)

\* The render thread is in no other call into the runtime.
Drawing(call) ==
  ~h.faulted /\ frame \notin {"selected", "captured"} /\ fp.call = call

OnFirstPersonEnter ==
  /\ Drawing("none")
  /\ LET entered == [OutsideCall EXCEPT !.call = "inside"]
     IN \/ /\ ~IsEnabled(h)
           /\ fp' = entered /\ UNCHANGED h
        \/ /\ IsEnabled(h) /\ Suspended(h)
           /\ h' = OrFailStop(ReleaseHeldPredecessor(h, engine.physical))
           /\ fp' = [entered EXCEPT !.suppressed = TRUE]
        \/ /\ IsEnabled(h) /\ ~Suspended(h)
           /\ fp' = [entered EXCEPT !.active = TRUE,
                                    !.entry = IF frame = "idle" THEN 0 ELSE source]
           /\ UNCHANGED h
  /\ UNCHANGED <<frame, source, engine, shown, native, events>>

\* The pane is drawn before the fence of the next source, if that is in the call.
OnGenericDrawReturnedNormally ==
  /\ Drawing("inside") /\ frame # "idle"
  /\ IsEnabled(h) /\ ~Suspended(h) /\ fp.active /\ ~fp.fenced
  /\ \E surface \in {fp.staged, [source |-> source, owner |-> engine.equipped]} :
       fp' = [fp EXCEPT !.counted = TRUE, !.staged = surface]
  /\ UNCHANGED <<h, frame, source, engine, shown, native, events>>

\* The pane surface at the return: staged, or found without a callback.
Surfaces ==
  {fp.staged} \cup
  {s \in {[source |-> source, owner |-> engine.equipped]} :
     ~fp.counted /\ fp.staged = NoSurface /\ fp.entry = source /\ source # 0}

DeliveryPublication(surface) ==
  IF surface = NoSurface THEN None
  ELSE IF fp.counted THEN DeliveryPublicationForSurface(h, surface)
  ELSE ZeroCallbackDeliveryPublication(h, surface)

\* The replayed last-good copy is the held picture, on the equipped object.
CanReplayHeld ==
  CleanMissContinuityHoldValid(h) /\ h.held.retired.owner = engine.equipped

TryPromote(x, surface, drew) ==
  /\ CleanMissEffective(x) /\ drew = x.held.retired /\ x.current = None
  /\ x.store.current = None /\ x.store.active = None /\ x.store.retired # NoReceipt
  /\ surface.source + 1 = x.store.source

ResolveHeld(x, surface, drew, replayed) ==
  IF x.held = NoReceipt THEN Ok(x)
  ELSE IF x.expiry = 0 /\ ~HeldPredecessorMatchesStaged(x, surface) THEN Failed(x)
  ELSE IF x.expiry = 0 /\ TryPromote(x, surface, drew)
  THEN Ok([x EXCEPT !.expiry = x.store.source, !.validated = 0])
  ELSE IF /\ x.expiry # 0 /\ x.current = None
          /\ replayed \/ CleanMissContinuityMatches(x, surface)
  THEN Ok([x EXCEPT !.validated = x.expiry])
  ELSE ReleaseHeldPredecessor(x, engine.physical)

\* Presented, kept as the exact successor of what was staged, or retired dark.
ResolveCurrent(x, surface, drew) ==
  IF x.current = None THEN Ok(x)
  ELSE IF CleanMissEffective(x) /\ drew = x.current
  THEN Ok([x EXCEPT !.presented = x.current.lease])
  ELSE IF surface # NoSurface /\ surface.source + 1 = x.current.source THEN Ok(x)
  ELSE IF ~CanRetireDark(x.store, x.current.source) THEN Failed(x)
  ELSE ReleaseRetirement([x EXCEPT !.store = RetireDark(@)],
                         RetireDark(x.store).retired, engine.physical)

Presents(surface, drew, replayed) ==
  /\ h' = OrFailStop(Then(ResolveHeld(h, surface, drew, replayed),
                          LAMBDA x : ResolveCurrent(x, surface, drew)))
  /\ shown' = IF drew = None THEN shown
              ELSE [picture |-> drew, at |-> surface.source, owner |-> surface.owner]
  /\ fp' = [fp EXCEPT !.call = "returned", !.returned = TRUE]

OnFirstPersonReturnedNormally ==
  /\ Drawing("inside")
  /\ \/ /\ ~IsEnabled(h)
        /\ fp' = [fp EXCEPT !.call = "returned"]
        /\ UNCHANGED <<h, shown>>
     \/ /\ IsEnabled(h) /\ (fp.suppressed \/ Suspended(h))
        /\ h' = OrFailStop(ReleaseHeldPredecessor(h, engine.physical))
        /\ fp' = [fp EXCEPT !.call = "returned", !.staged = NoSurface, !.returned = TRUE]
        /\ UNCHANGED shown
     \/ /\ IsEnabled(h) /\ ~fp.suppressed /\ ~Suspended(h)
        /\ IF ~fp.active THEN h' = FailStop(h) /\ UNCHANGED <<fp, shown>>
           ELSE \E surface \in Surfaces :
                \E drew \in {None, DeliveryPublication(surface)} :
                \E replayed \in {FALSE, drew = None /\ CanReplayHeld} :
                  Presents(surface, drew, replayed)
  /\ UNCHANGED <<frame, source, engine, native, events>>

\* The guarded end of the call; an unwind may reach it from inside.
OnFirstPersonFinally ==
  /\ Drawing("inside") \/ Drawing("returned")
  /\ fp' = OutsideCall
  /\ LET abnormal == fp.active /\ ~fp.returned /\ IsEnabled(h) /\ ~Suspended(h)
     IN /\ h' = IF abnormal THEN FailStop(h)
                ELSE IF IsEnabled(h) /\ Suspended(h)
                THEN OrFailStop(ReleaseHeldPredecessor(h, engine.physical))
                ELSE h
        /\ native' = (abnormal /\ fp.call = "inside")
  /\ UNCHANGED <<frame, source, engine, shown, events>>

-----------------------------------------------------------------------------
(* Events *)

Happens ==
  /\ ~h.faulted /\ events < MaxEvents /\ events' = events + 1
  /\ UNCHANGED <<source, shown, native>>

OnInventoryMenuOpenChanged ==
  /\ Happens
  /\ h' = IF h.menu THEN [h EXCEPT !.menu = FALSE, !.inventory = TRUE, !.resume = TRUE]
          ELSE [h EXCEPT !.menu = TRUE, !.inventory = TRUE, !.resume = FALSE]
  /\ UNCHANGED <<fp, frame, engine>>

\* The event comes for other equipment too.
OnPlayerEquipWake ==
  /\ Happens
  /\ h' = [h EXCEPT !.equip = TRUE]
  /\ UNCHANGED <<fp, frame, engine>>

PlayerEquips ==
  /\ Happens
  /\ \E owner \in Owners \ {engine.equipped} : engine' = [engine EXCEPT !.equipped = owner]
  /\ UNCHANGED <<h, fp, frame>>

\* Another resolution or quality level: both targets have the wrong size.
PlayerResizes ==
  /\ Happens
  /\ engine.made # 0 /\ engine' = [engine EXCEPT !.stale = Roles]
  /\ UNCHANGED <<h, fp, frame>>

OnPreLoadGame ==
  /\ Happens
  /\ h' = [h EXCEPT !.loading = TRUE, !.enabled = FALSE]
  /\ frame' = IF frame \in {"selected", "captured"} THEN frame ELSE "idle"
  /\ UNCHANGED <<fp, engine>>

\* What OnGameLoaded forgets, once the store has retired its current picture.
LoadInvalidated(x) ==
  LET receipt == Receipt(x.store.current, "loadInvalidated")
  IN IF ~CanForceInvalidate(x.store) THEN Failed(x)
     ELSE Then(ReleaseRetirement([x EXCEPT !.store = OnLoadInvalidated(@, x.load + 1)],
                                 receipt, engine.physical),
               LAMBDA y : Ok([y EXCEPT !.slots = [r \in Roles |-> None]]))

ReadyToLoad(x) ==
  IF ~x.ready THEN Ok(x)
  ELSE IF ~Ready(x.store) \/ x.coordinator.ticket # None THEN Failed(x)
  ELSE Then(Then(CancelAbandoned(x),
                 LAMBDA y : ReleaseHeldPredecessor(y, engine.physical)),
            LoadInvalidated)

Reloaded(x) ==
  [x EXCEPT !.load = @ + 1, !.current = None, !.presented = 0, !.visible = 0,
            !.resumeFence = 0, !.menu = FALSE, !.inventory = FALSE, !.resume = FALSE,
            !.equip = FALSE, !.enabled = TRUE, !.loading = FALSE]

\* A capture that still awaits its finalisation is aborted first.
OnGameLoaded ==
  /\ ~h.faulted /\ h.loading /\ frame # "selected" /\ fp.call = "none"
  /\ LET r == ReadyToLoad(IF frame = "captured" THEN Aborted(h) ELSE h)
     IN h' = IF r.ok THEN Reloaded(r.h) ELSE FailStop(r.h)
  /\ frame' = "idle"
  /\ UNCHANGED <<fp, source, engine, shown, native, events>>

-----------------------------------------------------------------------------
Init ==
  /\ \E continuity \in BOOLEAN : h = InitialRuntime(continuity)
  /\ fp = OutsideCall /\ frame = "idle" /\ source = 0
  /\ \E owner \in Owners :
       engine = [physical |-> [r \in Roles |-> 0], made |-> 0, stale |-> Roles,
                 content |-> [r \in Roles |-> 0], equipped |-> owner]
  /\ shown = [picture |-> None, at |-> 0, owner |-> 0]
  /\ native = FALSE /\ events = 0

Next ==
  \/ FenceDeclines \/ FenceResumesInventory \/ FenceSelects
  \/ AbandonFenceSelection \/ EnsureFailsHalfway \/ DropFenceSelection \/ ReserveHandAtFence
  \/ NothingDeferred \/ DeferredRejects \/ BeginPostWorldCapture
  \/ \E fault \in BOOLEAN : FinalizeAborts(fault)
  \/ CompletePostWorldCapture
  \/ OnFirstPersonEnter \/ OnGenericDrawReturnedNormally
  \/ OnFirstPersonReturnedNormally \/ OnFirstPersonFinally
  \/ OnInventoryMenuOpenChanged \/ OnPlayerEquipWake \/ PlayerEquips \/ PlayerResizes
  \/ OnPreLoadGame \/ OnGameLoaded

Spec == Init /\ [][Next]_vars

-----------------------------------------------------------------------------
(* What the runtime keeps *)

\* A picture the runtime may still draw, current or held, is in the target it
\* was captured into, of this load and of the allocation that exists, and no
\* later capture has drawn over it.
DrawsOwnCapture ==
  \A p \in {h.current, h.held.retired} \ {None} :
    /\ h.slots[p.role] = p /\ p.load = h.load
    /\ engine.physical[p.role] = p.target /\ engine.content[p.role] = p.source

\* No order of fences, captures, first-person calls and events makes the
\* runtime fault by itself, which would end the mirror for the session: runtime
\* and store agree on what is current, held and leased whenever one asks the other.
NoSelfFault == h.faulted => native

\* What the pane shows was captured for the object it shows it on, and at most
\* MaxMiss sources before; and a picture held over from an earlier source is one
\* the pane has shown last, never a capture that was not presented.
ShownFresh ==
  /\ shown.picture # None =>
       /\ shown.at - shown.picture.source \in 0 .. MaxMiss
       /\ shown.owner = shown.picture.owner
  /\ h.expiry # 0 => h.held.retired = shown.picture

\* A changed size of the targets never faults: it is adopted or waited for.
ReallocationNeverFaults ==
  [][ engine'.physical # engine.physical /\ ~h.faulted => ~h'.faulted ]_vars
=============================================================================
