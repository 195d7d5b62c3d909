# Realistic Reflections: verification project

TLA+ models of the parts of the Realistic Reflections plugin that decide
*whether*, *for whom* and *into which texture* a mirror is rendered, and who may
show the result. The plugin draws a second view of the game's scene for every
standing mirror in sight and for a hand mirror, inside the engine's own frame,
while game events arrive on other threads. Paths below are relative to the
repository root, which this project sees as `src/`: `src/src/X.cpp` is the
repository's `src/X.cpp`.

Contents: [the system](#the-system) · [modules](#modules) ·
[runs](#what-the-runs-check) · [fairness](#fairness) · [proofs](#what-is-proved) ·
[disagreements](#where-the-code-and-its-words-disagree) ·
[what is not modelled](#what-is-not-modelled) · [plan](#plan)

Reproducing a result: `tlc -config <cfg> <module>` for a run (both are in the table of runs),
`tlapm <module>.tla` for a proof module.

## The system

One frame, seen from the reflections, runs through these parts:

```
 SKSE messages, cell events          game events on other threads
        |                                      |
   [activation] --on--> modules          [recognition] candidates
                                               |
 scene-list fence:  [fleet, refresh clock] -> [scheduler] slots, plan
                                               |  tickets
 deferred / exact-main stage:  [admission] -> [capture pipeline]
        (leases on engine state around it)     |  targets: scratch, retained, pool
                                          [publication store]
                                               |  snapshots, keys, receipts
                                          [pane delivery], successors
```

### Inventory

For each component: its state, its operations, how it meets the others, what is
hard, and what makes it correct. Names in brackets are the modules.

**Frame publication store** (`MirrorFramePublication.{h,cpp}`)
[FramePublication]. State: the slots' published frames, an index by mirror form
and one by texture, the one live attempt, two publication sequences, a
saturation flag, the multi-mirror switch; all under one reader-writer lock. Operations:
begin, cancel and complete an attempt; invalidate all, one slot, one form, one
exact frame; retire a frame for a successor; snapshots. The capture pipeline
produces; pane delivery consumes; the game's events revoke. Hard: producers and
revocations on different threads, keys that consumers copied and use later,
allocation failing half way through a publication, sequences at their limit.
Correct when the indices are exactly the visible frames, two slots never show
one mirror or one texture, only the holder of the live attempt publishes, a
revocation by key removes that frame and nothing else, and a receipt is kept.

**Activation** (`MirrorActivation.{h,cpp}`, `MirrorsOfSkyrimPlugin.cpp`)
[Activation]. State: the lifecycle's stage with the prepared and the committed
state, flags for the game-loaded message and the queued fallback. Operations:
prepare, commit, the handlers of the SKSE messages, the retry from cell events,
the fallback task. Hard: an attempt is several locked calls, so cell events
interleave with it; the data may not be ready; the game-loaded message may never
come. Correct when the product is switched on only while active, a conflict is
final, and a deferred activation ends.

**Lease registry** (`LeaseRegistry.{h,cpp}`) [LeaseRegistry]. State: a map from
lease name to family, maturity and the armed flag. Operations: arm, reset.
Every change of engine state arms here first. Correct when a failure can be
attributed: at most one unproven lease per family, and whoever was told "armed"
is armed with what it registered.

**Standing-mirror scheduler** (`MultiMirrorPolicy.h`) [MirrorScheduler]. State:
slots, demand, the round-robin position, the last source. Operations: reconcile
with the ranked visible mirrors, set demand, plan one or all captures. The fence
drives it; slots name publication slots, targets and gates. Hard: mirrors come
and go, reload in a new generation, and memory runs out between two of its
calls. Correct when a mirror that stays keeps its slot, no stale generation
holds one, a plan covers the demand once, and nobody is starved.

**Capture admission** (`MirrorCaptureAdmission.h`, `MirrorFleetPolicy.h`)
[CaptureAdmission]. State: one warm-up gate per *slot*, one sample serial per
*mirror*, the fleet's entries. Operations: evaluate at the fence and again in
the deferred pass, revalidate before rendering, reset on every path that has no
safe sample. Hard: three evaluations of one source must count once, sources may
pass without a sample, gates and serials live in lists that change separately,
and the player's body is rebuilt in between. Correct when an open gate was
earned by the mirror and body it is used for, and does not close for nothing.

**Refresh cadence** (`MirrorFleetPolicy.h` Clock, `MirrorFleetRuntime.cpp`)
[RefreshClock, HandClock, MirrorFleet]. State: next deadline, anchor. Operations: due,
planned, with a rate setting that can change between the two. Correct when the
rate cap holds over any stretch, lateness is not made up for by bursts, and the
clock never stalls.

**Standing-mirror capture pipeline** (`SecondView.cpp`) [CapturePipeline]. State:
the slots' owners, one scratch target, one retained target per slot, a pool of
spare targets, the batch's tickets, the running capture, the fault latch.
Operations: the fence, each stage of a capture with its roughly twenty exits,
game load. Hard: the published texture is what the pane samples *now*, while the
next capture draws into another texture that was swapped, parked or reused; a
revocation may come between any two steps. Correct when a visible frame shows
what was rendered for its mirror, textures have one role, and no exit leaves
authority behind.

**Capture opportunity coordinator and main scene list borrow**
(`PlanarCaptureOpportunityPolicy.h`, `MirrorMainSceneListBorrow*.{h,cpp}`,
`SecondView.cpp`) [SceneListBorrow, ExactMainCapture]. State: a ticket and a
coordinator per planned capture, the borrowed scene lists with a native reference per
entry, a filtered copy, a fault latch. The fence reserves, the culling hook borrows,
the deferred stage replays. Hard: the engine may unwind out of a main world or reach
it without a fence; any reference count may fault in the middle of a list; the
culling hook may run on another thread. Correct when a replay consumes its own
source's ticket once, every native reference is owned or known to be lost, and
nothing is replayed over renderer state that an earlier replay left uncertain.

**Hand publication store, capture reservation and runtime**
(`HandMirrorInternalPublicationStore.h`,
`MirrorsOfSkyrimHandMirrorCaptureReservationPolicy.h`,
`HandMirrorReflectionRuntime.cpp`) [HandPublication, HandRuntime]. State: two
publication roles with leases and retirement, a reservation and its ticket, the
runtime's copy of what is current, held and granted, the lifecycle flags. Operations:
the fence, the deferred capture, the stages of a first-person call, menus, equip
events, loads, new targets. Hard: a first-person call encloses the fence of the next
source, so the picture it is about to draw is retired under it; two kinds of hold
keep it; every stage asks the lifecycle flags anew. Correct when runtime and store
agree, what may be drawn is what was captured, a held picture is fresh, and no legal
order ends the mirror for the session.

**Hand mirror policies** (`HandMirror*Policy.h`). Evidence about the held item and
predicates over it, read by the runtime.

**Item suppression lease** (`HandMirrorItemSuppressionLeasePolicy.h`, `SecondView.cpp`)
[ItemSuppression]. A flag of the scene graph is written, read back and restored around
a pass; what cannot be restored becomes a ticket for the fence. Hard: every native
call may fail, or fault after it worked; a menu rebuilds the item meanwhile. Correct
when what was hidden is always owed by one holder who knows the value.

**Player inclusion and rollback** (`MirrorsOfSkyrimPlayerInclusion.cpp`,
`MirrorPlayerRollbackOwnershipPolicy.h`) [PlayerInclusion]. The same for the player's
body and its two flags, with a recovery slot for what a scope could not put back.

**Engine-state leases of the private pass, camera upload, hooks**
(`HandMirrorBillboardStateLease.cpp`, `MirrorCameraUploadLeasePolicy.h` and
others). Save, patch, restore around one pass; they arm through the registry.

**Recognition of placed mirrors** (`MirrorsOfSkyrimRecognition.cpp`)
[Recognition]. State: the candidate map under `g_candidateLock`, the generation
counter, the load epoch and its suspension flag. Operations: event sinks and cell
scans that read a reference and record it, a refresh of all records, the lookup of
one mirror, loads. Hard: a reference is read without the lock and recorded later, on
any thread; what a change makes stale is revoked after the lock; a load may begin and
end in between; form IDs are reused. Correct when a generation changes with whatever
an image depends on, no event of one game touches the records of another, and every
change is followed by its revocation.

**Pane delivery** (`MirrorsOfSkyrimPaneDelivery.cpp`, `MirrorPaneSurface.cpp`)
[Recognition, RetainedDelivery]. State: the frames of the last delivery that found
some, the panes hidden under a draw. Operations: restore, look up, draw, hide, per
published frame; the revocations that restore a pane. Hard: the candidate may go
away between any two of these, and retained frames outlive their publication.
Correct when only a mirror that is where its image was captured is drawn over, and a
hidden pane always has somebody who will restore it.

**Fleet entries** (`MirrorFleetPolicy.h`) [MirrorFleet; the admission serials in
CaptureAdmission]. An entry per mirror: its clock, whether it was visible, and the
image it lets pass after a return. Correct when the grace is bounded whatever fails
or leaves in between.

**Capture target pool** (`MirrorCaptureTargetPool.h`) [its use in CapturePipeline].
Spare targets keyed by size, evicted by age within a byte budget.

**Occlusion** (`MirrorOcclusion*`) [Occlusion]. State: per mirror a few query slots, the
newest evidence and the frame it was last culled in; an epoch that loads advance.
Operations: filter the demand at the fence, ask about every mirror once the depth is
complete, let an old image pass. Hard: answers come frames later, after the view, the
mirror, the device or the world changed, and the slots are not read in the order they
were asked. Correct when a capture is dropped only for what was last known to be hidden.

**Author registration and catalog files** (`MirrorAuthorRegistration*`,
`MirrorAuthorResolutionTransactionPolicy.h`, `MirrorAuthorCatalog*`)
[AuthorRegistration]. State: a collection window that opens once per session, the
collector's table of bases with the transports that declared each, the receipt of its
freeze, the resolution transaction. Operations: read the catalog files, stage what they
declare, hand a table to listeners, register, finalise; then resolve each base to a form
and compare it with the product's own. Hard: listeners may keep the table, pass it to
other threads and throw; files change while they are read; any stage may be the one that
fails. Correct when the declarations are taken whole or not at all, in any order.

**Placement** (`StandingMirrorPlacement.cpp`) [StandingMirrorPlacement]. State: the
placement in progress with its ghost, the controls it switched off, queued tasks, open
menus, the game's generation; in the game: kits in the inventory, kits lying in the
world, placed mirrors. Operations: requests from scripts and from dropped kits, the task
that begins one, input, menus, confirmation, pickup, loads. Hard: every native call of a
transaction between inventory and world may fail; a placement ends in some ten ways and
waits for controls that others hold; tasks and scripts of one game outlive it. Correct
when kits and mirrors are conserved, nothing of an ended placement stays, a wait ends,
and no leftover of one game acts in the next.

**Shadows, lights, caches, quality, timing** (`MirrorSunShadows.cpp`,
`MirrorBoundedCache.h`, `MirrorAdaptiveQuality.h`, `MirrorGpuTimer.h`). A worker
queue, a bounded cache, a controller, measurements.

**Mathematics, file formats, settings, scripts, Mirror Creator, vendored code.**
Not modelled; the reasons are [below](#what-is-not-modelled).

The hazards these parts are exposed to, with the source line where each bites
and the properties that watch it, are listed in `PROJECT.json`.

## Modules

Each module is one component: its variables are the members of the class or the
globals of the translation unit, each operation or handler is one action, and
the comment over a definition names the function it stands for. `PROJECT.json`
gives the source lines of every definition. Definitions whose comment starts
with *Mutant* are plausible bugs of the operator that follows them; no
specification uses them.

### FramePublication, FrameStore

`FramePublication` is the store with its clients: producers that hold a token,
consumers that keep a snapshot or a receipt. Every function that takes the lock
is one action, since nothing else can be seen between lock and unlock. A failed
allocation is an action (`PublishOutOfMemory`, the growth refused in
`BeginRefused`). Arguments that fail validation before the lock change nothing
and are left out; so are image sizes and formats. Sequences are numbers up to
`MaxSeq`, where they saturate as the 64-bit ones do.

| code | here |
| --- | --- |
| `g_published`, `g_byForm`, `g_byResource` | `published`, `size`, `byForm`, `byResource` |
| `g_activeAttempt`, the sequences, `g_tokenExhausted` | `active`, `attemptSeq`, `captureSeq`, `nativeSeq`, `exhausted` |
| `BeginReflectedAttempt`, `CancelReflectedAttempt` | the actions of the same names |
| `Publish` | `Publish`, `PublishExhausted`, `PublishOutOfMemory` |
| the invalidations | `Invalidate`, `ConfigureMultiMirror`, `InvalidateSlot`, `InvalidateCandidate`, `InvalidateExact` |
| `RetireExactForSuccessor` | the same, whose receipt is the variable `receipt` |

`FrameStore` says what the store promises to the pipeline and nothing else: a
frame per slot (whose, from which textures), one authority, and three operations:
`Authorise`, `Complete` and `Drop`. It has no sequences, indices, keys or
early returns. `FramePublication!Store` is the refinement mapping; run
`publication` checks it and `FramePublicationProofs` proves it (`StoreRefinement`).

### CapturePipeline, RetainedDelivery

`CapturePipeline` EXTENDS `FrameStore`: the pipeline is composed with the abstract
store, which is sound because the concrete one implements it. A target stands for its
colour and depth textures. `Fence` reconciles the slots and reserves captures; `Begin`
takes a ticket and authority; `EnsureReady`, `CheckRoles`, `Render`, `Publish`
and `Swap` are the stages of a capture; every other action is a way out. The ways out
are told apart by what they do to the state, as in the code: `FailTransient` (continue
with the published image where continuity allows), `FailFinal` (the slot is
invalidated) and `FailAll` (a fault is latched). `content` records which mirror was
last rendered into a texture; it is not in the code and exists for `ShownContent`.
`InvalidateCandidate` comes from any thread between any two steps. Game-load
handlers run between captures, as the render thread is the only one inside them.

`RetainedDelivery` EXTENDS it by the order of a source (fence, deliveries, captures)
and by `kept`, the frames `DeliverCurrentFrame` draws again when nothing is
published. It leaves out changed mirrors and loads; its one question needs neither.

### Recognition, MirrorFleet, Occlusion, StandingMirrors

`Recognition` follows a mirror from the event that notices it to the pane drawn over
it. Every thread of events is a little machine (`work`): it notices a reference under
the load epoch it reads first (`Notices`), reads it (`Reads`), records it under the
lock (`Commits`), revokes what that made stale (`Revokes`) and refreshes the others
(`Refreshes`). The render thread (`pass`) captures or delivers, each after a lookup
that records in its turn (`LookupRecords`), and the stages of `DeliverSnapshot` are
`Draws`, `HideChecks` and `Hides`; the last two under the suppression lock, for which
a revocation waits. A life of a form is its handle and base, a place its cell and
bounds. The refresh reads all candidates in one step. A load is five steps, from
`SuspendLoad` to `GameLoaded`, between the passes of the render thread, with events
on their threads at any of them. `kNewGame` has no `OnPreLoadGame`, so the epoch does
not advance; the model assumes, as the main menu justifies, that no event is in
flight then.

| code | here |
| --- | --- |
| `g_candidates`, `g_lastCandidateGeneration` | `candidates`, `lastGeneration` |
| `g_loadEpoch`, `g_loadTransitionSuspended` | `loadEpoch`, `loading` |
| `PreserveOrAssignGenerationLocked` | `SameRecord`, `Record` |
| the published frames, `g_retainedSnapshots`, `g_suppressions` | `frames`, `kept`, `hidden` |

`MirrorFleet` is the fleet's entry of one standing mirror beside `HandClock`: the
delivery of an image that is too old (`DeliverAged`), the fence with its two
reconciliations, demand and plan (`WallFence`), the capture, and reloads.

`Occlusion` has the queries (`queries`: entries with their slots, `NoEvidence` for a slot
without a pending query), `FilterCaptureDemand`, `ObserveRejected` and `Submit` as the
fence and the depth hook call them, and `InvalidateOcclusion` from any thread. The GPU
answers in the order it was asked, as far as it likes (`Progress`). Views and bounds are
the same or not; a projection or a query that cannot be made is the outcome "unknown",
since both void the entry; evidence too old in milliseconds is a choice. An answer that
fails, and an exception anywhere, is `Fail`. `seen` is not in the code: it records what
was asked and what is true of it.

`StandingMirrors` runs `MirrorFleet`, `Recognition` and `Occlusion` in one specification;
they share nothing but the set of mirrors, which may be any set, so a behaviour follows
one of them.

### CaptureAdmission

`Evaluate`, `Revalidate` and `Reset` of the gate, with the fleet's
`AdmissionSequence` and the reconciliation of slots and of the fleet, each of
which can run out of memory alone (`Reconcile`). The geometry is a verdict:
clear, unsafe, or no sample. `streak`, which is not in the code, counts what the
samples of a mirror have shown, so the gate's word can be compared with it.

### MirrorScheduler

`Reconcile`, `SetCaptureDemand`, `Choose` and `ChooseEveryFrame` as the fence calls them, in one
action per fence (`Fence`, and `FenceUnreconciled`, `FenceUnselected` for its
early exits), `SchedulerReset` for a game load. The source sequence is whether the source
is a new one. Iterators that walk the slots are ranks here: the k-th new mirror takes
the k-th empty slot (`Nth`), the k-th capture of a plan is of the k-th slot in demand.

### Activation

`Prepare`, `Commit` and what reads them are single actions; `TryCommitMirrorActivation` is
several (`CheckCommitted`, `CheckPrepared`, `BuildReadiness`,
`CommitDataReadiness`, `PromoteCommittedActivation`), because it holds no lock
across them. A thread's place in it is `call`. The SKSE messages come in the
order SKSE sends them; `GameLoaded` may never come; an allocation may fail in
prepare, in commit and in queueing the task. Which thread delivers
`TESCellFullyLoadedEvent` is not for this code to say, so the threads are a
constant and both answers are checked.

### LeaseRegistry, PlayerInclusion, ItemSuppression, CaptureScopes

`LeaseRegistry`: `TryArm` with each of its refusals and `Reset`. `trusted` records
what callers were told; the refusal counter is capped by `MaxRefusals`.

`PlayerInclusion` is the scope from `ScopeStarts` through its recoveries, its retained
root and its two cull exclusions to `ScopeCloses`, with the recovery slot and the
load's recovery. `ItemSuppression` is the lease machine with its adapter: one action
per native call, since a menu may be seen between any two of them. In both, a call may
fail, or fault with its work done or not. `CaptureScopes` puts the registry, the
player's scope (which arms its lease there) and the item's lease side by side.

What the scopes' environment may do: the game changes a body or an item only while no
rollback or ticket for it is pending; an equipment change or a menu stays observable
until the next fence; the equipped clone changes one way within a capture. Scopes of
the player follow each other freely; in the product an unclean close ends captures,
so the model has more behaviours. `lease.plain`
is history: every call of the capture was verified and every observation completed. It
hides no fault of the adapter's own making; a transition that comes after the restore
(`ReleaseNoWrite`) is a violation run of its own, `inventory_menu`.

### StandingMirrorPlacement, AuthorRegistration, PluginSession

`StandingMirrorPlacement` has one style of mirror, counted: kits the player has, kits
lying in the world, mirrors placed. Every native call of a transaction works or fails, at
most `MaxFailures` times; `failed` counts the failures whose roll back the code itself
reports as incomplete. The lock is held over each handler, so each is one action.

| code | here |
| --- | --- |
| `g_state`, its ghost and its control lease | `placing`, `ghosts`, `controlsOff` |
| `BeginPlacementNative`, `QueueBeginPlacement`, `ContainerSink` | `BeginPlacementNative`, `QueueBeginPlacement`, `PlayerDropsKit` |
| the SKSE tasks they queue | `tasks`, `RunPlacementTask` |
| `InputSink` | `InputWhileWaiting`, `InputCancels`, `InputTurns`, `InputConfirms` |
| `MenuSink`, `OnPreLoadGame`, `OnGameLoaded` | `MenuOpened`, `MenuClosed`, `PreLoadGame`, `NextGame` |
| `PickupPlacedMirrorReference` | the same |

The rest is its environment: the game gives and takes kits, picks up what lies in the
world, and sets controls of its own (`GameSetsControls`); the next game may be any that
was saved. Left out: where the ghost stands, the VR trigger and sticks, the filter of
notifications, and menus that are closed by force. Two things the model showed are no
violation of what the code promises: giving the lease back may enable a control that the
game disabled meanwhile, and `TransferDroppedItemToInventory` leaves a kit disabled whose
deletion stopped after `Disable()`, where the pickup enables it again.

`AuthorRegistration` is `OnPostLoad` and `OnDataLoaded`, cut where something else can come
between: a file of the catalog and the next (`ReadCatalog`, with `ExchangeFile` by another
program), one staged declaration and the next, and every call of a listener (`Query`,
`RegisterBase`), which after `Query` may come from any thread at any time.

| code | here |
| --- | --- |
| `CollectionWindow::phase_`, `normallyFrozenReceipt_` | `window`, `receipt` |
| `Collector::entries_`, `quarantined_` | `entries`, `overfull` |
| `LoadFromSourceInto` | `ReadCatalog`, `LoadFails`, `LoadEnds` |
| `RunCollectionCore` and its unwinding | `StageManifest`, `OpenCABI`, `CollectionUnwinds` |
| `FinalizeCollection`, `CloseFreezeAndMintReceipt` | `FinalizeCollection` |
| `RunResolutionCore` | `ResolveEntry`, `CloseResolutionPass`, `AddOwnIdentity`, `CloseAliasPass` |

`offers`, which is not in the code, has every acceptable declaration that was made in
time. A declaration the collector refuses leaves nothing behind and is left out; two that
conflict do not exist, since one schema and no flag is accepted. `registerBase` checks the
window and the thread before it copies a declaration and after; both checks are one here,
since only the thread that passes them moves the window.

`PluginSession` puts the scopes, the placement, the declarations, the activation and the
scheduler of the walls side by side. Scopes, placements and fences start in an active
product only and the activation asks nothing of them; declarations share no state with
the others, and the scheduler reads only the set of admitted mirrors, which may be any
set. So a behaviour follows one of them.

### SceneListBorrow, ExactMainCapture

`SceneListBorrow` has the operations of the borrow as operators over one record: the
kept references, the filtered copy, what a fault lost, and the latch.
`ExactMainCapture` is a main-world invocation after the other: the fence reserves
tickets with the coordinators (`FenceSingle`, `FenceBatch`), `FinalizeMainCulling`
begins the borrow, and the deferred stage consumes, acquires, replays and publishes
entry by entry. `MainWorldUnwinds` and `Unfenced` are the ways the engine cuts an
invocation short; `OtherThreadFinalizes` is the hook on another thread; mirrors and
the player's place change between any two steps.

### HandPublication, HandRuntime

`HandPublication` has every call of the hand store and of the reservation coordinator
as an operator that returns the next store or quarantines it. `HandRuntime` is the
runtime over it (`h`), with the first-person call (`fp`), the source (`frame`,
`source`) and what the engine has (`engine`). Its environment: pane draws of a
first-person call come before the fence that call encloses; one fence at most per
call; a load does not end inside one; no wall competes for the channel; the detached
last-good copy is left out, except that replaying it may revalidate a hold.

### RefreshClock, HandClock

`RefreshClock` holds the Clock's arithmetic as operators over a deadline;
`HandClock` is the hand mirror's use: `HandDue` and `HandPlanned` each read the
setting, which may differ between them. `MirrorFleet` uses the same operators.

## What the runs check

All runs finish within four minutes. Bounds are in the configurations; each is
named after what it bounds.

| run (module, cfg) | shows | bounds, and why they are enough |
| --- | --- | --- |
| `publication` (MCFramePublication, FramePublication) | `IndexExact`, `ReceiptHonoured`; a copied frame that is gone never matches again (`StaleKeyFindsNothing`); the refinement of `FrameStore` (`ImplementsFrameStore`) | 2 mirrors in 2 lifetimes, 2 slots, 2 textures, 2 producers, sequences to 3: a token is issued, superseded, superseded again and saturates |
| `exact_main` (MCExactMainCapture, ExactMainCapture) | `ReferencesAccounted`, `ReplaysOwnTicketOnce`, `ReplaysOverCleanState` | 2 list entries, so one can fault after the other worked; 2 mirrors and a batch of 2; 2 places; 2 sources: one is cut short and the next finds what it left |
| `hand_runtime` (MCHandRuntime, HandRuntime) | `DrawsOwnCapture`, `NoSelfFault`, `ShownFresh` | 2 equipped objects, 4 sources, 2 events (menu, equip, load, resize, mishap), holds of at most 2 sources: a picture is captured, held, held again and expires |
| `plugin_session` (MCPluginSession, PluginSession) | activation: `NoSelfConflict`, `DeferralEnds`; registry: `FailuresAttributable`; body: `BodyHasOwner`; item: `ItemHasOwner`, `PublishedIsClean`, `HidingSurvivesInventory`, `TicketRestored`; scheduler: `SlotsStable`, `PlanCovers`, `FairShare`; placement: `KitsConserved`, `PlacementCleansUp`, `OwnGameOnly`, `WaitEnds`; declarations: `TakenWhole` | cell events on the main thread, or on 2 threads of their own beside it, so three attempts at once; 4 names over 3 families, so a family has two leases and one re-registers; 2 roots and 2 items, so a scope finds another object than the one owed; the 8 attempts of the code; scheduler: 3 mirrors, one in two lifetimes at once, in either mode: a gap between two occupied slots, and a stale generation; placement: 1 kit or mirror at a time, 1 queued task, 2 games, 1 failing call, 2 kinds of menu, two required controls. Alone, without `WaitEnds`, it was run with 2 kits and 2 tasks too. Declarations: 3 bases over a capacity of 2, so files, listeners or both may exceed it; 2 files; 3 forms for 2 bases and 2 own ones, so any two may coincide; 2 threads |
| `capture_admission` (MCCaptureAdmission, CaptureAdmission) | `AdmissionEarned`, `DispatchEarned`, `NoSpuriousRestart` | 2 mirrors that exchange 2 slots, 2 bodies, 2 samples over 2 ticks needed, 4 sources: a warm-up, its loss and a part of the next |
| `standing_mirrors` (MCStandingMirrors, StandingMirrors) | `Cadence`, `GraceOnce`, `HiddenIsOwed`, `DrawnAsSeen`, `OwnLoadOnly`, `CulledWasHidden`, `RetainedWasHidden` | clock: no cap, caps of 2 and 3 ticks, 9 ticks: three periods and steps that skip one. Fleet: 6 frames, 2 lifetimes, an age window of 1: leave, return, grace, leave again. Recognition: 1 form in 2 lives and 2 generations, 2 poses, flat or without 3D, 1 event thread beside the render thread, 1 load: every property needs one event against one pass or load. Occlusion: 1 mirror in 2 lives, 2 views (lives and views symmetric), 2 slots, ages up to 2 and a bridge of 1, 4 frames and 1 load: a slot is used again while the other waits, and what the first frame saw runs out in the fourth. `RetainedWasHiddenHolds` covers the longer bridge of the code |
| `pipeline` (MCCapturePipeline, CapturePipeline) | `ShownContent`, `OneRole`, `NoFalseFault`, `NoOrphanAuthority` | 2 lifetimes of one mirror and another mirror; 2 slots; 4 textures = 2 retained + scratch + 1 spare, so the pool can be full and evict |
| `lease_registry_run` (MCLeaseRegistry, LeaseRegistryRun), `hand_retarget` (MCHandRuntime, HandRetarget), `inventory_menu` (CaptureScopes, InventoryMenu), `pipeline_unsafe` (MCCapturePipeline, CapturePipelineUnsafe), `retained_delivery` (MCRetainedDelivery, RetainedDelivery) | violated: see [disagreements](#where-the-code-and-its-words-disagree) | as the passing run of the module; `inventory_menu`: 1 item, 1 root, 1 lease; `retained_delivery`: 2 mirrors, 2 slots, 3 textures, no spare |

Two mirrors of a kind share no state in `Recognition` but the generation counter and
the threads, which is why its instance has one form.

What the properties say, where their names do not:

- `IndexExact`: the two indices are exactly what the visible frames give, after
  every operation and every failure inside one.
- `ImplementsFrameStore`: only the producer with authority completes a frame, for the
  mirror and slot it was given, and no two slots ever show one mirror or one texture.
- `ReceiptHonoured`: what a receipt calls retired is never acquirable again.
- `ShownContent`: a visible frame is of the mirror that has the slot, and its textures
  hold the finished image of that mirror, whatever was swapped, parked, released or
  reused since.
- `NoFalseFault`: the alias check, which ends all captures until the game is
  restarted, never latches in a run without a rendering fault: no legal history
  of the targets leads to it.
- `NoOrphanAuthority`: after every one of the exits the authority is gone, or is
  the running capture's own.
- `AdmissionEarned`, `DispatchEarned`: an open gate (a private rendering) is
  backed by enough clear samples of different sources over the required time,
  with one body, since the last sample that was not clear.
- `NoSpuriousRestart`: the converse: an open gate closes only for a reason.
- `PlanCovers`, `SlotsStable`: action properties over two consecutive fences.
- `FairShare`: if the slots stop changing, a mirror that stays in demand is
  captured again and again. Without that condition it does not hold, and the code
  does not promise it: a reconciliation can move `next_`.
- `NoSelfConflict` holds for cell events on the main thread only. With threads of their
  own two attempts can pass the stage check and the second commit disables the product:
  the model has the behaviour, and `FailClosedForGood` states what remains true of it,
  which is proved.
- `FailuresAttributable`: a family has at most one armed unproven lease, and whoever was
  told "armed" is armed with what it registered.
- `BodyHasOwner`, `ItemHasOwner`: where a body or an item differs from what the game put
  there, the one holder of the debt knows that value and holds a reference.
- `PublishedIsClean`: a capture that may be published left nothing of itself in the game.
- `StaleKeyFindsNothing`: what a consumer copied and the store has dropped stays
  without a match, whatever producers publish, revoke or exhaust later: no step
  brings back a key that was retired.
- `HidingSurvivesInventory`: while a capture holds the item hidden, a menu or a replaced
  clone does not end the mirror. It names the two ways in which a capture whose calls all
  worked still faults: the clone had changed before the hiding was verified (or nothing was
  hidden, the item being hidden already: `SecondView.cpp:14262`, 14320), and a transition
  that becomes visible after the item was put back. The second is what
  `InventorySuspendsCleanly` excludes and `inventory_menu` finds.
- `TicketRestored`: an item left to the fence is restored, also after a latched fault.
- `ReferencesAccounted`: the native references of the borrow are each owned by one list or
  were lost to a fault, and then the module is quarantined.
- `ReplaysOwnTicketOnce`, `ReplaysOverCleanState`: what a deferred stage replays, and when
  it must not.
- `DrawsOwnCapture`, `ShownFresh`: what the hand mirror may draw has not been drawn over,
  and what it shows is of the object in the hand and at most two sources old.
- `NoSelfFault`: no order of fences, captures, calls and events faults the runtime: where
  it remembers another lease or retirement than its store, the next call would. It is
  checked for sizes that change while nothing is held; `hand_retarget` is the other case.
- `GraceOnce`: an entry lets an old image pass in three successive frames at most.
- `DrawnAsSeen`: an image is drawn over a mirror only in the pose and life it was captured
  in, and the render thread and the record agree on both when it is drawn. The reference
  may have moved since it was read; that is one delivery's delay.
- `HiddenIsOwed`: a pane is hidden for the candidate there is, or a thread or a load has
  yet to restore it. This is the comment in `Suppress` (`MirrorPaneSurface.cpp:330`).
- `OwnLoadOnly`: an event that was noticed before a load changes no record after it.
- `CulledWasHidden`, `RetainedWasHidden`: a capture is dropped only on the newest answer
  there is about that mirror in that life, place and world, from that view; an image that
  is too old is let pass only for a mirror hidden a few frames before.
- `KitsConserved`: kits and mirrors are neither lost nor made, but by a failed call that
  the code reports.
- `PlacementCleansUp`: without a placement there is no ghost, and no control is off that
  the game does not want off.
- `OwnGameOnly`: a placement, task or request of one game does nothing in another.
- `TakenWhole`: what can be read of a frozen window is every declaration made in time,
  under the transports it came through; a window that did not freeze has nothing; an
  accepted resolution has one form per base, no two the same and none the product's own.
- `WaitEnds`: once menus stay closed and the game has given back what it disabled, a
  placement does not wait for ever: nothing of an earlier one keeps the controls off.
- `Cadence`: of `n` captures planned at one setting, the first and the last are
  at least `n - 1` intervals apart, the next is due within one interval, and deadlines
  stay on the grid of the first.

Every property has a mutant, a plausible bug in one definition, under which its
run fails.

Deadlock is checked except where the system can stop: a start-up that is over and a
finished registry (`PluginSession`), and time, frames, sources or loads at their bound
(`StandingMirrors`, `CaptureAdmission`, `ExactMainCapture`, `HandRuntime`).

## Fairness

- `PluginSession!SchedulerFairness`: the game renders frames for ever, each a new source,
  and every new source passes the fence. Nothing is assumed about which mirrors are visible
  or ranked.
- `PluginSession!ActivationFairness`, for behaviours that follow the activation: SKSE delivers the
  start-up messages, tasks run, an attempt that was started goes on, the data becomes
  ready at some time, and the player keeps entering cells. No game-loaded message is
  assumed, since a session started with `coc` has none: that case is what the fallback
  is for.
- `CaptureScopes!ScopesFairness`: a capture that runs goes on (weak), and a fence that is
  reached again and again with a ticket at some time verifies its write (strong): the
  code asks nothing of a single write but tries at every fence.
- `StandingMirrorPlacement!PlacementFairness`: the game delivers input events, frame by
  frame, to a placement that waits (weak). Nothing is assumed about the controls it
  waits for: that they come free is the condition of `WaitEnds`.

The other modules state no fairness; `FairShare`, `DeferralEnds`, `TicketRestored` and
`WaitEnds` are the liveness properties.

## What is proved

The proofs hold for every value of the constants that meets the named
assumptions. They are checked by SMT, Zenon and the temporal back end alone.

**`FramePublicationProofs`**, from `ConstantsAssumption` (slots are numbered,
`MaxSeq` is positive, the values for "nothing" are no members of what they stand
beside). Theorems: `TypeCorrect`, `IndicesStayExact`, `FramesStayDisjoint`,
`AttemptOwnsItsSlot`, `ReceiptsAreHonoured`, `AuthorityIsSingle`,
`StaleKeysStayStale`, `ExhaustionStopsPublishing`, all from `InductiveInvariant`.
The invariant is `TypeOK /\ LockStep /\ StoreInv /\ HistoryInv /\ TokenInv`. The
safety properties are not inductive alone:
- the indices are exact only because no frame lies beyond the slots in use
  (`SlotsInSize`): dropping a slot that is not in use leaves its index entries;
- a receipt stays honoured because every frame, copied key and receipt has a
  capture number no greater than the sequence (`HistoryBounded`), so a new frame
  cannot have an old number, and a key without a match never gets one again;
- authority is single because every token a producer holds is no greater than
  the attempt sequence (`TokensBounded`), so a new token is held by nobody else. At the
  limit of the sequence `BeginReflectedAttempt` issues the revoked number again;
  `ExhaustionStopsPublishing` shows that nothing is published then, so this is harmless.

The step is proved action by action; the three groups of conjuncts are separate
lemmas over the operations the actions share (`Unindex`, `DropSlots`, `DropAll`).
`StoreRefinement`: `Spec` implies `FrameStore`'s specification under the mapping. Each
action maps to `Drop`, `Authorise`, `Complete` or a stutter; the invariant supplies that
the slot of a live attempt shows no other mirror.

**`CapturePipelineProofs`**, from the pipeline's assumptions, for any slots, mirrors,
textures and spares: `ShownContentHolds`, `OneRoleHolds`, `NoFalseFaultHolds` and
`NoOrphanAuthorityHolds`: all the properties of the run. The invariant ties each stage of
a capture to what its job may hold, says that a visible frame owns exactly its slot's
retained target, and that the scratch target is nobody's but the running capture's.

**`CaptureAdmissionProofs`**, from `AdmissionConstants`, for any mirrors, slots, bodies
and thresholds. `TypeCorrect`, `AdmissionIsEarned`, `GatesKnowDifferentMirrors`,
`DispatchIsEarned` and `WarmUpIsNotRepeated`: all the properties of the run, and more. None is
inductive, because a gate counts by serials, which the fleet may lose with an entry
and count from 1 again while the gate still knows the old ones. `IInv` ties each gate
to the streak of the mirror its slot belongs to (`Fits`) and adds what makes
counting by serial right: a serial that has caught up with the gate's is of the
source of the gate's last sample (`NoneUncounted`), so a serial one above it is of a
source not yet counted. `DispatchIsEarned` needs besides that between the admission
and the rendering the fleet cannot lose the entry (`PassingSampled`).

**`CaptureScopesProofs`**, from `NoHolderIsNoName`, `PlayerConstants`,
`PlayerLeaseConstants` and `ItemConstants`. `TypeCorrect` and `AttributableFailures` for the
registry (`FailuresAttributable`), `BodyAlwaysOwed` for the player's body (`BodyHasOwner`),
`ItemAlwaysOwed`, `CleanWhenPublished` and `HidingSurvives` for the item
(`ItemHasOwner`, `PublishedIsClean`, `HidingSurvivesInventory`): all safety properties of the
run. For the registry, type correctness and the two parts of the property are inductive
together (`IInv`). For the body, `PInv` adds to the types: which scopes can be open
(`ScopeShape`), that owner and recovery slot agree (`OwnerKnown`), that whoever is in charge
holds a reference (`RootRetained`), that a recorded prior value is the game's as long as it
is owed (`PriorsKnown`), and that each differing value is owed (`ValuesOwed`). The last two
need each other: a debt is only worth something with the right value, and the value stays
right because the game does not touch a body that is owed.
For the item, `ItemInv` says what differs is owed by the capture or by the ticket
(`ItemOwed`), that there is a reference for each that is owed and, unless a call failed,
no other (`ItemRefsKnown`), how far the lease machine has come at each place of the
capture (`ItemPlace`), what is known of a capture whose every call worked (`ItemPlain`),
and why a machine has failed (`ItemFaults`). What a menu costs is not a fact of the last
step. It is known because, at each place, the machine of such a capture has latched nothing
but a drift or an ancestry failure, and either means that the clone has changed; and
because an owned write with nothing left to restore has been proven restored. `ItemPlain`
and `ItemFaults` carry this through the retries.

**`PluginSessionProofs`**, the three parts of a session that are not captures.
- Activation, from `ThreadsAssumption`, for any number of event threads: `StageTellsHolds`
  (a lifecycle still open for a commit has stored none, and only a conflict hides a
  conflict; no run checks it, since it is what the others rest on), `NoSelfConflictHolds`,
  `FailClosedForGoodHolds`. `Alone` says that with events on the main thread only the main
  thread is inside an attempt, and that its commit finds the lifecycle as its build left it;
  `Early`, that no attempt runs before the product is prepared.
- Placement, from `PlacementConstants`: `KitsConservedHolds`, `PlacementCleansUpHolds`,
  `OwnGameOnlyHolds`. The types apart, what has to be added is that a request keeps the game
  it was made in (`RequestsOfTheirGame`): a task of the running generation is of the game
  that is played even while a load is pending, since every message of a load begins
  a generation. The native calls of a transaction are lemmas that say what each leaves behind
  when it stops after any of them; the handlers cite those.
- Declarations, from `AuthorConstants`, for any bases, files and threads:
  `TakenWholeHolds`. `Kept` says where a declaration is at each phase: in the
  catalog until it is staged, then among the entries, until there is one too many, which
  `overfull` remembers. `ResolvesFrozen` says that resolution runs on a frozen window only,
  resolves no base it does not have and gives no form twice.

`PluginSessionCorrect` takes these and the scopes' to `PluginSession`'s own specification; the
scheduler's are below.

**`StandingMirrorsProofs`**, the four parts of the composition.
- The clock, from `HandClockConstants`: `ClockTypeHolds` and `CadenceHolds`.
  `Cadence` compares the deadline with the last capture; what is inductive is that
  the captures counted since the setting changed fit between anchor and deadline
  (`Counted`: `planned * interval <= next - anchor`), so the deadline is never moved
  by less than the interval per capture. The grid is a separate induction over
  multiples of the interval.
- The fleet, from `FleetConstants` too: `GraceOnceHolds`. An image on show has a
  capture (`Numbered`), so an entry that remembers none never mistakes it for the image
  let pass. `Remembered` says that while a grace runs the entry still knows its capture, and
  that it began no earlier than the return the entry noted and is less than three sources
  old.
- Recognition, from `RecognitionConstants`, for any references, poses and threads:
  `HiddenIsOwedHolds`, `DrawnAsSeenHolds`, `OwnLoadOnlyHolds`. A hidden pane may be owed by a
  thread whose revocation will not count any more, because a load has come between;
  `RestoreOwed` counts only those of this load, and `LoadsApart` says that a load that makes
  them void restores all panes itself. A picture fits the mirror in hand because a
  generation is never given twice (`GenerationsGiven`) and every picture, published, kept or
  in the render thread's hand, says what the record of its generation says (`Known`). The
  step is proved from `Renumbered`: a record is left, removed or numbered anew.
- Occlusion, from `OcclusionConstants`: `RetainedWasHiddenHolds` and `CulledWasHiddenHolds`.
  An entry's evidence was observed of this pane in this life (`Backed`), no answer
  that was read is newer than what counts (`Newest`), and a revoked query is older than those
  that count (`Ordered`), so the answer that decides is the newest there is; a pane that the
  bridge keeps out was hidden when it was last culled (`CulledHidden`).

`StandingMirrorsCorrect` takes them to the composition, whose parts share no variable.

The same module proves about `MirrorScheduler`, from `SchedulerConstants`: `SlotsStableHolds`,
`PlanCoversHolds` and `AdmittedHaveSlotsHolds`, for any number of mirrors and whatever gaps
the slots have. Inductive is that no two slots have a mirror of one form (`SlotsInv`). The
rest is counting: a greater member of a finite set of numbers has a greater rank
(`RankGrows`), and every number below its size is the rank of one member (`NthFact`). So the
new mirrors, in form order, and the empty slots, in slot order, meet one to one, none takes
two, and there are enough slots for all: `std::find_if` in `Reconcile` never comes to the end
of the vector, which the code then writes to without a test (`MultiMirrorPolicy.h:106`).

**`ExactMainCaptureProofs`**, from `ExactMainConstants`: `ExactTyped`,
`ReferencesAccountedHolds`, `OwnTicketHolds`, `CleanStateHolds`, from `ExactInvariant`.
`Sound` is proved of every operator of the borrow: a native reference is in exactly one slot
or was lost, and a loss has faulted the module. `BorrowInv` adds that a filtered copy lives
while its replay runs only, and that renderer state is uncertain only during a capture or
after a fault. `TicketInv`: tickets stem from sources already given out, no two are the same,
and those of the running source are still to be rendered. `JobInv`: what is rendered is the
running source's ticket, and a rendered one is proven.

**`HandRuntimeProofs`**, from `HandConstants`: `DrawsOwnCaptureHolds`, `NoSelfFaultHolds` and
`ShownFreshHolds`, from `HandInvariant`, for any number of sources, objects and events and any
limit of consecutive misses. They assume `~ResizeWhileHeld`: where a resize may meet a held
picture, the runtime does fault, as `hand_retarget` shows. The runtime never fails stop by itself exactly because it, the store
and the coordinator never disagree when one asks another, so this agreement is the invariant:
- `Good` (`Agrees`, `Kept`): the three agree on the current picture, the held receipt, the
  reservation, the ticket, the lease, the load and the targets; a reservation excludes a
  current picture and a running capture; every picture that may be drawn is in the target
  and the role it was captured into; a clean-miss hold is of this source and within the limit.
- `Live`: what may exist at each point of a source (`AtFrame`), what a first-person call
  knows of itself (`Call`), and that only a call that encloses the fence keeps an ordering
  hold, for the surface it staged (`OrderingHold`). Without the last, a hold would meet
  the next fence as a retirement nobody can resolve, which is a fault.
- `ShownWas` and `ShownFits`: a picture marked as presented is the one on show, so what the
  clean-miss hold promotes was shown.

`Good` is proved operator by operator (release, burn, cancel, advance, hold, promote, ticket,
publish, abort, load, retarget), each with a lemma that it succeeds and what it leaves alone;
the handlers, compositions of these, cite the lemmas. After a fault nothing
is left to draw (`Over`), and only the engine's faults lead there.

Assumptions on constants that the proofs made explicit, each named in the module that
declares them: the forms are finite (`IsFiniteSet(Forms)`), the values for "none" are none of
the things they stand for (`NoItem`, `NoTicket`, `NoEvidence`), and `MaxMiss` is positive
(`kMaximumConsecutiveCleanMissSources` is 2048, `HandMirrorPresentationRetargetPolicy.h:17`).

Where a module has proofs, its type invariant is among them (`TypeCorrect`, or the conjunct
`Typed` of the invariant) and no run repeats it. Every safety property of a passing run is the
conclusion of a theorem. Only model-checked are the liveness properties: `FairShare`,
`DeferralEnds`, `WaitEnds` and `TicketRestored`. Liveness rests on fairness and `ENABLED`,
which are out of the prover's reach, as are facts about what a recursive definition computes,
which need induction over data. Where the code looks for the first of something (the oldest
pending query, the next leaf of the catalog) no induction is needed: that a set of naturals
has a least element follows from `NatLessThanWellFounded` and `WFMin` (`HasLeast`,
`MinFact`). For the same reason the scheduler's model finds the k-th of a set by its rank
(`Nth`), not by recursion.

The theorems are about the specification of each component (`ActivationSpec`, `ScopesSpec`,
`ClockSpec`, `FleetSpec`, ...); `StandingMirrorsCorrect` and `PluginSessionCorrect` take them
to the specification whose run checks the properties.

## Where the code and its words disagree

- **Unproven leases per run.** `LeaseRegistry.h:20` says the registry makes "one
  unproven lease per run" structural and the refusal logs the same
  (`LeaseRegistry.cpp:66`), but `TryArm` compares families (`LeaseRegistry.cpp:58`): two
  unproven leases of different families arm. Run `lease_registry_run`.
- **A menu after the restore.** `HandMirrorReflectionRuntime.h:41` says of the inventory
  event "Suspend cleanly across InventoryMenu and resume after its first clean fence", and
  the comment at `SecondView.cpp:14466` that a transition is to be closed "cleanup-only
  instead of fault-stopping", since opening the inventory once turned the mirror off for
  good. After a restore that is verified and released `CloseHandSuppression` looks at the
  transition once more (line 14442). A menu that has become visible just then meets an owned
  write with nothing left to restore, for which `EvaluateLifecycleCleanupOnly` allows neither
  action (`HandMirrorItemSuppressionLeasePolicy.h:383`), and lines 14092 to 14095 stop the
  session. Run `inventory_menu`: no call fails and the clone stays.
- **A mirror that is unsafe right now.** `SecondView.cpp:19169` says such a reject
  "defers the capture but keeps the last published frame". In multi-mirror mode the
  flag that says so is never read, and the deferred pass, which looks at the pose,
  the body and the clock anew, ends in `finish(false)` and invalidates the slot
  (`SecondView.cpp:19422`). Run `pipeline_unsafe`.
- **A new size while a picture is held.** `HandMirrorReflectionRuntime.cpp:6020` says
  a new allocation is adopted or waited for, "but never fault merely because the
  allocation the player asked for is a different one", and line 5899 that a deferred
  retarget "declines one source without faulting". `RetargetPrivateTargets` forgets the
  hold first (line 5926) and then defers; giving the lease back asks the store for no
  retirement, which it still has, and the runtime fails stop. Run `hand_retarget`.
- **Frames that are drawn again.** `MirrorFramePublication.h:192` says that consumers must
  keep a snapshot "scoped to their synchronous draw", since a "later producer render can
  replace the texture contents". `DeliverCurrentFrame` keeps the last ones for up to
  150 ms and draws them when nothing is published (`MirrorsOfSkyrimPaneDelivery.cpp:2746`);
  a revocation does not take them. Run `retained_delivery`: a mirror's frame is dropped, its
  target goes to another capture that is not published either, and the pane of the first
  shows the second. It takes no change of a mirror and no load.

## What is not modelled

- *Geometry, mathematics, shading*: floating point, no numbers for it in TLA+. Where it
  decides, its verdict is a nondeterministic input.
- *The engine and D3D11*: calls of an external program. Creation of a resource
  succeeds, fails or faults, nondeterministically.
- *Parsers and writers of settings, catalog files and meshes, Papyrus, Mirror Creator*: no
  state between calls, or an offline tool.
- *Measurements*: they decide nothing about rendering.
- *Single-mirror mode and the fleet switched off*: other policies of the pipeline
  and of admission. Which mode runs is chosen
  once at start by feature markers; multi-mirror mode is among the defaults of
  `MirrorFeatureDefaults.h` and is the one with slots that change hands.
- *Vendored code and the Fallout 4 tools*: not this program's logic.
- *The byte budget of the target pool, the shadow worker and its caches, adaptive
  quality*: next in the plan below.
- *Within modelled components*: the rendering inside a private pass; single-mirror owner
  selection, capacity and visibility ranking in recognition; a pane restore that fails
  and ends deliveries; walls that compete with the hand; the hand's last-good copy; the
  mode without the capture coordinator. `PROJECT.json` says it per component.

## Plan

Done: publication store and its refinement, activation, lease registry, scheduler,
refresh clock and fleet entries, admission, capture pipeline, scene list borrow with the
coordinator, hand store and runtime, player and item scopes, recognition with delivery,
placement, occlusion, author registration.

Next modules, in this order:
1. `TargetPool`: the byte budget and eviction, under the pipeline's `Ensure`.
2. The shadow worker's queue and the bounded cache of `MirrorBoundedCache.h`.

Next proofs: what the modules above add, and `ShownFresh` of the hand without the hypothesis
on resizes, which needs an invariant for a hold whose target is gone.
