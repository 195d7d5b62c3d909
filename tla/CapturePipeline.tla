-------------------------- MODULE CapturePipeline ---------------------------
(***************************************************************************)
(* The capture of standing mirrors in multi-mirror mode (src/src/          *)
(* SecondView.cpp) over the publication store, taken as a FrameStore.  A   *)
(* fence gives the visible mirrors their slots and reserves captures; each *)
(* reserved capture then takes authority for its slot, prepares the one    *)
(* scratch target, renders into it, publishes it and swaps it with the     *)
(* target its slot retained.  Every way out of a capture is a step.        *)
(*                                                                         *)
(* A render target stands for its colour and depth textures.  Fences,      *)
(* captures and the load handlers run on the render thread; other threads  *)
(* may revoke a mirror between any two steps.                              *)
(***************************************************************************)
EXTENDS FrameStore, FiniteSets

CONSTANTS MaxSpares, \* targets the pool keeps
          NoMirror, NoTexture

ASSUME PipelineConstants ==
  /\ IsFiniteSet(Slots) /\ IsFiniteSet(Textures)
  /\ MaxSpares \in Nat
  /\ NoMirror \notin Mirrors
  /\ NoTexture \notin Textures
  /\ NoFrame \notin ShownFrames
  /\ NoToken \notin Authorities

VARIABLES
  owner,     \* g_multiMirrorScheduler.Slots()
  known,     \* the slots' owners as the last reconciliation left them
  scratch,   \* the texture of g_mirrorTarget
  retained,  \* the texture of each of g_mirrorRetainedTargets
  spares,    \* the textures of g_fleetTargetPool
  content,   \* the mirror last rendered into a texture
  pending,   \* the batch's tickets
  job,       \* activeMirror and mirrorSlot of the running capture
  pc,        \* how far that capture is
  suspended, \* g_loadTransitionSuspended
  fault      \* g_faulted, and what latched it

targets == <<scratch, retained, spares>>
vars == <<frames, authority, owner, known, scratch, retained, spares, content,
          pending, job, pc, suspended, fault>>

Jobs == [mirror : Mirrors, slot : Slots]
NoJob == NoToken

Init ==
  /\ StoreInit
  /\ owner = [s \in Slots |-> NoMirror]
  /\ known = owner
  /\ scratch = NoTexture
  /\ retained = [s \in Slots |-> NoTexture]
  /\ spares = {}
  /\ content = [t \in Textures |-> NoMirror]
  /\ pending = {}
  /\ job = NoJob
  /\ pc = "idle"
  /\ suspended = FALSE
  /\ fault = "none"

Shown == UNION {frames[s].textures : s \in {t \in Slots : frames[t] # NoFrame}}
Retained == {retained[s] : s \in Slots} \ {NoTexture}
InUse == Shown \cup Retained \cup spares \cup ({scratch} \ {NoTexture})
Admitted == {owner[s] : s \in Slots} \ {NoMirror}
Running == fault = "none" /\ ~suspended

InvalidateReflectedFrames == Drop(Slots, TRUE)

-----------------------------------------------------------------------------
\* What Scheduler::Reconcile may turn the slots into: a mirror that stays keeps
\* its slot and a form has one slot (SlotsStable and PlanCovers of
\* MirrorScheduler).
Reassignments == {o \in [Slots -> Mirrors \cup {NoMirror}] :
  /\ \A s, t \in Slots : owner[s] # NoMirror /\ o[t] = owner[s] => o[s] = owner[s]
  /\ \A s, t \in Slots : s # t /\ o[s] # NoMirror /\ o[t] # NoMirror =>
       o[s].form # o[t].form}

\* The slots whose frame belongs to another owner.
ChangedSlots(o) == {s \in Slots : known[s] # o[s]}

\* ReconcileMirrorSlots and the reservations of the same fence.  A slot with
\* another owner loses its frame; one that falls empty also its target; without
\* any owner the scratch target may go too.
Fence(o, reserved) ==
  /\ pc = "idle" /\ Running
  /\ reserved \subseteq {o[s] : s \in Slots} \ {NoMirror}
  /\ owner' = o
  /\ known' = o
  /\ Drop(ChangedSlots(o), FALSE)
  /\ retained' = [s \in Slots |->
       IF known[s] # o[s] /\ o[s] = NoMirror /\ retained[s] # scratch
       THEN NoTexture ELSE retained[s]]
  /\ \/ scratch' = scratch
     \/ /\ \A s \in Slots : o[s] = NoMirror
        /\ scratch \notin Shown
        /\ scratch' = NoTexture
  /\ pending' = reserved
  /\ UNCHANGED <<spares, content, job, pc, suspended, fault>>

\* As Fence, when the selection is incomplete or storage cannot grow.
FenceUnreconciled(reserved) ==
  /\ pc = "idle" /\ Running
  /\ reserved \subseteq Admitted
  /\ pending' = reserved
  /\ UNCHANGED <<frames, authority, owner, known, targets, content, job, pc,
                 suspended, fault>>

\* A fence or a deferred pass that ends before it selects a mirror: a latched
\* fault, another thread, or no camera.
PassAbandoned(remaining) ==
  /\ pc = "idle"
  /\ remaining \subseteq pending
  /\ pending' = remaining
  /\ InvalidateReflectedFrames
  /\ UNCHANGED <<owner, known, targets, content, job, pc, suspended, fault>>

-----------------------------------------------------------------------------
\* The deferred pass finds no eligible mirror for the ticket: its identity, its
\* place or its admission changed since the fence.
Reject(m) ==
  /\ pc = "idle" /\ Running
  /\ m \in pending
  /\ pending' = pending \ {m}
  /\ Drop({s \in Slots : owner[s] = m}, FALSE)
  /\ UNCHANGED <<owner, known, targets, content, job, pc, suspended, fault>>

RejectChanged(m) == Reject(m)

\* The near clearance, the facing, the player or the warm-up rejects it, for the
\* pose of the raster camera instead of the fence's.
RejectUnsafe(m) == Reject(m)

\* The mirror is eligible: take authority for its slot, keep its frame.
Begin(m, s) ==
  /\ pc = "idle" /\ Running
  /\ m \in pending /\ owner[s] = m
  /\ pending' = pending \ {m}
  /\ job' = [mirror |-> m, slot |-> s]
  /\ pc' = "begun"
  /\ Authorise(s, m, TRUE)
  /\ UNCHANGED <<owner, known, targets, content, suspended, fault>>

-----------------------------------------------------------------------------
\* finish: the capture is over.
Finish ==
  /\ pc' = "idle"
  /\ job' = NoJob
  /\ UNCHANGED <<owner, known, retained, pending, suspended>>

\* Mutant: a kept frame keeps the attempt alive as well.
KeepLeavingAttempt == Drop({}, FALSE)

\* CancelReflectedAttempt.
Keep == Drop({}, TRUE)

Lose == Drop({job.slot}, FALSE)

\* MirrorPublicationRoleIsDisjoint, and for a target that was never begun
\* PlanarPublicationCanSurviveUnstartedCapture: the frame is the retained target's
\* and the scratch target is not shown.
RoleIsDisjoint(target) ==
  /\ \E s \in Slots : Shows(s, job.mirror) /\ frames[s].textures = {retained[job.slot]}
  /\ target # retained[job.slot]
  /\ target \notin Shown

\* A transient failure keeps the frame of a mirror that is still there
\* (shouldPreserveMirrorPublication).
FailTransient(target) ==
  /\ Finish
  /\ UNCHANGED fault
  /\ \/ RoleIsDisjoint(target) /\ Keep
     \/ Lose

FailFinal == Finish /\ Lose /\ UNCHANGED fault

FailAll(latched) ==
  /\ Finish
  /\ InvalidateReflectedFrames
  /\ fault' = latched

-----------------------------------------------------------------------------
\* EnsureRenderObjects: the scratch target stays, or it is parked or deleted and
\* a spare or a new one takes its place; the pool evicts spares.
Ensure(target) ==
  \/ target = scratch /\ UNCHANGED <<spares, content>>
  \/ /\ target # scratch
     /\ target \in spares \cup (Textures \ InUse) \cup {NoTexture}
     /\ spares' \in SUBSET ((spares \cup {scratch}) \ {target, NoTexture})
     /\ Cardinality(spares') <= MaxSpares
     /\ content' = IF target \in Textures \ InUse
                   THEN [content EXCEPT ![target] = NoMirror] ELSE content

EnsureReady(target) ==
  /\ pc = "begun"
  /\ target # NoTexture
  /\ Ensure(target)
  /\ scratch' = target
  /\ pc' = "allocated"
  /\ UNCHANGED <<frames, authority, owner, known, retained, pending, job, suspended, fault>>

\* No target, a fault while it is made, or no raster view of the main camera.
EnsureFailed(target) ==
  /\ pc = "begun"
  /\ Ensure(target)
  /\ scratch' = target
  /\ FailTransient(target) \/ FailAll("pass")

\* CaptureResourcesDisjoint, and the alias check of the shown frame.
Aliased ==
  \/ scratch \in Shown
  \/ /\ retained[job.slot] # NoTexture
     /\ \E s \in Slots : Shows(s, job.mirror)
     /\ ~RoleIsDisjoint(scratch)

CheckRoles ==
  /\ pc = "allocated"
  /\ \/ Aliased /\ FailAll("alias")
     \/ ~Aliased /\ FailAll(fault) \* EnsureWallTargetGeneration
     \/ /\ ~Aliased
        /\ pc' = "ready"
        /\ UNCHANGED <<frames, authority, owner, known, retained, pending, job,
                       suspended, fault>>
  /\ UNCHANGED <<scratch, spares, content>>

-----------------------------------------------------------------------------
Painted(m) == content' = [content EXCEPT ![scratch] = m]

\* Before the target is begun: camera, admission or location fail.
NotRendered ==
  /\ pc = "ready"
  /\ \/ FailTransient(scratch)
     \/ FailFinal
     \/ FailAll("pass")
  /\ UNCHANGED <<scratch, spares, content>>

\* The target was begun and nothing of the mirror drawn.
CleanSkip ==
  /\ pc = "ready"
  /\ Painted(NoMirror)
  /\ FailTransient(scratch)
  /\ UNCHANGED <<scratch, spares>>

Render ==
  /\ pc = "ready"
  /\ Painted(job.mirror)
  /\ pc' = "rendered"
  /\ UNCHANGED <<frames, authority, owner, known, targets, pending, job, suspended, fault>>

\* The pass faulted: no capture ever again; the target is deleted unless its
\* release faults too.
RenderFault ==
  /\ pc = "ready"
  /\ \E m \in {job.mirror, NoMirror} : Painted(m)
  /\ scratch' \in {scratch, NoTexture}
  /\ FailAll("pass")
  /\ UNCHANGED spares

-----------------------------------------------------------------------------
\* Mutant: the target that was retained is published.
PublishedRetained == {retained[job.slot]} \ {NoTexture}

PublishedTextures == {scratch}

Publish ==
  /\ pc = "rendered"
  /\ Complete(PublishedTextures)
  /\ pc' = "published"
  /\ UNCHANGED <<owner, known, targets, content, pending, job, suspended, fault>>

\* The scene lists, mips, retention or the main view fail, the location changed,
\* or the store refuses.
NotPublished ==
  /\ pc = "rendered"
  /\ FailTransient(scratch) \/ FailFinal \/ FailAll("pass")
  /\ UNCHANGED <<scratch, spares, content>>

\* Mutant: the slot does not retain what it published.
SwapUnretained ==
  /\ scratch' = retained[job.slot]
  /\ retained' = retained

\* Mutant: the published target stays the scratch target as well.
SwapKeepingScratch ==
  /\ scratch' = scratch
  /\ retained' = [retained EXCEPT ![job.slot] = scratch]

Exchange ==
  /\ scratch' = retained[job.slot]
  /\ retained' = [retained EXCEPT ![job.slot] = scratch]

Swap ==
  /\ pc = "published"
  /\ Exchange
  /\ pc' = "idle"
  /\ job' = NoJob
  /\ UNCHANGED <<frames, authority, owner, known, spares, content, pending, suspended, fault>>

-----------------------------------------------------------------------------
\* InvalidateCandidate, from a game event on any thread.
InvalidateCandidate(f) ==
  /\ Drop({s \in Slots : \/ frames[s] # NoFrame /\ frames[s].mirror.form = f
                         \/ authority # NoToken /\ authority.mirror.form = f
                              /\ authority.slot = s}, FALSE)
  /\ UNCHANGED <<owner, known, targets, content, pending, job, pc, suspended, fault>>

OnPreLoadGame ==
  /\ pc = "idle" /\ ~suspended
  /\ suspended' = TRUE
  /\ pending' = {}
  /\ InvalidateReflectedFrames
  /\ UNCHANGED <<owner, known, targets, content, job, pc, fault>>

\* OnGameLoaded, with or without OnPreLoadGame before it.
OnGameLoaded ==
  /\ pc = "idle"
  /\ owner' = [s \in Slots |-> NoMirror]
  /\ suspended' = FALSE
  /\ pending' = {}
  /\ InvalidateReflectedFrames
  /\ UNCHANGED <<known, targets, content, job, pc, fault>>

Next ==
  \/ \E o \in Reassignments : \E reserved \in SUBSET Mirrors : Fence(o, reserved)
  \/ \E reserved \in SUBSET Mirrors : FenceUnreconciled(reserved)
  \/ \E remaining \in SUBSET pending : PassAbandoned(remaining)
  \/ \E m \in Mirrors : RejectChanged(m) \/ RejectUnsafe(m)
  \/ \E m \in Mirrors, s \in Slots : Begin(m, s)
  \/ \E t \in Textures : EnsureReady(t)
  \/ \E t \in Textures \cup {NoTexture} : EnsureFailed(t)
  \/ CheckRoles
  \/ NotRendered \/ CleanSkip \/ Render \/ RenderFault
  \/ Publish \/ NotPublished \/ Swap
  \/ \E m \in Mirrors : InvalidateCandidate(m.form)
  \/ OnPreLoadGame \/ OnGameLoaded

Spec == Init /\ [][Next]_vars

-----------------------------------------------------------------------------
\* The textures of a visible frame hold the image of its mirror.
ImageOfMirror ==
  \A s \in Slots : frames[s] # NoFrame =>
    \A t \in frames[s].textures : content[t] = frames[s].mirror

\* A visible frame belongs to the mirror the slot was last given to.
FrameOfOwner ==
  \A s \in Slots : frames[s] # NoFrame => frames[s].mirror = known[s]

\* What a slot shows was rendered for the mirror that has the slot: neither a later
\* capture, nor a reassignment or a load, nor a parked, swapped, released or reused
\* target puts another mirror's image, or an unfinished one, into a visible frame.
ShownContent == ImageOfMirror /\ FrameOfOwner

\* A texture has one role: it is the scratch target, a spare or retained by one
\* slot; and a visible frame is the target its slot retains, except between
\* publication and swap.
OneRole ==
  /\ scratch \notin Retained \cup spares
  /\ Retained \cap spares = {}
  /\ \A s, t \in Slots : s # t /\ retained[s] = retained[t] => retained[s] = NoTexture
  /\ \A s \in Slots : frames[s] # NoFrame /\ ~(pc = "published" /\ job.slot = s) =>
       frames[s].textures = {retained[s]}

\* The alias checks, which end all captures until the game restarts, never latch
\* in a run without a rendering fault.
NoFalseFault == fault # "alias"

\* No way out of a capture leaves its authority behind, and no capture runs with
\* another's.
NoOrphanAuthority == authority \in {NoToken, job}

\* "A geometrically valid "capture unsafe right now" reject (...) defers the
\* capture but keeps the last published frame".
UnsafeKeepsFrame == [][\A m \in Mirrors : RejectUnsafe(m) => frames' = frames]_vars
=============================================================================
