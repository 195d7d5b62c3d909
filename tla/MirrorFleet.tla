---------------------------- MODULE MirrorFleet -----------------------------
(***************************************************************************)
(* The fleet's entry of one standing mirror (src/src/MirrorFleetPolicy.h,  *)
(* Entry and Fleet).  In every frame of the main world the pane is         *)
(* delivered, perhaps several times, and then the fence reconciles the     *)
(* entries, asks whether the mirror is due, and plans its capture.  An     *)
(* image too old to be drawn may bridge the first frames after its mirror  *)
(* came back into sight.                                                   *)
(*                                                                         *)
(* A mirror is its lifetime number, and a frame takes one tick of time.    *)
(* The slot that holds the image is reconciled just before the entries     *)
(* are, and either may run out of memory alone.  The fleet is on: the      *)
(* plugin decides that once, when it is installed.  A standing mirror and  *)
(* the hand mirror have a clock each and share no state, so a behaviour    *)
(* here follows one of the two.                                            *)
(***************************************************************************)
EXTENDS HandClock

CONSTANTS Window,      \* kDeferredPairAgeFrames
          MaxFrame,    \* bound on frames
          MaxLifetime  \* bound on reloads of the mirror

ASSUME FleetConstants == Window \in Nat \ {0} /\ MaxFrame \in Nat /\ MaxLifetime \in Nat \ {0}

VARIABLES
  follows,  \* whose captures the behaviour follows
  frame,    \* g_mainWorldFrame
  stage,    \* before the fence, after it, or with the planned capture to come
  lifetime, \* the mirror's candidate generation
  slot,     \* the lifetime that has the slot, 0 is none
  entry,    \* its entry of Fleet::entries_
  image,    \* its published image
  grace     \* the image the entry let pass last, since when and until when

wall == <<follows, frame, stage, lifetime, slot, entry, image, grace>>

NoEntry == [lifetime |-> 0, clock |-> NewClock, visible |-> FALSE,
            resumeSource |-> 0, resumeCapture |-> 0, expired |-> 0]
NoImage == [lifetime |-> 0, at |-> 0, capture |-> 0]
NoGrace == [capture |-> 0, first |-> 0, last |-> 0]

Entered(l) == [NoEntry EXCEPT !.lifetime = l]

\* Fleet::Find.
Found(e) == e.lifetime = lifetime

FleetInit ==
  /\ ClockInit
  /\ follows \in {"hand", "wall"}
  /\ frame = 0 /\ stage = "fenced" /\ lifetime = 1 /\ slot = 0
  /\ entry = NoEntry /\ image = NoImage /\ grace = NoGrace

-----------------------------------------------------------------------------
(* Delivery *)

Expired(e, capture) ==
  IF Found(e) /\ capture # e.expired
  THEN [e EXCEPT !.expired = capture, !.clock = Wake(@)] ELSE e

\* Mutant: every return grants the grace, whatever image it is.
ResumedAgain(e, capture) ==
  IF Found(e) /\ ~e.visible
  THEN [e EXCEPT !.resumeSource = frame, !.resumeCapture = capture, !.clock = Wake(@)]
  ELSE e

Resumed(e, capture) ==
  IF Found(e) /\ ~e.visible /\ e.resumeCapture # capture
  THEN [e EXCEPT !.resumeSource = frame, !.resumeCapture = capture, !.clock = Wake(@)]
  ELSE e

\* What ResumeImage returns once it has noted the return.
ResumeImage(e, old) ==
  /\ Found(e) /\ e.resumeCapture = old.capture
  /\ old.at < e.resumeSource /\ frame - e.resumeSource < 3

\* The pane is drawn for the mirror's present lifetime, and its image is past
\* the age of a deferred pair; covered: the checks of candidate, cell and pane
\* pass, and the old image covers all of the pane.
DeliverAged(covered) ==
  /\ image.lifetime = lifetime
  /\ frame - image.at > Window
  /\ LET expired == Expired(entry, image.capture)
         resumed == IF covered THEN Resumed(expired, image.capture) ELSE expired
     IN /\ entry' = resumed
        /\ grace' = IF ~covered \/ ~ResumeImage(resumed, image) THEN grace
                    ELSE IF grace.capture = image.capture THEN [grace EXCEPT !.last = frame]
                    ELSE [capture |-> image.capture, first |-> frame, last |-> frame]
  /\ UNCHANGED <<clockVars, follows, frame, stage, lifetime, slot, image>>

-----------------------------------------------------------------------------
(* The fence *)

\* Fleet::Reconcile; an allocation that fails may come after the entry is made,
\* and before any is erased.
Reconciled(admitted, complete) ==
  IF admitted THEN IF Found(entry) THEN {entry}
                   ELSE {Entered(lifetime)} \cup (IF complete THEN {} ELSE {entry})
  ELSE IF complete THEN {NoEntry} ELSE {entry}

Requested(e, visible) ==
  IF ~Found(e) THEN e
  ELSE [e EXCEPT !.clock = IF visible /\ ~e.visible THEN Wake(@) ELSE @,
                 !.visible = visible]

Demands(e, visible, interval) == visible /\ (Found(e) => Due(e.clock, frame, interval))

\* ReconcileMirrorSlots: a slot that changes hands loses its image.
SlotReconciled(to) ==
  slot' = to /\ image' = IF to = slot THEN image ELSE NoImage

\* A plan takes every slot that the demand lets through, and notes it in the
\* entry; one for an earlier lifetime changes nothing the mirror still uses.
PlannedFor(e, demanded, plans, interval) ==
  /\ plans => demanded /\ slot' = lifetime
  /\ entry' = IF plans /\ Found(e)
              THEN [e EXCEPT !.clock = Attempt(@, frame, interval)] ELSE e
  /\ stage' = IF plans THEN "planned" ELSE "fenced"

\* complete: which of the two reconciliations had the memory; filtered: the
\* demand could be stored.  The demand and the plan each read the setting.
WallFence(admitted, complete, visible, filtered, plans, interval, again) ==
  /\ stage = "ahead"
  /\ visible => admitted
  /\ SlotReconciled(IF ~complete.slots THEN slot ELSE IF admitted THEN lifetime ELSE 0)
  /\ \E e \in Reconciled(admitted, complete.entries) :
       LET asked == IF admitted THEN Requested(e, visible) ELSE e
       IN /\ PlannedFor(asked, filtered => Demands(asked, visible, interval), plans, again)
          /\ grace' = IF e.lifetime # entry.lifetime THEN NoGrace ELSE grace
  /\ UNCHANGED <<clockVars, follows, frame, lifetime>>

\* The selection of the mirrors is incomplete: the slots stay and no demand
\* filters them.  Or the fence does not come.
WallUnselected(plans, interval) ==
  /\ stage = "ahead"
  /\ SlotReconciled(slot)
  /\ PlannedFor(entry, TRUE, plans, interval)
  /\ UNCHANGED <<clockVars, follows, frame, lifetime, grace>>

\* The planned capture is published, or fails; Fleet::Result only counts.
WallCaptured(success) ==
  /\ stage = "planned" /\ stage' = "fenced"
  /\ image' = IF success THEN [lifetime |-> lifetime, at |-> frame, capture |-> frame]
              ELSE image
  /\ UNCHANGED <<clockVars, follows, frame, lifetime, slot, entry, grace>>

NextFrame ==
  /\ stage = "fenced" /\ frame < MaxFrame
  /\ frame' = frame + 1 /\ stage' = "ahead"
  /\ UNCHANGED <<clockVars, follows, lifetime, slot, entry, image, grace>>

\* The mirror is reloaded: its lifetime ends and InvalidateCandidate takes the
\* image; a planned capture of the old lifetime no longer publishes.
MirrorReloads ==
  /\ lifetime < MaxLifetime /\ lifetime' = lifetime + 1
  /\ image' = NoImage /\ stage' = IF stage = "planned" THEN "fenced" ELSE stage
  /\ UNCHANGED <<clockVars, follows, frame, slot, entry, grace>>

WallNext ==
  \/ NextFrame \/ MirrorReloads
  \/ \E covered \in BOOLEAN : DeliverAged(covered)
  \/ \E admitted, visible, filtered, plans \in BOOLEAN :
       \E complete \in [slots : BOOLEAN, entries : BOOLEAN], interval, again \in Intervals :
         WallFence(admitted, complete, visible, filtered, plans, interval, again)
  \/ \E plans \in BOOLEAN, interval \in Intervals : WallUnselected(plans, interval)
  \/ \E success \in BOOLEAN : WallCaptured(success)

FleetNext ==
  \/ follows = "hand" /\ ClockNext /\ UNCHANGED wall
  \/ follows = "wall" /\ WallNext

FleetSpec == FleetInit /\ [][FleetNext]_<<clockVars, wall>>

-----------------------------------------------------------------------------
\* "An idle owner can reuse its exact image for at most three returning frames,
\* once per capture": however often the mirror leaves and returns, and however
\* often its pane is drawn or its capture fails, an entry lets an aged image pass
\* in three successive frames at most.
GraceOnce == grace.last - grace.first < 3
=============================================================================
