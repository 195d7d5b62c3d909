------------------------- MODULE RetainedDelivery ---------------------------
(***************************************************************************)
(* The frames of the capture pipeline as the panes show them (src/src/     *)
(* MirrorsOfSkyrimPaneDelivery.cpp, DeliverCurrentFrame).  In every source *)
(* the fence comes first, then the panes are drawn, then the captures run. *)
(* A delivery that finds no published frame draws the last ones again,     *)
(* whose textures the pipeline no longer knows to be in use.               *)
(*                                                                         *)
(* No mirror changes and no load comes: what is shown here needs neither.  *)
(***************************************************************************)
EXTENDS CapturePipeline

VARIABLES
  turn, \* the fence, the deliveries or the captures of a source
  kept  \* g_retainedSnapshots

retainedVars == <<vars, turn, kept>>

RetainedInit == Init /\ turn = "fence" /\ kept = {}

Published == {frames[s] : s \in Slots} \ {NoFrame}
KeptTextures == UNION {k.textures : k \in kept}

FenceTurn ==
  /\ turn = "fence" /\ turn' = "delivery"
  /\ \/ \E o \in Reassignments : \E reserved \in SUBSET Mirrors : Fence(o, reserved)
     \/ \E reserved \in SUBSET Mirrors : FenceUnreconciled(reserved)
     \/ \E remaining \in SUBSET pending : PassAbandoned(remaining)
  /\ UNCHANGED kept

\* Without a published frame the last ones are drawn again, for 150 ms.  (All the
\* deliveries of a source find the same.)
Deliver ==
  /\ turn = "delivery" /\ turn' = "captures"
  /\ IF Published # {} THEN kept' = Published ELSE kept' \in {kept, {}}
  /\ UNCHANGED vars

\* No pane is drawn.
Undelivered ==
  /\ turn = "delivery" /\ turn' = "captures"
  /\ UNCHANGED <<vars, kept>>

\* A texture that is still referenced is not created anew.
CaptureStep ==
  /\ turn = "captures"
  /\ \/ \E remaining \in SUBSET pending : PassAbandoned(remaining)
     \/ \E m \in Mirrors : RejectChanged(m) \/ RejectUnsafe(m)
     \/ \E m \in Mirrors, s \in Slots : Begin(m, s)
     \/ \E t \in Textures : EnsureReady(t)
     \/ \E t \in Textures \cup {NoTexture} : EnsureFailed(t)
     \/ CheckRoles \/ NotRendered \/ CleanSkip \/ Render \/ Publish \/ NotPublished \/ Swap
  /\ KeptTextures \cap InUse' \subseteq InUse
  /\ UNCHANGED <<turn, kept>>

SourceEnds ==
  /\ turn = "captures" /\ pc = "idle" /\ turn' = "fence"
  /\ UNCHANGED <<vars, kept>>

RetainedNext == FenceTurn \/ Deliver \/ Undelivered \/ CaptureStep \/ SourceEnds

RetainedSpec == RetainedInit /\ [][RetainedNext]_retainedVars

-----------------------------------------------------------------------------
\* "Redraw the frame we already have": a frame drawn for a mirror that has its
\* slot shows that mirror, as "a later producer render can replace the texture
\* contents" and a "retained reference is not a frozen image snapshot".
RedrawsOwnFrame ==
  [][Deliver => \A k \in kept' : k.mirror \in Admitted =>
       \A t \in k.textures : content[t] = k.mirror]_retainedVars
=============================================================================
