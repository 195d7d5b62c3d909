-------------------------- MODULE StandingMirrors ---------------------------
(***************************************************************************)
(* What the plugin keeps of a standing mirror from frame to frame: that it *)
(* is known, shown and hidden (Recognition), how often it is captured      *)
(* (MirrorFleet), and whether the scene hides it (Occlusion).  The fence   *)
(* tells the fleet which mirrors Recognition found and the queries which   *)
(* of those need a capture, and either may be any set at any time; nothing *)
(* else is shared, so a behaviour follows one of the three.                *)
(***************************************************************************)
EXTENDS MirrorFleet, Recognition, Occlusion

VARIABLE subject \* what the behaviour follows

fleetVars == <<clockVars, wall>>

\* The poses are alike, so behaviours start in one of them.
StandingInit ==
  /\ subject \in {"fleet", "recognition", "occlusion"}
  /\ FleetInit /\ RecognitionInit /\ OcclusionInit
  /\ subject # "fleet" => follows = "wall"
  /\ \A f \in Forms : actual[f].place = CHOOSE q \in Poses : TRUE

StandingNext ==
  /\ UNCHANGED subject
  /\ \/ /\ subject = "fleet" /\ FleetNext
        /\ UNCHANGED <<recognitionVars, occlusionVars>>
     \/ /\ subject = "recognition" /\ RecognitionNext
        /\ UNCHANGED <<fleetVars, occlusionVars>>
     \/ /\ subject = "occlusion" /\ OcclusionNext
        /\ UNCHANGED <<fleetVars, recognitionVars>>

StandingSpec ==
  StandingInit /\ [][StandingNext]_<<subject, fleetVars, recognitionVars, occlusionVars>>
=============================================================================
