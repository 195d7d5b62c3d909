---------------------------- MODULE Recognition -----------------------------
(***************************************************************************)
(* The standing mirrors the plugin knows (src/src/                         *)
(* MirrorsOfSkyrimRecognition.cpp) and what hangs on one of them: the      *)
(* frame captured for it, the draw of that frame over its pane, and the    *)
(* authored pane hidden under the draw (src/src/                           *)
(* MirrorsOfSkyrimPaneDelivery.cpp, MirrorPaneSurface.cpp).  Multi-mirror  *)
(* mode.                                                                   *)
(*                                                                         *)
(* A candidate is read without a lock and recorded under g_candidateLock;  *)
(* what a change of the record makes stale is revoked after the lock.      *)
(* Events of the game come on any thread; captures, deliveries and loads   *)
(* are the render thread's.  A life of a form stands for its handle and    *)
(* base, a place for its cell and bounds.                                  *)
(***************************************************************************)
EXTENDS Integers, FiniteSets, Functions

CONSTANTS Forms, Threads,
          Poses,        \* bounds with a thin axis
          Flat,         \* bounds without one
          NoBounds,     \* no 3D, or no valid transform
          NoCandidate, NoFrame,
          MaxLife,       \* bound on the lives of a form
          MaxGeneration, \* bound on lastGeneration
          MaxSession     \* bound on loads

ASSUME RecognitionConstants ==
  /\ IsFiniteSet(Forms)
  /\ NoBounds \notin Poses \cup {Flat} /\ Flat \notin Poses
  /\ MaxLife \in Nat \ {0} /\ MaxGeneration \in Nat /\ MaxSession \in Nat

VARIABLES
  actual,         \* the references of the game
  session,        \* the game the world belongs to, counted by loads; not in the code
  candidates,     \* g_candidates
  lastGeneration, \* g_lastCandidateGeneration
  loadEpoch,      \* g_loadEpoch
  loading,        \* how far a load is; g_loadTransitionSuspended unless "no"
  work,           \* what an event has each thread do
  frames,         \* the published frame of each form
  kept,           \* g_retainedSnapshots
  pass,           \* what the render thread does
  hidden          \* g_suppressions: the generation a pane is hidden for, or 0

recognised == <<candidates, lastGeneration>>
shown == <<frames, kept, hidden>>
recognitionVars == <<actual, session, recognised, loadEpoch, loading, work, shown, pass>>

Idle == [at |-> "idle"]
Suspended == loading # "no"

RecognitionInit ==
  /\ actual \in [Forms -> [life : {1}, status : {"eligible"}, place : Poses]]
  /\ session = 0
  /\ candidates = [f \in Forms |-> NoCandidate]
  /\ lastGeneration = 0 /\ loadEpoch = 0 /\ loading = "no"
  /\ work = [t \in Threads |-> Idle]
  /\ frames = [f \in Forms |-> NoFrame] /\ kept = {}
  /\ pass = Idle
  /\ hidden = [f \in Forms |-> 0]

Current(f, generation) ==
  candidates[f] # NoCandidate /\ candidates[f].generation = generation

-----------------------------------------------------------------------------
(* Reading a reference, and recording what was read *)

\* ReadReferenceStatusSEH and BuildBoundsForReference; generation: of the record
\* the reading is for, 0 for an event's.
Sighting(f, life, generation) ==
  LET a == actual[f]
      status == IF a.life = life THEN a.status ELSE "gone"
  IN  [form |-> f, life |-> life, generation |-> generation, status |-> status,
       place |-> IF status = "eligible" THEN a.place ELSE NoBounds]

SightingOf(f) == Sighting(f, candidates[f].life, candidates[f].generation)

\* Mutant: a move of the reference keeps the generation.
SameHandle(s) == candidates[s.form] # NoCandidate /\ candidates[s.form].life = s.life

\* PreserveOrAssignGenerationLocked keeps the generation.
SameRecord(s) ==
  /\ candidates[s.form] # NoCandidate
  /\ candidates[s.form].life = s.life /\ candidates[s.form].place = s.place

\* An event's sighting counts for whatever record there is; another one counts
\* for the record it was made of, when the reference is in sight or gone.
Counts(s) ==
  s.generation # 0 =>
    /\ s.status # "transient"
    /\ Current(s.form, s.generation) /\ candidates[s.form].life = s.life

Lost(S) == {s.form : s \in {x \in S : x.status = "gone" /\ candidates[x.form] # NoCandidate}}
Changed(S) == {s \in S : s.status # "gone" /\ ~SameRecord(s)}
Stale(S) == Lost(S) \cup {s.form : s \in Changed(S)}

\* Under g_candidateLock: the sightings that count are recorded.
Record(S) ==
  LET new == Changed(S)
      Of(f) == CHOOSE s \in new : s.form = f
  IN  /\ lastGeneration + Cardinality(new) <= MaxGeneration
      /\ lastGeneration' = lastGeneration + Cardinality(new)
      /\ \E number \in Bijection({s.form : s \in new}, 1 .. Cardinality(new)) :
           candidates' = [f \in Forms |->
             IF f \in Lost(S) THEN NoCandidate
             ELSE IF f \in DOMAIN number
             THEN [generation |-> lastGeneration + number[f],
                   life |-> Of(f).life, place |-> Of(f).place]
             ELSE candidates[f]]

\* InvalidateCandidate of the store and RestoreSuppression of the panes.
Revoke(F) ==
  /\ frames' = [f \in Forms |-> IF f \in F THEN NoFrame ELSE frames[f]]
  /\ hidden' = [f \in Forms |-> IF f \in F THEN 0 ELSE hidden[f]]
  /\ UNCHANGED kept

-----------------------------------------------------------------------------
(* The game *)

\* A reference moves, goes out of sight, comes back, or is deleted.
ReferenceChanges(f) ==
  /\ actual[f].status # "gone"
  /\ \E sight \in {<<"gone", NoBounds>>, <<"transient", NoBounds>>}
                  \cup ({"eligible"} \X (Poses \cup {Flat, NoBounds})) :
       actual' = [actual EXCEPT ![f] = [life |-> @.life, status |-> sight[1], place |-> sight[2]]]
  /\ UNCHANGED <<session, recognised, loadEpoch, loading, work, shown, pass>>

Replaced(F) ==
  /\ \A f \in F : actual[f].life < MaxLife
  /\ \E place \in [F -> Poses] :
       actual' = [f \in Forms |->
         IF f \in F THEN [life |-> actual[f].life + 1, status |-> "eligible", place |-> place[f]]
         ELSE actual[f]]

\* The form ID of a deleted reference is given to another.
FormReused(f) ==
  /\ actual[f].status = "gone" /\ Replaced({f})
  /\ UNCHANGED <<session, recognised, loadEpoch, loading, work, shown, pass>>

-----------------------------------------------------------------------------
(* Events, on any thread *)

Goes(t, w) == work' = [work EXCEPT ![t] = w]

Started(at, S) == [at |-> at, epoch |-> loadEpoch, session |-> session, seen |-> S,
                   then |-> "idle", owes |-> {}]

\* ObserveMatchingReference, for a reference that an event or a scan found.
Notices(t, f) ==
  /\ work[t] = Idle /\ ~Suspended /\ actual[f].status # "gone"
  /\ Goes(t, Started("noticed", {Sighting(f, actual[f].life, 0)}))
  /\ UNCHANGED <<actual, session, recognised, loadEpoch, loading, shown, pass>>

\* A reference that is only out of sight keeps the record it has.
Preserved(s) ==
  s.status = "transient" /\ candidates[s.form] # NoCandidate /\ candidates[s.form].life = s.life

\* The reference is read; one whose bounds have no thin axis is removed.
Reads(t) ==
  /\ work[t].at = "noticed"
  /\ \E s \in work[t].seen :
       LET now1 == Sighting(s.form, s.life, 0)
           seen == IF now1.place = Flat THEN [now1 EXCEPT !.status = "gone"] ELSE now1
       IN  Goes(t, IF Preserved(seen) THEN Idle
                   ELSE [work[t] EXCEPT !.at = "seen", !.seen = {seen},
                           !.then = IF seen.status = "gone" THEN "idle" ELSE "refresh"])
  /\ UNCHANGED <<actual, session, recognised, loadEpoch, loading, shown, pass>>

\* The 3D of a reference was unloaded, or its form deleted.
Unloads(t, f) ==
  /\ work[t] = Idle /\ ~Suspended
  /\ Goes(t, Started("seen", {[form |-> f, life |-> actual[f].life, generation |-> 0,
                               status |-> "gone", place |-> NoBounds]}))
  /\ UNCHANGED <<actual, session, recognised, loadEpoch, loading, shown, pass>>

\* RefreshViewCounters, by itself or after an event: every candidate is read.
Refreshes(t) ==
  /\ work[t].at \in {"idle", "refresh"} /\ (work[t] = Idle => ~Suspended)
  /\ Goes(t, IF Suspended THEN Idle
             ELSE Started("seen", {SightingOf(f) : f \in
                    {x \in Forms : candidates[x] # NoCandidate}}))
  /\ UNCHANGED <<actual, session, recognised, loadEpoch, loading, shown, pass>>

\* What is left to do once S was recorded.
Left(w, S) ==
  IF Stale(S) # {} THEN [w EXCEPT !.at = "owing", !.seen = {}, !.owes = Stale(S)]
  ELSE IF S # {} /\ w.then = "refresh" THEN [w EXCEPT !.at = "refresh", !.seen = {}]
  ELSE Idle

\* Mutant: a load that began and ended meanwhile goes unnoticed.
Unsuspended(w) == ~Suspended

\* What the commit asks of the load, under the lock.
SameLoad(w) == ~Suspended /\ w.epoch = loadEpoch

Commits(t) ==
  /\ work[t].at = "seen"
  /\ IF SameLoad(work[t])
     THEN LET S == {s \in work[t].seen : Counts(s)}
          IN  Record(S) /\ Goes(t, Left(work[t], S))
     ELSE Goes(t, Idle) /\ UNCHANGED recognised
  /\ UNCHANGED <<actual, session, loadEpoch, loading, shown, pass>>

\* A revocation withdraws the attempt of a capture under way.
Withdrawn(F) ==
  pass' = IF pass.at = "capturing" /\ pass.form \in F THEN [pass EXCEPT !.live = FALSE] ELSE pass

\* InvalidateCandidateMutationIfOwned leaves it to a load to revoke.
Revoked(w) == SameLoad(w)

\* RestoreSuppression waits for g_suppressionLock.
Revokes(t) ==
  /\ work[t].at = "owing" /\ pass.at # "hiding"
  /\ \E f \in work[t].owes :
       /\ IF Revoked(work[t]) THEN Revoke({f}) /\ Withdrawn({f}) ELSE UNCHANGED <<shown, pass>>
       /\ Goes(t, IF work[t].owes # {f} THEN [work[t] EXCEPT !.owes = @ \ {f}]
                  ELSE IF work[t].then = "refresh" THEN [work[t] EXCEPT !.at = "refresh", !.owes = {}]
                  ELSE Idle)
  /\ UNCHANGED <<actual, session, recognised, loadEpoch, loading>>

-----------------------------------------------------------------------------
(* The lookup of the render thread, TryGetMirror *)

Looking(use, f, generation, todo) ==
  [at |-> "looking", use |-> use, form |-> f, wanted |-> generation,
   seen |-> SightingOf(f), todo |-> todo, image |-> NoFrame, live |-> FALSE]

\* A lookup that fails ends a capture, and a delivery goes on to the next pane.
Failed == IF pass.use = "capture" THEN Idle ELSE [pass EXCEPT !.at = "next"]

\* The mirror is in sight, in its old record, and it is the one that was asked for.
IsWanted(s) == Counts(s) /\ s.place \in Poses /\ s.generation = pass.wanted

LookupRecords ==
  /\ pass.at = "looking"
  /\ LET S == {s \in {pass.seen} : Counts(s)}
     IN  /\ Record(S)
         /\ \/ pass' = IF Stale(S) # {} THEN [pass EXCEPT !.at = "owing"] ELSE Failed
            \/ Stale(S) = {} /\ IsWanted(pass.seen) /\ pass' = [pass EXCEPT !.at = "found"]
  /\ UNCHANGED <<actual, session, loadEpoch, loading, work, shown>>

LookupRevokes ==
  /\ pass.at = "owing"
  /\ Revoke({pass.form})
  /\ pass' = Failed
  /\ UNCHANGED <<actual, session, recognised, loadEpoch, loading, work>>

-----------------------------------------------------------------------------
(* A capture *)

\* The fence names a mirror that GetActiveMirrors found, as candidates are now.
CaptureSeeks(f) ==
  /\ pass = Idle /\ ~Suspended
  /\ candidates[f] # NoCandidate
  /\ pass' = Looking("capture", f, candidates[f].generation, {})
  /\ UNCHANGED <<actual, session, recognised, loadEpoch, loading, work, shown>>

\* BeginReflectedAttempt: a frame of another generation is dropped.
CaptureBegins ==
  /\ pass.at = "found" /\ pass.use = "capture"
  /\ pass' = [pass EXCEPT !.at = "capturing", !.live = TRUE]
  /\ frames' = IF frames[pass.form] # NoFrame /\ frames[pass.form].generation = pass.wanted
               THEN frames ELSE [frames EXCEPT ![pass.form] = NoFrame]
  /\ UNCHANGED <<actual, session, recognised, loadEpoch, loading, work, kept, hidden>>

Captured == [form |-> pass.form, generation |-> pass.wanted,
             life |-> pass.seen.life, place |-> pass.seen.place]

\* The attempt is published, or fails and keeps the frame or not.
CaptureEnds ==
  /\ pass.at = "capturing"
  /\ \/ pass.live /\ frames' = [frames EXCEPT ![pass.form] = Captured]
     \/ frames' = frames
     \/ frames' = [frames EXCEPT ![pass.form] = NoFrame]
  /\ pass' = Idle
  /\ UNCHANGED <<actual, session, recognised, loadEpoch, loading, work, kept, hidden>>

-----------------------------------------------------------------------------
(* A delivery *)

Published == {frames[f] : f \in Forms} \ {NoFrame}

Uncovered == hidden' = [f \in Forms |-> 0]

\* DeliverCurrentFrame: every pane is restored first; without a published frame
\* the last ones are drawn again, for a while.
DeliveryStarts ==
  /\ pass = Idle
  /\ Uncovered
  /\ \/ Published # {} /\ kept' = Published
     \/ Published = {} /\ kept' \in {kept, {}}
  /\ pass' = [at |-> "next", use |-> "delivery", todo |-> kept']
  /\ UNCHANGED <<actual, session, recognised, loadEpoch, loading, work, frames>>

\* DeliverSnapshot: no target, view or pair, or no such mirror.
DeliverySkips(picture) ==
  /\ pass.at = "next" /\ picture \in pass.todo
  /\ pass' = [pass EXCEPT !.todo = @ \ {picture}]
  /\ UNCHANGED <<actual, session, recognised, loadEpoch, loading, work, shown>>

DeliverySeeks(picture) ==
  /\ pass.at = "next" /\ picture \in pass.todo /\ ~Suspended
  /\ candidates[picture.form] # NoCandidate
  /\ pass' = [Looking("delivery", picture.form, picture.generation, pass.todo \ {picture})
                EXCEPT !.image = picture]
  /\ UNCHANGED <<actual, session, recognised, loadEpoch, loading, work, shown>>

\* RejectLocationContainment.
LocationRejects ==
  /\ pass.at = "found" /\ pass.use = "delivery"
  /\ Revoke({pass.form})
  /\ pass' = [pass EXCEPT !.at = "next"]
  /\ UNCHANGED <<actual, session, recognised, loadEpoch, loading, work>>

\* What RunWhileCandidateCurrent and IsCandidateCurrent ask of the record.
Ready(f, generation) == Current(f, generation) /\ candidates[f].place # NoBounds

\* Mutant: the record is not asked again.
InSight(f, generation) == TRUE

\* IsCandidateCurrent: and of the reference.
IsCandidateCurrent(f, generation) ==
  Ready(f, generation) /\ SightingOf(f).status = "eligible"

\* RunWhileCandidateCurrent draws under the lock; it looks the form up anew.
Draws ==
  /\ pass.at = "found" /\ pass.use = "delivery"
  /\ Ready(pass.form, pass.wanted) /\ actual[pass.form].status = "eligible"
  /\ pass' = [pass EXCEPT !.at = "drawn"]
  /\ UNCHANGED <<actual, session, recognised, loadEpoch, loading, work, shown>>

\* The candidate is no longer current, the pane is not found or not drawn, or
\* drawn in part: it stays or becomes visible.
NotHidden ==
  /\ pass.at = "drawn" \/ (pass.at = "found" /\ pass.use = "delivery")
  /\ hidden' = [hidden EXCEPT ![pass.form] = 0]
  /\ pass' = [pass EXCEPT !.at = "next"]
  /\ UNCHANGED <<actual, session, recognised, loadEpoch, loading, work, frames, kept>>

\* Suppress holds g_suppressionLock from here on.
HideChecks ==
  /\ pass.at = "drawn"
  /\ IsCandidateCurrent(pass.form, pass.wanted)
  /\ pass' = [pass EXCEPT !.at = "hiding"]
  /\ UNCHANGED <<actual, session, recognised, loadEpoch, loading, work, shown>>

Hides ==
  /\ pass.at = "hiding"
  /\ hidden' = [hidden EXCEPT ![pass.form] = pass.wanted]
  /\ pass' = [pass EXCEPT !.at = "next"]
  /\ UNCHANGED <<actual, session, recognised, loadEpoch, loading, work, frames, kept>>

DeliveryEnds ==
  /\ pass.at = "next" /\ pass.todo = {}
  /\ pass' = Idle
  /\ UNCHANGED <<actual, session, recognised, loadEpoch, loading, work, shown>>

-----------------------------------------------------------------------------
(* A load, on the render thread, between its passes *)

LoadGoes(from, to) == pass = Idle /\ loading = from /\ loading' = to

SuspendLoad ==
  /\ session < MaxSession /\ LoadGoes("no", "suspended")
  /\ UNCHANGED <<actual, session, recognised, loadEpoch, work, shown, pass>>

CountLoad ==
  /\ LoadGoes("suspended", "counted")
  /\ loadEpoch' = loadEpoch + 1
  /\ UNCHANGED <<actual, session, recognised, work, shown, pass>>

\* ClearCandidates.
ClearCandidates ==
  candidates' = [f \in Forms |-> NoCandidate] /\ UNCHANGED lastGeneration

ClearLoad ==
  /\ LoadGoes("counted", "cleared")
  /\ ClearCandidates
  /\ UNCHANGED <<actual, session, loadEpoch, work, shown, pass>>

\* The end of OnPreLoadGame.
RevokeLoad ==
  /\ LoadGoes("cleared", "revoked")
  /\ Revoke(Forms)
  /\ UNCHANGED <<actual, session, recognised, loadEpoch, work, pass>>

\* The game tears its world down and makes another.
WorldReplaced ==
  /\ LoadGoes("revoked", "replaced")
  /\ Replaced(Forms)
  /\ session' = session + 1
  /\ UNCHANGED <<recognised, loadEpoch, work, shown, pass>>

\* OnGameLoaded, of Recognition and of PaneDelivery.
GameLoaded ==
  /\ LoadGoes("replaced", "no")
  /\ ClearCandidates /\ Revoke(Forms)
  /\ UNCHANGED <<actual, session, loadEpoch, work, pass>>

\* A new game: OnGameLoaded alone, from the main menu, where nothing is loaded.
NewGame ==
  /\ session < MaxSession /\ LoadGoes("no", "no")
  /\ \A t \in Threads : work[t] = Idle
  /\ Replaced(Forms)
  /\ session' = session + 1
  /\ ClearCandidates /\ Revoke(Forms)
  /\ UNCHANGED <<loadEpoch, work, pass>>

RecognitionNext ==
  \/ \E f \in Forms : ReferenceChanges(f) \/ FormReused(f)
  \/ \E t \in Threads, f \in Forms : Notices(t, f) \/ Unloads(t, f)
  \/ \E t \in Threads : Reads(t) \/ Refreshes(t) \/ Commits(t) \/ Revokes(t)
  \/ LookupRecords \/ LookupRevokes
  \/ \E f \in Forms : CaptureSeeks(f)
  \/ CaptureBegins \/ CaptureEnds
  \/ DeliveryStarts \/ DeliveryEnds
  \/ \E picture \in (IF pass.at = "next" THEN pass.todo ELSE {}) :
       DeliverySkips(picture) \/ DeliverySeeks(picture)
  \/ LocationRejects \/ Draws \/ NotHidden \/ HideChecks \/ Hides
  \/ SuspendLoad \/ CountLoad \/ ClearLoad \/ RevokeLoad \/ WorldReplaced \/ GameLoaded
  \/ NewGame

RecognitionSpec == RecognitionInit /\ [][RecognitionNext]_recognitionVars

-----------------------------------------------------------------------------
\* An image is drawn over a mirror only where it was captured: it shows the
\* mirror in the pose that this delivery has just read and that any thread read
\* last, whatever moved, was reloaded or was kept from another load since.
DrawnAsSeen ==
  [][Draws =>
       /\ pass.image.place = pass.seen.place /\ pass.image.life = pass.seen.life
       /\ pass.image.place = candidates[pass.form].place
       /\ pass.image.life = candidates[pass.form].life]_recognitionVars

\* "If removal wins first, stale delivery cannot re-hide the pane; if suppression
\* wins first, invalidation restores it": a pane is hidden for the candidate there
\* is, or a thread that changed the candidate, or a load, has yet to restore it.
HiddenIsOwed ==
  \A f \in Forms : hidden[f] # 0 =>
    \/ Current(f, hidden[f])
    \/ \E t \in Threads : work[t].at = "owing" /\ f \in work[t].owes
    \/ pass.at = "owing" /\ pass.form = f
    \/ loading \in {"suspended", "counted", "cleared"}

\* An event that was noticed in one game changes no candidate of another.
OwnLoadOnly ==
  [][\A t \in Threads :
       work[t].at = "seen" /\ work'[t] # work[t] /\ recognised' # recognised =>
         work[t].session = session]_recognitionVars
=============================================================================
