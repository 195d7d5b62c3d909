----------------------------- MODULE Occlusion ------------------------------
(***************************************************************************)
(* Which standing mirrors need no capture because the scene hides them     *)
(* (src/src/MirrorOcclusionQueries.cpp, MirrorOcclusionRuntime.cpp,        *)
(* MirrorOcclusionPolicy.h).  In every frame each mirror's bounds are      *)
(* drawn against the finished depth under a GPU query; the answers come    *)
(* frames later, in any number per frame, and the fence of a later frame   *)
(* drops the captures of what is still known to be hidden.                 *)
(*                                                                         *)
(* Bounds and views are values that are the same (or nearby) or not; the   *)
(* half second after which an answer is too old is a choice of the fence.  *)
(* Switched off, the module does nothing, as if it were not called.        *)
(* "seen" is not in the code: it is what the GPU was asked, what is true   *)
(* of it, and whether it has answered.                                     *)
(***************************************************************************)
EXTENDS Integers, FiniteSets

CONSTANTS Panes,   \* form IDs of the mirrors
          Lives,   \* generations of a form
          Places,  \* bounds a mirror has
          Views,   \* main views, no two of them nearby
          QuerySlots, MaxAge, Bridge, \* kQuerySlots, kMaximumAgeFrames, and the 3 of RetainedImage
          NoEvidence, NoQueries,
          MaxWorldFrame, MaxWorlds \* bounds on the frames, and on the loads and incomplete selections

ASSUME OcclusionConstants ==
  /\ {QuerySlots, MaxAge, Bridge} \subseteq Nat \ {0}
  /\ NoEvidence \notin [frame : Nat, view : Views, place : Places,
                         hidden : BOOLEAN, valid : BOOLEAN]

VARIABLES
  queries,   \* state, with its Queries; NoQueries while there is none
  epoch,     \* epoch, which loads advance from another thread
  depthFault, \* faulted
  worldFrame, \* g_mainWorldFrame
  culls,     \* what the fence of the next frame took out of the demand
  seen

occlusionVars == <<queries, epoch, depthFault, worldFrame, culls, seen>>

OcclusionInit ==
  /\ queries = NoQueries
  /\ epoch = 1
  /\ depthFault = FALSE
  /\ worldFrame = 0
  /\ culls = {}
  /\ seen = {}

\* Queries of a new State: nothing filtered, nothing submitted.
NewQueries ==
  [epoch |-> epoch, frame |-> 0, submitted |-> 0, probes |-> << >>, entries |-> << >>]

NewEntry(life) ==
  [life |-> life, slots |-> [k \in 1 .. QuerySlots |-> NoEvidence],
   result |-> NoEvidence, lastCulled |-> 0]

\* A slot without a pending query is NoEvidence.
Pending(e) == {k \in 1 .. QuerySlots : e.slots[k] # NoEvidence}
FrameOf(evidence) == IF evidence = NoEvidence THEN 0 ELSE evidence.frame

IsCurrent ==
  /\ ~depthFault
  /\ queries # NoQueries
  /\ queries.epoch = epoch

-----------------------------------------------------------------------------
\* InvalidateEntry: a pending query still drains before its slot is free.
InvalidateEntry(e) ==
  [e EXCEPT !.result = NoEvidence, !.lastCulled = 0,
            !.slots = [k \in 1 .. QuerySlots |->
              IF k \in Pending(e) THEN [e.slots[k] EXCEPT !.valid = FALSE] ELSE NoEvidence]]

InvalidateEvidence(entries) == [p \in DOMAIN entries |-> InvalidateEntry(entries[p])]

\* Mutant: a mirror of another generation takes over the entry of its form.
ReconciledInPlace(entries, probes) ==
  [p \in DOMAIN probes |->
    IF p \in DOMAIN entries THEN [entries[p] EXCEPT !.life = probes[p].life]
    ELSE NewEntry(probes[p].life)]

ReconciledEntries(entries, probes) ==
  [p \in DOMAIN probes |->
    IF p \in DOMAIN entries /\ entries[p].life = probes[p].life THEN entries[p]
    ELSE NewEntry(probes[p].life)]

\* The queries of an entry that are answered when the GPU, which answers in the
\* order it was asked, is done with the frames up to n.
Answered(e, n) == {k \in Pending(e) : e.slots[k].frame <= n}
Progress(entries) ==
  {0} \cup UNION {{entries[p].slots[k].frame : k \in Pending(entries[p])} : p \in DOMAIN entries}

\* Mutant: the answer that is read last counts.
LastRead(e, n) ==
  LET usable == {k \in Answered(e, n) : e.slots[k].valid}
  IN IF usable = {} THEN e.result
     ELSE e.slots[CHOOSE k \in usable : \A j \in usable : j <= k]

\* The newest answer counts; one for a revoked ticket is thrown away.
NewestRead(e, n) ==
  LET answers == {e.result} \cup
                 {e.slots[k] : k \in {j \in Answered(e, n) : e.slots[j].valid}}
  IN CHOOSE r \in answers : \A a \in answers : FrameOf(a) <= FrameOf(r)

\* Poll.
Polled(entries, n) ==
  [p \in DOMAIN entries |->
    [entries[p] EXCEPT !.result = NewestRead(entries[p], n),
       !.slots = [k \in 1 .. QuerySlots |->
         IF k \in Answered(entries[p], n) THEN NoEvidence ELSE entries[p].slots[k]]]]

\* The observations, with those marked whose answers a Poll reads.
MarkRead(entries, n) ==
  LET answered == {o \in seen : o.pane \in DOMAIN entries /\
                     \E k \in Answered(entries[o.pane], n) :
                       entries[o.pane].slots[k].frame = o.frame}
  IN (seen \ answered) \cup {[o EXCEPT !.read = TRUE] : o \in answered}

\* Evidence::Occluded.
Occluded(evidence, place, view, frame) ==
  /\ evidence # NoEvidence
  /\ evidence.hidden
  /\ frame > evidence.frame /\ frame - evidence.frame <= MaxAge
  /\ evidence.place = place /\ evidence.view = view

-----------------------------------------------------------------------------
\* OnPreLoadGame, on its own thread, or a fence whose selection is incomplete.
InvalidateOcclusion ==
  /\ epoch < MaxWorlds
  /\ epoch' = epoch + 1
  /\ UNCHANGED <<queries, depthFault, worldFrame, culls, seen>>

\* The main world of the next frame begins.
EnterMainWorld ==
  /\ worldFrame < MaxWorldFrame
  /\ worldFrame' = worldFrame + 1
  /\ seen' = {o \in seen : worldFrame + 1 - o.frame < MaxAge + Bridge}
  /\ culls' = {}
  /\ UNCHANGED <<queries, epoch, depthFault>>

\* An exception in either entry point, or a query that fails: the optimisation is
\* off for good, and what it keeps, forgotten here, is never read again.
Fail ==
  /\ ~depthFault
  /\ depthFault' = TRUE
  /\ queries' = NoQueries
  /\ seen' = {}
  /\ UNCHANGED <<epoch, worldFrame, culls>>

FilteredQueries == IF queries = NoQueries \/ queries.epoch # epoch THEN NewQueries ELSE queries

\* FilterCaptureDemand at the fence, once per upcoming frame: the entries are
\* reconciled with the mirrors in sight and polled (with another device context
\* all evidence goes), and what is hidden and not too old in time is not captured.
FilterCaptureDemand(probes, view, sameContext) ==
  LET q == FilteredQueries
      frame == worldFrame + 1
      entries == ReconciledEntries(q.entries, probes)
  IN  /\ ~depthFault
      /\ frame # q.frame
      /\ \E n \in Progress(entries), timely \in SUBSET DOMAIN probes :
           LET polled == IF sameContext THEN Polled(entries, n) ELSE InvalidateEvidence(entries)
           IN  /\ \A p \in timely : Occluded(polled[p].result, probes[p].place, view, frame)
               /\ queries' = [q EXCEPT !.frame = frame, !.probes = probes,
                    !.entries = [p \in DOMAIN probes |->
                      IF p \in timely THEN [polled[p] EXCEPT !.lastCulled = frame] ELSE polled[p]]]
               /\ culls' = {[pane |-> p, life |-> probes[p].life, view |-> view,
                             place |-> probes[p].place, frame |-> frame] : p \in timely}
               /\ seen' = IF sameContext THEN MarkRead(entries, n) ELSE seen
      /\ UNCHANGED <<epoch, depthFault, worldFrame>>

-----------------------------------------------------------------------------
Observes == IsCurrent /\ queries.probes # << >> /\ worldFrame # queries.submitted

\* ObserveOpaqueMainDepth with a view that is not this frame's world view, and
\* Submit where the depth target is refused.
ObserveRejected ==
  /\ Observes
  /\ \E submitted \in {queries.submitted} \cup
                      (IF worldFrame = queries.frame THEN {worldFrame} ELSE {}) :
       queries' = [queries EXCEPT !.submitted = submitted,
                     !.entries = InvalidateEvidence(queries.entries)]
  /\ UNCHANGED <<epoch, depthFault, worldFrame, culls, seen>>

FreeSlots(e) == (1 .. QuerySlots) \ Pending(e)

\* What becomes of a probe: nothing can be known (its projection is invalid or its
\* query cannot be created), it is off the screen, or it is drawn.
Outcomes == {"unknown", "outside", "hidden", "visible"}

\* One probe of Submit; one that finds every slot pending is not drawn.
Probed(e, outcome, ticket) ==
  CASE outcome = "unknown" -> InvalidateEntry(e)
    [] outcome = "outside" -> [e EXCEPT !.result = ticket]
    [] OTHER -> IF FreeSlots(e) = {} THEN e
                ELSE [e EXCEPT !.slots[CHOOSE k \in FreeSlots(e) :
                                         \A j \in FreeSlots(e) : k <= j] = ticket]

\* Submit: the queries of a new depth target start from nothing; they are polled;
\* every probe is asked about; if the drawing fails, all evidence goes and the
\* queries may be pending.
Submit(view, sameDepth, drawn) ==
  LET frame == worldFrame
      kept == IF sameDepth THEN queries.entries
              ELSE [p \in DOMAIN queries.entries |-> NewEntry(queries.entries[p].life)]
      Ticket(p, hidden) == [frame |-> frame, view |-> view, place |-> queries.probes[p].place,
                            hidden |-> hidden, valid |-> TRUE]
  IN  /\ Observes
      /\ frame = queries.frame
      /\ \E n \in Progress(kept), outcome \in [DOMAIN kept -> Outcomes] :
           LET polled == Polled(kept, n)
               probed == [p \in DOMAIN kept |->
                 Probed(polled[p], outcome[p], Ticket(p, outcome[p] # "visible"))]
               asked == {p \in DOMAIN kept :
                 outcome[p] \in {"unknown", "outside"} \/ FreeSlots(polled[p]) # {}}
           IN  /\ queries' = [queries EXCEPT !.submitted = frame,
                    !.entries = IF drawn THEN probed ELSE InvalidateEvidence(probed)]
               /\ seen' = MarkRead(kept, n) \cup
                    {[pane |-> p, life |-> kept[p].life, place |-> queries.probes[p].place,
                      view |-> view, frame |-> frame, epoch |-> epoch,
                      hidden |-> outcome[p] \in {"outside", "hidden"},
                      read |-> outcome[p] \in {"unknown", "outside"}] : p \in asked}
      /\ UNCHANGED <<epoch, depthFault, worldFrame, culls>>

Probes == UNION {[panes -> [life : Lives, place : Places]] : panes \in SUBSET Panes}

OcclusionNext ==
  \/ InvalidateOcclusion \/ EnterMainWorld \/ Fail \/ ObserveRejected
  \/ \E probes \in Probes, view \in Views, sameContext \in BOOLEAN :
       FilterCaptureDemand(probes, view, sameContext)
  \/ \E view \in Views, sameDepth, drawn \in BOOLEAN : Submit(view, sameDepth, drawn)

OcclusionSpec == OcclusionInit /\ [][OcclusionNext]_occlusionVars

\* AllowRetainedImage.
AllowRetainedImage(p, life) ==
  /\ IsCurrent
  /\ p \in DOMAIN queries.entries
  /\ LET e == queries.entries[p]
     IN  /\ e.life = life
         /\ e.lastCulled # 0 /\ worldFrame >= e.lastCulled
         /\ worldFrame - e.lastCulled < Bridge

-----------------------------------------------------------------------------
\* A capture is dropped only for a mirror of which the newest answer there is,
\* at most MaxAge frames old and of this world, is that it was hidden, in the same life,
\* in the same place and from the same view.
CulledWasHidden ==
  [][\A c \in culls' \ culls : \E o \in seen' :
       /\ o.hidden /\ o.epoch = epoch
       /\ o.pane = c.pane /\ o.life = c.life /\ o.place = c.place /\ o.view = c.view
       /\ o.frame < c.frame /\ c.frame - o.frame <= MaxAge
       /\ \A p \in seen' : p.pane = c.pane /\ p.read /\ p.frame > o.frame =>
            p.hidden]_occlusionVars

\* An image that is older than its lease is shown over a mirror, on the word of
\* the queries, only when that mirror, in that life and world, was hidden less than
\* MaxAge + Bridge frames ago.
RetainedWasHidden ==
  \A p \in Panes, life \in Lives : AllowRetainedImage(p, life) =>
    \E o \in seen : /\ o.hidden /\ o.epoch = epoch
                    /\ o.pane = p /\ o.life = life
                    /\ worldFrame - o.frame < MaxAge + Bridge
=============================================================================
