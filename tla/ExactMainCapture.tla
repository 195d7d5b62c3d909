-------------------------- MODULE ExactMainCapture --------------------------
(***************************************************************************)
(* One main-world invocation after another on the render thread            *)
(* (src/src/SecondView.cpp): the scene-list fence reserves captures with   *)
(* the opportunity coordinator (src/src/PlanarCaptureOpportunityPolicy.h), *)
(* the finalised culling begins a scene list borrow, and when the main     *)
(* world returns the deferred captures consume their tickets and replay    *)
(* the borrowed lists one after the other.                                 *)
(*                                                                         *)
(* The engine may unwind out of an invocation, or reach the main world     *)
(* without the fence.  Other threads may run the culling hook and may      *)
(* attach or detach mirrors between any two steps.                         *)
(*                                                                         *)
(* Entry 0 is the single-capture mode's coordinator and ticket, entries    *)
(* 1, 2, ... are those of the every-frame batch.                           *)
(***************************************************************************)
EXTENDS SceneListBorrow

CONSTANTS Mirrors,     \* identities: a form and its candidate generation
          Places,
          MaxPlan,     \* captures a batch may plan
          MaxSource,   \* bound: main-world source sequences
          NoTicket

ASSUME ExactMainConstants ==
  /\ IsFiniteSet(Entries) /\ Entries # {}
  /\ MaxPlan \in Nat \ {0} /\ MaxSource \in Nat
  /\ NoTicket \notin Mirrors
  /\ NoTicket \notin [source : 1 .. MaxSource, mirror : Mirrors, place : Places]

VARIABLES
  borrow,    \* the scene list borrow
  multi,     \* g_multiMirrorEveryFrameEnabled
  source,    \* g_mainWorldInvocationSourceSequence, 0 between invocations
  last,      \* the latest sequence MirrorSourceEpoch gave out
  coord,     \* the coordinator of each entry
  tickets,   \* g_pendingExactMirrorCapture, batch.mirrors
  hands,     \* g_pendingExactHandCapture, batch.hands: their source, or 0
  batch,     \* source, plan.count, prepared and consumed
  stage,     \* how far the invocation is
  index,     \* the entry of the running capture
  job,       \* the ticket it renders
  present,   \* mirrors Recognition finds eligible
  place,     \* the player's location
  suspended, \* g_loadTransitionSuspended
  viewFault, \* g_faulted of SecondView
  fenced,    \* history: tickets this source's fence reserved
  proof,     \* history: whose replay of this capture completed cleanly
  dirty,     \* history: a replay of this borrow has not been cleaned up
  published  \* history: the latest publication, its source and its proof

vars == <<borrow, multi, source, last, coord, tickets, hands, batch, stage, index,
          job, present, place, suspended, viewFault, fenced, proof, dirty, published>>
world == <<present, place>>
schedule == <<coord, tickets, hands, batch>>

Sources == 0 .. MaxSource
Indices == 0 .. MaxPlan
Tickets == [source : Sources, mirror : Mirrors, place : Places]

-----------------------------------------------------------------------------
\* PlanarCaptureOpportunityPolicy::Coordinator.
NewCoordinator ==
  [source |-> 0, observed |-> FALSE, handled |-> FALSE, spent |-> FALSE,
   mirror |-> NoTicket]

\* PlanFence with a mirror to reserve, or with NoTicket for no channel.
PlanFence(c, s, m) ==
  IF s = 0 THEN NewCoordinator
  ELSE IF c.observed /\ c.source = s THEN c
  ELSE [NewCoordinator EXCEPT !.source = s, !.observed = TRUE, !.mirror = m]

\* Whether ResolveDeferred decides to render.
Resolves(c, s, borrowActive) ==
  /\ c.observed /\ ~c.handled
  /\ s # 0 /\ c.source = s
  /\ c.mirror # NoTicket /\ borrowActive /\ ~c.spent

\* What it leaves behind.
ResolveDeferred(c, s, borrowActive) ==
  IF ~c.observed \/ c.handled THEN c
  ELSE [c EXCEPT !.handled = TRUE, !.mirror = NoTicket,
                 !.spent = @ \/ Resolves(c, s, borrowActive)]

-----------------------------------------------------------------------------
NoBatch == [source |-> 0, count |-> 0, prepared |-> FALSE, consumed |-> FALSE]
Cleared == [i \in Indices |-> NoTicket]
NoHands == [i \in Indices |-> 0]

Init ==
  /\ borrow = InitialBorrow
  /\ multi \in BOOLEAN
  /\ source = 0 /\ last = 0
  /\ coord = [i \in Indices |-> NewCoordinator]
  /\ tickets = Cleared /\ hands = NoHands /\ batch = NoBatch
  /\ stage = "idle" /\ index = 0 /\ job = NoTicket
  /\ present = Mirrors /\ place \in Places
  /\ suspended = FALSE /\ viewFault = FALSE
  /\ fenced = {} /\ proof = NoTicket /\ dirty = FALSE
  /\ published = [ticket |-> NoTicket, source |-> 0, proof |-> NoTicket]

\* How RunSecondView leaves an entry at the fence: before arbitration, with no
\* channel, with the hand, with a mirror, or with a mirror that has no location.
Outcome == [kind : {"early", "none", "hand"}, mirror : {NoTicket}]
      \cup [kind : {"mirror", "unplaced"}, mirror : Mirrors]

\* A pass returns early after a fault; no mirror is eligible without the borrow,
\* nor one Recognition does not find; the batch plans a mirror once.
Feasible(o) ==
  /\ ~borrow.enabled \/ viewFault => \A i \in DOMAIN o : o[i].mirror = NoTicket
  /\ viewFault => \A i \in DOMAIN o : o[i].kind = "early"
  /\ \A i \in DOMAIN o : o[i].mirror # NoTicket => o[i].mirror \in present
  /\ \A i, j \in DOMAIN o : i < j =>
       /\ o[i].kind # "hand"
       /\ o[i].mirror # NoTicket => o[i].mirror # o[j].mirror

Fenced(c, s, o) ==
  IF o.kind = "early" THEN c ELSE PlanFence(c, s, o.mirror)

Reserved(s, o) ==
  IF o.kind = "mirror" THEN [source |-> s, mirror |-> o.mirror, place |-> place]
  ELSE NoTicket

\* The fence hook gives the invocation its source, retires the ticket of one that
\* never reached its main world, and runs the capture opportunity.  In single
\* mode an early return still closes the source's fence.
FenceSingle(o) ==
  /\ stage = "idle" /\ last < MaxSource /\ ~multi /\ ~suspended
  /\ Feasible([i \in {0} |-> o])
  /\ LET s == last + 1
         close == [o EXCEPT !.kind = IF @ = "early" THEN "none" ELSE @]
     IN /\ last' = s /\ source' = s
        /\ coord' = [coord EXCEPT ![0] = Fenced(@, s, close)]
        /\ tickets' = [tickets EXCEPT ![0] = Reserved(s, o)]
        /\ hands' = [hands EXCEPT ![0] = IF o.kind = "hand" THEN s ELSE 0]
        /\ fenced' = {Reserved(s, o)} \ {NoTicket}
  /\ stage' = "fenced"
  /\ UNCHANGED <<borrow, multi, batch, index, job, world, suspended, viewFault,
                 proof, dirty, published>>

\* The batch: the first evaluation prepares the plan, each entry is then fenced.
FenceBatch(n, o) ==
  /\ stage = "idle" /\ last < MaxSource /\ multi /\ ~suspended
  /\ Feasible(o)
  /\ LET s == last + 1
     IN /\ last' = s /\ source' = s
        /\ coord' = [i \in Indices |->
             IF i \in 1 .. n THEN Fenced(NewCoordinator, s, o[i])
             ELSE IF i = 0 THEN coord[0] ELSE NewCoordinator]
        /\ tickets' = [i \in Indices |->
             IF i \in 1 .. n THEN Reserved(s, o[i]) ELSE NoTicket]
        /\ hands' = [i \in Indices |->
             IF i \in 1 .. n /\ o[i].kind = "hand" THEN s ELSE 0]
        /\ batch' = [source |-> s, count |-> n, prepared |-> n > 0, consumed |-> FALSE]
        /\ fenced' = {Reserved(s, o[i]) : i \in 1 .. n} \ {NoTicket}
  /\ stage' = "fenced"
  /\ UNCHANGED <<borrow, multi, index, job, world, suspended, viewFault,
                 proof, dirty, published>>

\* While a load is on its way the fence reserves nothing.
FenceSuspended ==
  /\ stage = "idle" /\ last < MaxSource /\ suspended
  /\ last' = last + 1 /\ source' = last'
  /\ tickets' = [tickets EXCEPT ![0] = NoTicket]
  /\ hands' = [hands EXCEPT ![0] = 0]
  /\ fenced' = {}
  /\ stage' = "fenced"
  /\ UNCHANGED <<borrow, multi, coord, batch, index, job, world, suspended,
                 viewFault, proof, dirty, published>>

\* The engine reaches the main world without the fence.
Unfenced ==
  /\ stage = "idle" /\ last < MaxSource
  /\ last' = last + 1 /\ source' = last'
  /\ fenced' = {}
  /\ stage' = "fenced"
  /\ UNCHANGED <<borrow, multi, schedule, index, job, world, suspended, viewFault,
                 proof, dirty, published>>

-----------------------------------------------------------------------------
\* The engine finalises culling: the borrow begins.
FinalizeMainCulling(committed, uncertain, bad, stuck) ==
  /\ stage = "fenced"
  /\ borrow' = BeginBorrow(borrow, committed, uncertain, bad, stuck)
  /\ dirty' = (dirty /\ borrow.active)
  /\ stage' = "culled"
  /\ UNCHANGED <<multi, source, last, schedule, index, job, world, suspended,
                 viewFault, fenced, proof, published>>

\* The native main world unwinds: only the source is cleared.
MainWorldUnwinds ==
  /\ stage = "culled"
  /\ stage' = "idle" /\ source' = 0
  /\ UNCHANGED <<borrow, multi, last, schedule, index, job, world, suspended,
                 viewFault, fenced, proof, dirty, published>>

\* The invocation is over.
Return ==
  /\ stage' = "idle" /\ source' = 0 /\ index' = 0 /\ job' = NoTicket
  /\ proof' = NoTicket
  /\ UNCHANGED <<multi, last, world, suspended, viewFault, fenced, dirty, published>>

\* RunDeferredCapture without a borrow to run.
MainWorldReturnsUnborrowed(bad, stuck) ==
  /\ stage = "culled"
  /\ ~borrow.active \/ ~borrow.enabled
  /\ borrow' = IF borrow.active THEN EndBorrow(borrow, bad, stuck) ELSE borrow
  /\ UNCHANGED schedule
  /\ Return

\* RunDeferredCapture runs the callback; a batch only for its own source.
BatchRuns ==
  batch.prepared /\ ~batch.consumed /\ batch.source # 0 /\ batch.source = source

MainWorldReturns ==
  /\ stage = "culled"
  /\ borrow.active /\ borrow.enabled
  /\ stage' = "next"
  /\ \/ ~multi /\ index' = 0 /\ batch' = batch
     \/ multi /\ BatchRuns /\ index' = 1 /\ batch' = [batch EXCEPT !.consumed = TRUE]
     \/ multi /\ ~BatchRuns /\ index' = MaxPlan + 1 /\ batch' = batch
  /\ UNCHANGED <<borrow, multi, source, last, coord, tickets, hands, job, world,
                 suspended, viewFault, fenced, proof, dirty, published>>

-----------------------------------------------------------------------------
\* The next entry, unless the batch is interrupted.
EntryReady ==
  /\ stage = "next"
  /\ IF multi
     THEN /\ index <= batch.count
          /\ ~suspended /\ ~viewFault /\ ~borrow.faulted /\ Active(borrow)
     ELSE index = 0

Ticket == tickets[index]
Rearms == multi /\ Ticket # NoTicket
Armed == IF Rearms THEN Rearm(borrow) ELSE borrow

\* The coordinator decides to render and the ticket is its reservation.
Decided ==
  /\ hands[index] = 0 /\ ~suspended
  /\ Resolves(coord[index], source, Active(Armed))
  /\ Ticket # NoTicket
  /\ Ticket.source = source
  /\ Ticket.mirror = coord[index].mirror

\* Mutant: the player's place is not compared with the ticket's.
EligibleAnywhere ==
  ~viewFault /\ Active(Armed) /\ Ticket.mirror \in present

Eligible ==
  /\ ~viewFault /\ Active(Armed)
  /\ Ticket.mirror \in present
  /\ Ticket.place = place

ConsumeEntry ==
  /\ tickets' = [tickets EXCEPT ![index] = NoTicket]
  /\ hands' = [hands EXCEPT ![index] = 0]
  /\ coord' = IF suspended THEN coord
              ELSE [coord EXCEPT ![index] = ResolveDeferred(@, source, Active(Armed))]
  /\ UNCHANGED batch

\* A replay of this batch was not cleaned up, or the lists do not revalidate:
\* the borrow and the second view are failed.
EntryUnarmed ==
  /\ EntryReady /\ Rearms
  /\ ~CanRearm(borrow, batch.count) \/ borrow.consumed
  /\ borrow' = FailCurrentBorrow(borrow, {}, {})
  /\ viewFault' = TRUE
  /\ tickets' = [tickets EXCEPT ![index] = NoTicket]
  /\ index' = MaxPlan + 1
  /\ UNCHANGED <<multi, source, last, coord, hands, batch, stage, job, world,
                 suspended, fenced, proof, dirty, published>>

\* The entry is cleaned up without a replay: a hand capture, no matching ticket,
\* or a mirror that is not eligible any more.
EntrySkipped ==
  /\ EntryReady
  /\ Rearms => CanRearm(borrow, batch.count)
  /\ borrow' = Armed
  /\ viewFault' = (viewFault \/ (Decided /\ borrow.faulted))
  /\ ConsumeEntry
  /\ index' = index + 1
  /\ UNCHANGED <<multi, source, last, stage, job, world, suspended, fenced, proof,
                 dirty, published>>

\* The pass acquires the borrowed lists for its mirror.
EntryAcquires ==
  /\ EntryReady
  /\ Rearms => CanRearm(borrow, batch.count)
  /\ Decided /\ Eligible
  /\ borrow' = Acquire(Armed)
  /\ job' = Ticket
  /\ fenced' = fenced \ {Ticket}
  /\ proof' = NoTicket
  /\ dirty' = TRUE
  /\ ConsumeEntry
  /\ stage' = "acquired"
  /\ UNCHANGED <<multi, source, last, index, world, suspended, viewFault, published>>

-----------------------------------------------------------------------------
NextEntry ==
  /\ stage' = "next" /\ index' = index + 1 /\ job' = NoTicket

untouched == <<multi, source, last, schedule, world, suspended, viewFault, fenced>>

\* No list to replay, or no storage for the roster; later a reflected camera
\* that got no upload: nothing was drawn and the borrow is given back.
Abandons(current, bad, stuck) ==
  /\ stage \in {"acquired", "replaying"}
  /\ borrow' = AbandonReplay(borrow, current, bad, stuck)
  /\ dirty' = ~(current /\ borrow.derived \cap bad = {})
  /\ NextEntry
  /\ UNCHANGED <<untouched, proof, published>>

\* The coverage plan, the player's coverage or the actor roster fails.
PreparationFails ==
  /\ stage = "acquired"
  /\ borrow' = FailCurrentBorrow(borrow, {}, {})
  /\ NextEntry
  /\ UNCHANGED <<untouched, proof, dirty, published>>

ReplaysPlain ==
  /\ stage = "acquired"
  /\ stage' = "replaying"
  /\ UNCHANGED <<borrow, index, job, untouched, proof, dirty, published>>

ReplaysDerived(covered) ==
  /\ stage = "acquired"
  /\ borrow' = BuildDerived(borrow, covered)
  /\ stage' = "replaying"
  /\ UNCHANGED <<index, job, untouched, proof, dirty, published>>

DerivedFails(committed, uncertain, bad, stuck) ==
  /\ stage = "acquired"
  /\ borrow' = BuildDerivedFails(borrow, committed, uncertain, bad, stuck)
  /\ NextEntry
  /\ UNCHANGED <<untouched, proof, dirty, published>>

\* The native replay is over, proven or not.
Completes(proven, bad, stuck) ==
  /\ stage = "replaying"
  /\ borrow' = CompleteReplay(borrow, proven, bad, stuck)
  /\ dirty' = ~(proven /\ borrow.derived \cap bad = {})
  /\ proof' = IF proven THEN job ELSE NoTicket
  /\ IF borrow'.ready THEN stage' = "rendered" /\ UNCHANGED <<index, job>> ELSE NextEntry
  /\ UNCHANGED <<untouched, published>>

Publishes ==
  /\ stage = "rendered" /\ PublicationReady(borrow)
  /\ published' = [ticket |-> job, source |-> source, proof |-> proof]
  /\ NextEntry
  /\ UNCHANGED <<borrow, untouched, proof, dirty>>

DoesNotPublish ==
  /\ stage = "rendered"
  /\ NextEntry
  /\ UNCHANGED <<borrow, untouched, proof, dirty, published>>

-----------------------------------------------------------------------------
\* The captures are over and the borrow ends; a batch drops what it left.
CapturesEnd(bad, stuck) ==
  /\ stage = "next" /\ ~EntryReady
  /\ borrow' = EndBorrow(borrow, bad, stuck)
  /\ UNCHANGED schedule
  /\ Return

\* A fault leaves the callback: the filter latches, the borrow ends.
CallbackFaults(bad, stuck) ==
  /\ stage \in {"next", "acquired", "replaying", "rendered"}
  /\ borrow' = EndBorrow(LatchFault(borrow), bad, stuck)
  /\ UNCHANGED schedule
  /\ Return

-----------------------------------------------------------------------------
\* The culling hook on another thread.
OtherThreadFinalizes ==
  /\ borrow.enabled /\ borrow.threadKnown
  /\ borrow' = LatchElsewhere(borrow)
  /\ UNCHANGED <<multi, source, last, schedule, stage, index, job, world, suspended,
                 viewFault, fenced, proof, dirty, published>>

\* Recognition attaches or detaches a mirror; the player changes place.
WorldChanges ==
  /\ \/ \E m \in Mirrors : present' = (present \ {m}) \cup ({m} \ present)
        /\ place' = place
     \/ place' \in Places \ {place} /\ present' = present
  /\ UNCHANGED <<borrow, multi, source, last, schedule, stage, index, job, suspended,
                 viewFault, fenced, proof, dirty, published>>

ResetSchedule ==
  /\ coord' = [i \in Indices |-> NewCoordinator]
  /\ tickets' = Cleared /\ hands' = NoHands /\ batch' = NoBatch

\* OnPreLoadGame and OnGameLoaded, between invocations.
LoadTransition ==
  /\ stage = "idle"
  /\ suspended' = ~suspended
  /\ ResetSchedule
  /\ UNCHANGED <<borrow, multi, source, last, stage, index, job, world, viewFault,
                 fenced, proof, dirty, published>>

\* OnProductActivationCommitted.
ProductCommitted(on) ==
  /\ stage = "idle"
  /\ borrow' = SetEnabled(borrow, on)
  /\ ResetSchedule
  /\ UNCHANGED <<multi, source, last, stage, index, job, world, suspended, viewFault,
                 fenced, proof, dirty, published>>

Fence ==
  \/ \E o \in Outcome : FenceSingle(o)
  \/ \E n \in 0 .. MaxPlan : \E o \in [1 .. n -> Outcome] : FenceBatch(n, o)
  \/ FenceSuspended
  \/ Unfenced

Releasing(bad, stuck) ==
  \/ \E committed \in SUBSET Entries :
       \E uncertain \in {{}} \cup {{e} : e \in Entries \ committed} :
         \/ FinalizeMainCulling(committed, uncertain, bad, stuck)
         \/ DerivedFails(committed, uncertain, bad, stuck)
  \/ MainWorldReturnsUnborrowed(bad, stuck)
  \/ \E ok \in BOOLEAN : Abandons(ok, bad, stuck) \/ Completes(ok, bad, stuck)
  \/ CapturesEnd(bad, stuck)
  \/ CallbackFaults(bad, stuck)

Next ==
  \/ Fence \/ MainWorldUnwinds \/ MainWorldReturns
  \/ EntryUnarmed \/ EntrySkipped \/ EntryAcquires
  \/ \E bad \in SUBSET Entries : \E stuck \in SUBSET bad : Releasing(bad, stuck)
  \/ PreparationFails \/ ReplaysPlain
  \/ \E covered \in SUBSET Entries : ReplaysDerived(covered)
  \/ Publishes \/ DoesNotPublish
  \/ OtherThreadFinalizes \/ WorldChanges \/ LoadTransition
  \/ \E on \in BOOLEAN : ProductCommitted(on)

Spec == Init /\ [][Next]_vars

-----------------------------------------------------------------------------
Typed ==
  /\ borrow \in Borrows
  /\ coord \in [Indices -> [source : Sources, observed : BOOLEAN, handled : BOOLEAN,
                            spent : BOOLEAN, mirror : Mirrors \cup {NoTicket}]]
  /\ tickets \in [Indices -> Tickets \cup {NoTicket}]
  /\ job \in Tickets \cup {NoTicket}
  /\ stage \in {"idle", "fenced", "culled", "next", "acquired", "replaying", "rendered"}

\* Every native reference the module holds is in exactly one slot or was lost to
\* a fault; a slot is owned by an open borrow, a filtered copy lives only while
\* its replay runs, and a lost reference has quarantined the module.
ReferencesAccounted ==
  /\ \A e \in Entries : borrow.refs[e] =
       Count(e, borrow.kept) + Count(e, borrow.derived) + borrow.leaked[e]
  /\ borrow.kept # {} => borrow.active
  /\ borrow.derived # {} => stage = "replaying" /\ borrow.derivedActive
  /\ (\E e \in Entries : borrow.leaked[e] > 0) => borrow.faulted

\* A replay renders a ticket this source's own fence reserved, each at most once,
\* where the fence saw the player, whatever invocations were cut short before;
\* and what is published is this source's capture, replayed to its end.
ReplaysOwnTicketOnce ==
  [][/\ stage' = "acquired" /\ stage # "acquired" =>
          job' \in fenced /\ job'.source = source /\ job'.place = place
     /\ published' # published =>
          published'.ticket = published'.proof /\ published'.ticket.source = source]_vars

\* No native replay starts over renderer state an earlier one left uncertain.
ReplaysOverCleanState ==
  [][stage' = "acquired" /\ stage # "acquired" => ~dirty /\ ~borrow.faulted]_vars
=============================================================================
