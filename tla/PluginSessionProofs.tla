-------------------------- MODULE PluginSessionProofs -------------------------
(***************************************************************************)
(* The safety of a session of the plugin: of its activation, of the        *)
(* placement of mirrors by the player and of what other authors declare,   *)
(* each with the invariant that carries it, and with what                  *)
(* CaptureScopesProofs shows of the engine state, of the whole session.    *)
(* None of the properties is inductive by itself.                          *)
(***************************************************************************)
EXTENDS PluginSession, CaptureScopesProofs, FiniteSetTheorems, TLAPS

-----------------------------------------------------------------------------
(* Activation: NoSelfConflict needs that nothing runs beside an attempt of the *)
(* main thread (Alone), and that none starts before the product is prepared    *)
(* (Early).                                                                    *)

ActivationTyped ==
  /\ stage \in Stages
  /\ prepared \in {"none", "supported", "unsupported", "conflicted"}
  /\ committed \in {"none", "active", "inactive", "conflicted"}
  /\ phase \in {"PostLoad", "InputLoaded", "DataLoaded", "Playing"}
  /\ call \in [Threads -> Calls]
  /\ sources \in {{Main}, Events}

\* Before kInputLoaded nothing is prepared or queued, and no attempt runs.
Early ==
  phase = "PostLoad" =>
    /\ stage = "Cold" /\ committed = "none" /\ ~task
    /\ \A t \in Threads : call[t] = "none"

\* With the events on the main thread, an attempt past its checks has the
\* lifecycle to itself.
Alone ==
  sources = {Main} =>
    /\ \A t \in Threads : t # Main => call[t] = "none"
    /\ call[Main] \in {"build", "commit"} => stage = "Prepared"

ActivationInv == ActivationTyped /\ Early /\ StageTells /\ Alone /\ NoSelfConflict

\* A step of an attempt moves its own thread only.
LEMMA AtFact ==
  ASSUME NEW t \in Threads, NEW where \in Calls, call \in [Threads -> Calls], MovesTo(t, where)
  PROVE  /\ call' \in [Threads -> Calls]
         /\ call'[t] = where
         /\ \A u \in Threads : u # t => call'[u] = call[u]
  BY DEF MovesTo

LEMMA MainIsThread == Main \in Threads
  BY DEF Threads

LEMMA ActivationStarts == ActivationInit => ActivationInv
  BY MainIsThread DEF ActivationInit, ActivationInv, ActivationTyped, Early, StageTells, Alone, NoSelfConflict, Stages, Calls

\* The SKSE messages come while the main thread runs no attempt.
LEMMA MessagesKeep ==
  ASSUME ActivationInv, Messages
  PROVE  ActivationInv'
<1> USE MainIsThread DEF ActivationInv, ActivationTyped, Early, StageTells, Alone, NoSelfConflict, Stages
<1>1. CASE \E runtime \in {"supported", "unsupported"} : InputLoaded(runtime)
  BY <1>1 DEF InputLoaded, Prepare
<1>2. CASE InputLoadedOutOfMemory
  BY <1>2 DEF InputLoadedOutOfMemory
<1>3. CASE RunDataLoaded
  <2>1. "try" \in Calls /\ MovesTo(Main, "try")
    BY <1>3 DEF RunDataLoaded, Calls
  <2> QED
    BY <1>3, <2>1, AtFact DEF RunDataLoaded, lifecycle
<1>4. CASE RegisterSink
  BY <1>4 DEF RegisterSink, lifecycle
<1>5. Retry(Main) => UNCHANGED call \/ MovesTo(Main, "try")
  BY DEF Retry
<1>6. MovesTo(Main, "try") => /\ call' \in [Threads -> Calls] /\ call'[Main] = "try"
                        /\ \A u \in Threads : u # Main => call'[u] = call[u]
  <2>1. "try" \in Calls
    BY DEF Calls
  <2> QED
    BY <2>1, AtFact
<1>7. CASE GameLoaded
  BY <1>5, <1>6, <1>7 DEF GameLoaded, lifecycle
<1>8. CASE RunTask
  <2>1. UNCHANGED call \/ MovesTo(Main, "try")
    BY <1>5, <1>8 DEF RunTask
  <2>2. call[Main] = "none" /\ phase # "PostLoad"
        /\ UNCHANGED <<lifecycle, phase, sources>>
    BY <1>8 DEF RunTask
  <2> QED
    BY <1>6, <2>1, <2>2 DEF lifecycle
<1> QED
  BY <1>1, <1>2, <1>3, <1>4, <1>7, <1>8 DEF Messages

LEMMA CellEventsKeep ==
  ASSUME ActivationInv, NEW t \in sources, t \in Threads, CellEvent(t)
  PROVE  ActivationInv'
<1> USE MainIsThread DEF ActivationInv, ActivationTyped, Early, StageTells, Alone, NoSelfConflict
<1>1. CASE CellLoadedRetry(t)
  <2>1. UNCHANGED call \/ MovesTo(t, "try")
    BY <1>1 DEF CellLoadedRetry, Retry
  <2>2. "try" \in Calls
    BY DEF Calls
  <2> QED
    BY <1>1, <2>1, <2>2, AtFact DEF CellLoadedRetry, lifecycle, session
<1>2. CASE \E able \in BOOLEAN : CellLoadedQueue(t, able)
  BY <1>2 DEF CellLoadedQueue, lifecycle
<1> QED
  BY <1>1, <1>2 DEF CellEvent

-----------------------------------------------------------------------------
\* Where a commit leads: a first one stores its outcome, another disables.
LEMMA OutcomeFact ==
  ASSUME ActivationInv
  PROVE  /\ Outcome \in {"active", "inactive", "conflicted"}
         /\ committed # "none" => Outcome = "conflicted"
         /\ stage = "Prepared" => Outcome # "conflicted"
<1>1. CASE committed # "none" \/ stage = "Committed"
  BY <1>1 DEF Outcome, ActivationInv, StageTells
<1>2. CASE committed = "none" /\ stage # "Committed"
  BY <1>2 DEF Outcome, ActivationInv, ActivationTyped, StageTells
<1> QED
  BY <1>1, <1>2

LEMMA AttemptKeeps ==
  ASSUME ActivationInv, NEW t \in Threads, Attempt(t)
  PROVE  ActivationInv'
<1> USE MainIsThread
<1> DEFINE Moves(where) == /\ call' \in [Threads -> Calls] /\ call'[t] = where
                          /\ \A u \in Threads : u # t => call'[u] = call[u]
<1>1. ASSUME NEW where \in Calls, MovesTo(t, where) PROVE Moves(where)
  BY <1>1, AtFact DEF ActivationInv, ActivationTyped
<1>2. Afterwards(t) \in {"promote", "none"} /\ {"try", "check", "build", "commit", "promote", "none"} = Calls
  BY DEF Afterwards, Calls
<1>3. phase # "PostLoad" /\ (sources = {Main} => t = Main)
  BY DEF Attempt, CheckCommitted, CheckPrepared, BuildReadiness, CommitDataReadiness,
         CommitOutOfMemory, PromoteCommittedActivation, ActivationInv, Early, Alone
<1>4. ASSUME NEW where \in {"check", "promote", "none"}, MovesTo(t, where),
             UNCHANGED <<lifecycle, session>>
      PROVE  ActivationInv'
  <2>1. Moves(where)
    BY <1>1, <1>2, <1>4
  <2> QED
    BY <1>3, <1>4, <2>1
    DEF ActivationInv, ActivationTyped, Early, StageTells, Alone, NoSelfConflict, lifecycle, session
<1>5. CASE CheckCommitted(t)
  BY <1>2, <1>4, <1>5 DEF CheckCommitted
<1>6. CASE CheckPrepared(t)
  <2>1. CASE stage = "Prepared"
    <3>1. Moves("build")
      BY <1>1, <1>2, <1>6, <2>1 DEF CheckPrepared
    <3> QED
      BY <1>3, <1>6, <2>1, <3>1
      DEF CheckPrepared, ActivationInv, ActivationTyped, Early, StageTells, Alone, NoSelfConflict, lifecycle, session
  <2>2. CASE stage # "Prepared"
    BY <1>2, <1>4, <1>6, <2>2 DEF CheckPrepared
  <2> QED
    BY <2>1, <2>2
<1>7. CASE BuildReadiness(t)
  <2>1. CASE ready
    <3>1. Moves("commit")
      BY <1>1, <1>2, <1>7, <2>1 DEF BuildReadiness
    <3> QED
      BY <1>3, <1>7, <2>1, <3>1
      DEF BuildReadiness, ActivationInv, ActivationTyped, Early, StageTells, Alone, NoSelfConflict, lifecycle, session
  <2>2. CASE ~ready
    BY <1>2, <1>4, <1>7, <2>2 DEF BuildReadiness
  <2> QED
    BY <2>1, <2>2
<1>8. CASE CommitDataReadiness(t)
  <2>1. PICK where \in {"promote", "none"} : MovesTo(t, where)
    BY <1>2, <1>8 DEF CommitDataReadiness
  <2>2. Moves(where)
    BY <1>1, <1>2, <2>1
  <2>3. /\ committed' = Outcome
        /\ stage' = IF Outcome = "conflicted" THEN "Conflict" ELSE "Committed"
        /\ prepared' \in {prepared, "conflicted"}
        /\ UNCHANGED session /\ call[t] = "commit"
    BY <1>8 DEF CommitDataReadiness
  <2>4. sources = {Main} => Outcome # "conflicted"
    BY <1>3, <2>3, OutcomeFact DEF ActivationInv, Alone
  <2> QED
    BY <1>3, <2>1, <2>2, <2>3, <2>4, OutcomeFact
    DEF ActivationInv, ActivationTyped, Early, StageTells, Alone, NoSelfConflict, session, Stages
<1>9. CASE CommitOutOfMemory(t)
  <2>1. PICK where \in {"promote", "none"} : MovesTo(t, where)
    BY <1>2, <1>9 DEF CommitOutOfMemory
  <2>2. Moves(where)
    BY <1>1, <1>2, <2>1
  <2> QED
    BY <1>3, <1>9, <2>1, <2>2
    DEF CommitOutOfMemory, ActivationInv, ActivationTyped, Early, StageTells, Alone, NoSelfConflict, session, Stages
<1>10. CASE PromoteCommittedActivation(t)
  BY <1>4, <1>10 DEF PromoteCommittedActivation
<1> QED
  BY <1>5, <1>6, <1>7, <1>8, <1>9, <1>10 DEF Attempt

LEMMA ActivationKeeps == ActivationInv /\ [ActivationNext]_activationVars => ActivationInv'
<1> SUFFICES ASSUME ActivationInv, [ActivationNext]_activationVars PROVE ActivationInv'
  OBVIOUS
<1>1. CASE UNCHANGED activationVars
  BY <1>1 DEF activationVars, ActivationInv, ActivationTyped, Early, StageTells, Alone, NoSelfConflict
<1>2. CASE Messages
  BY <1>2, MessagesKeep
<1>3. CASE BecomeReady
  BY <1>3 DEF BecomeReady, lifecycle, ActivationInv, ActivationTyped, Early, StageTells, Alone, NoSelfConflict
<1>4. CASE \E t \in sources : CellEvent(t)
  <2>1. sources \subseteq Threads
    BY DEF ActivationInv, ActivationTyped, Threads
  <2> QED
    BY <1>4, <2>1, CellEventsKeep
<1>5. CASE \E t \in Threads : Attempt(t)
  BY <1>5, AttemptKeeps
<1> QED
  BY <1>1, <1>2, <1>3, <1>4, <1>5 DEF ActivationNext

LEMMA ActivationInvariant == ActivationSpec => []ActivationInv
  BY ActivationStarts, ActivationKeeps, PTL DEF ActivationSpec

\* The stage of the lifecycle tells what is stored in it, however the attempts
\* of any number of threads interleave (MirrorActivation.cpp, Lifecycle).
THEOREM StageTellsHolds == ActivationSpec => []StageTells
<1>1. ActivationInv => StageTells
  BY DEF ActivationInv
<1> QED
  BY <1>1, ActivationInvariant, PTL

\* The retries of TryCommitMirrorActivation never disable the product while
\* cell events come on the main thread.
THEOREM NoSelfConflictHolds == ActivationSpec => []NoSelfConflict
<1>1. ActivationInv => NoSelfConflict
  BY DEF ActivationInv
<1> QED
  BY <1>1, ActivationInvariant, PTL

\* A product that a second commit has disabled stays disabled: no attempt in
\* flight, of any thread, reopens it (Lifecycle::CommitDataReadiness).
THEOREM FailClosedForGoodHolds == ActivationSpec => FailClosedForGood
<1>1. ASSUME ActivationInv, [ActivationNext]_activationVars, committed = "conflicted"
      PROVE  committed' = "conflicted" /\ stage' = "Conflict"
  <2>1. stage = "Conflict" /\ phase # "PostLoad"
    BY <1>1 DEF ActivationInv, StageTells, Early
  <2>2. CASE UNCHANGED lifecycle
    BY <1>1, <2>1, <2>2 DEF lifecycle
  <2>3. CASE Messages
    BY <2>1, <2>2, <2>3
    DEF Messages, InputLoaded, InputLoadedOutOfMemory, RunDataLoaded, RegisterSink, GameLoaded, RunTask
  <2>4. ASSUME NEW t \in Threads, Attempt(t)
        PROVE  committed' = "conflicted" /\ stage' = "Conflict"
    <3>1. CASE CommitDataReadiness(t)
      BY <1>1, <3>1, OutcomeFact DEF CommitDataReadiness
    <3>2. CASE CommitOutOfMemory(t)
      BY <1>1, <3>2 DEF CommitOutOfMemory
    <3> QED
      BY <2>2, <2>4, <3>1, <3>2
      DEF Attempt, CheckCommitted, CheckPrepared, BuildReadiness, PromoteCommittedActivation
  <2>5. (\E t \in sources : CellEvent(t)) => UNCHANGED lifecycle
    BY DEF CellEvent, CellLoadedRetry, CellLoadedQueue
  <2>6. BecomeReady \/ UNCHANGED activationVars => UNCHANGED lifecycle
    BY DEF BecomeReady, activationVars, lifecycle
  <2> QED
    BY <1>1, <2>2, <2>3, <2>4, <2>5, <2>6 DEF ActivationNext
<1> QED
  BY <1>1, ActivationInvariant, PTL DEF ActivationSpec, FailClosedForGood

-----------------------------------------------------------------------------
(* Placement.                                                                  *)

PlacingSet ==
  [stage : {"none", "waiting", "live"}, leased : BOOLEAN, look : BOOLEAN, play : Nat]
TaskSet == [kind : {"begin", "drop"}, generation : Nat, play : Nat]

PlacementTyped ==
  /\ kits \in Int /\ drops \in Int /\ mirrors \in Int /\ owned \in Int
  /\ ghosts \in Int
  /\ placing \in PlacingSet /\ (placing.stage = "none" => placing = NoPlacement)
  /\ tasks \in Seq(TaskSet)
  /\ asking \in Nat \cup {NoCall}
  /\ generation \in Nat /\ play \in Nat

\* A request keeps the game it was made in: one that is still before its task
\* is of the game that is played, and so is a task of this generation, even
\* while a load is pending.  Each message of a load begins a generation.
RequestsOfTheirGame ==
  /\ asking # NoCall => asking = play
  /\ \A i \in 1..Len(tasks) : /\ tasks[i].generation <= generation
                              /\ tasks[i].generation = generation => tasks[i].play = play
  /\ placing # NoPlacement => placing.play = play

PlacementInv == PlacementTyped /\ RequestsOfTheirGame /\ KitsConserved /\ PlacementCleansUp

\* A placement has ended: it is reported what it could not clean up.
Ended ==
  /\ placing' = NoPlacement
  /\ ghosts' \in Int
  /\ failed \subseteq failed'
  /\ "ghost" \notin failed' => ghosts' = ghosts - 1
  /\ "controls" \notin failed' => controlsOff' \subseteq gameOff

\* What holds of the fields of a placement.
LEMMA PlacingFact ==
  ASSUME PlacementTyped
  PROVE  /\ NoPlacement \in PlacingSet /\ NoPlacement.stage = "none"
         /\ HeldBy(NoPlacement) = {}
         /\ placing.stage \in {"none", "waiting", "live"}
         /\ placing.leased \in BOOLEAN /\ placing.look \in BOOLEAN /\ placing.play \in Nat
  BY DEF PlacementTyped, PlacingSet, NoPlacement, HeldBy

\* Ends disposes of one ghost and gives back what p holds, or reports it.
LEMMA EndsFact ==
  ASSUME ghosts \in Int, NEW p, NEW off, NEW kinds, Ends(p, off, kinds),
         "controls" \notin failed => off \subseteq gameOff \cup HeldBy(p)
  PROVE  Ended /\ kinds \subseteq failed'
<1>1. PICK gone \in BOOLEAN, freed \in SUBSET HeldBy(p) :
        /\ placing' = NoPlacement
        /\ ghosts' = IF gone THEN ghosts - 1 ELSE ghosts
        /\ controlsOff' = off \ freed
        /\ Fails(kinds \cup If(~gone, "ghost") \cup If((off \cap HeldBy(p)) \ freed # {}, "controls"))
  BY Zenon DEF Ends
<1>2. failed' = failed \cup kinds \cup If(~gone, "ghost")
                       \cup If((off \cap HeldBy(p)) \ freed # {}, "controls")
  BY <1>1 DEF Fails
<1>3. "ghost" \notin failed' => gone
  BY <1>2 DEF If
<1>4. "controls" \notin failed' => (off \cap HeldBy(p)) \ freed = {} /\ "controls" \notin failed
  BY <1>2 DEF If
<1>5. "controls" \notin failed' => controlsOff' \subseteq gameOff
  BY <1>1, <1>4
<1>6. failed \subseteq failed' /\ kinds \subseteq failed'
  BY <1>2
<1> QED
  BY <1>1, <1>3, <1>5, <1>6 DEF Ended

\* A placement that ends leaves nothing behind but what is reported.
LEMMA EndedCleans ==
  ASSUME PlacementInv, placing.stage # "none", Ended, UNCHANGED gameOff
  PROVE  PlacementCleansUp' /\ placing' \in PlacingSet /\ ghosts' \in Int
  BY PlacingFact DEF PlacementInv, PlacementTyped, PlacementCleansUp, Ended

\* What a placement holds with the lease it has taken, or tried to take.
LEMMA LeasedFact ==
  ASSUME PlacementInv, NEW to
  PROVE  LET leased == [placing EXCEPT !.leased = TRUE]
             both == [placing EXCEPT !.leased = TRUE, !.stage = to] IN
         /\ Required \cup HeldBy(placing) \subseteq HeldBy(leased)
         /\ HeldBy(both) = HeldBy(leased)
  BY DEF PlacementInv, PlacementTyped, PlacingSet, HeldBy

LEMMA CancelFact ==
  ASSUME PlacementInv, CancelLocked
  PROVE  Ended /\ UNCHANGED <<worldVars, gameOff>>
<1>1. Ends(placing, controlsOff, {}) /\ UNCHANGED <<worldVars, gameOff>>
  BY DEF CancelLocked
<1> QED
  BY <1>1, EndsFact DEF PlacementInv, PlacementTyped, PlacementCleansUp

\* The lease fails at any of its toggles, and those done are undone.
LEMMA LeaseFailsFact ==
  ASSUME PlacementInv, LeaseFails
  PROVE  Ended /\ UNCHANGED <<worldVars, gameOff>>
<1>1. CASE CancelLocked
  BY <1>1, CancelFact
<1>2. ASSUME NEW taken \in SUBSET Required,
             Ends([placing EXCEPT !.leased = TRUE], controlsOff \cup taken, {})
      PROVE  Ended
  <2>1. "controls" \notin failed =>
          controlsOff \cup taken \subseteq gameOff \cup HeldBy([placing EXCEPT !.leased = TRUE])
    BY LeasedFact DEF PlacementInv, PlacementCleansUp
  <2> QED
    BY <1>2, <2>1, EndsFact DEF PlacementInv, PlacementTyped
<1> QED
  BY <1>1, <1>2 DEF LeaseFails

\* The first move of the ghost fails after the lease was taken.
LEMMA MoveFailsFact ==
  ASSUME PlacementInv, Ends([placing EXCEPT !.leased = TRUE], LeasedOff, {})
  PROVE  Ended
<1>1. "controls" \notin failed =>
        LeasedOff \subseteq gameOff \cup HeldBy([placing EXCEPT !.leased = TRUE])
  BY LeasedFact DEF PlacementInv, PlacementCleansUp, LeasedOff
<1> QED
  BY <1>1, EndsFact DEF PlacementInv, PlacementTyped

\* The lease taken holds every control that it has disabled.
LEMMA LeasesFact ==
  ASSUME PlacementInv, NEW moved \in BOOLEAN, Leases(moved), placing.stage # "none"
  PROVE  /\ PlacementCleansUp' /\ placing' \in PlacingSet
         /\ placing'.stage # "none" /\ placing'.play = placing.play
<1> DEFINE to == IF moved THEN "live" ELSE "waiting"
<1>1. /\ placing' = [placing EXCEPT !.leased = TRUE, !.stage = to]
      /\ controlsOff' = LeasedOff /\ UNCHANGED <<gameOff, ghosts, failed>>
  BY DEF Leases
<1>2. placing' \in PlacingSet /\ placing'.stage # "none" /\ placing'.play = placing.play
  BY <1>1 DEF PlacementInv, PlacementTyped, PlacingSet
<1>3. placing # NoPlacement /\ placing' # NoPlacement
  BY <1>2, PlacingFact DEF PlacementInv
<1>4. Required \cup HeldBy(placing) \subseteq HeldBy(placing')
  BY <1>1, LeasedFact
<1>5. HeldBy(placing)' = HeldBy(placing')
  BY DEF HeldBy
<1>6. "controls" \notin failed' => controlsOff' \subseteq (gameOff \cup HeldBy(placing))'
  BY <1>1, <1>4, <1>5 DEF PlacementInv, PlacementCleansUp, LeasedOff
<1> QED
  BY <1>1, <1>2, <1>3, <1>6 DEF PlacementInv, PlacementCleansUp

-----------------------------------------------------------------------------
\* No kit moves: what was conserved still is.
LEMMA WorldKept ==
  ASSUME PlacementInv, UNCHANGED worldVars, failed \subseteq failed'
  PROVE  KitsConserved' /\ {kits, drops, mirrors, owned}' \subseteq Int
  BY DEF PlacementInv, PlacementTyped, KitsConserved, worldVars

\* A step that ends the placement, and may begin a generation.
LEMMA EndedKeeps ==
  ASSUME PlacementInv, placing.stage # "none", Ended, UNCHANGED <<gameOff, tasks, asking, play>>,
         generation' \in {generation, generation + 1},
         KitsConserved', {kits, drops, mirrors, owned}' \subseteq Int
  PROVE  PlacementInv'
<1>1. PlacementCleansUp' /\ placing' = NoPlacement /\ NoPlacement \in PlacingSet /\ ghosts' \in Int
  BY EndedCleans, PlacingFact DEF Ended, PlacementInv
<1>2. PlacementTyped'
  BY <1>1 DEF PlacementInv, PlacementTyped
<1>3. ASSUME NEW i \in 1..Len(tasks)
      PROVE  /\ tasks[i].generation <= generation'
             /\ tasks[i].generation = generation' => tasks[i].play = play
  <2>1. tasks[i] \in TaskSet
    BY <1>3 DEF PlacementInv, PlacementTyped
  <2>4. tasks[i].generation \in Nat /\ tasks[i].generation <= generation
    BY <1>3, <2>1 DEF PlacementInv, RequestsOfTheirGame, TaskSet
  <2>2. CASE generation' = generation
    BY <1>3, <2>2, <2>4 DEF PlacementInv, RequestsOfTheirGame
  <2>3. CASE generation' = generation + 1
    BY <2>3, <2>4 DEF PlacementInv, PlacementTyped
  <2> QED
    BY <2>2, <2>3
<1>4. RequestsOfTheirGame'
  BY <1>1, <1>3 DEF PlacementInv, RequestsOfTheirGame
<1> QED
  BY <1>1, <1>2, <1>4 DEF PlacementInv

\* A step that takes the lease.
LEMMA LeasesKeeps ==
  ASSUME PlacementInv, NEW moved \in BOOLEAN, Leases(moved), placing.stage # "none",
         UNCHANGED <<tasks, asking, hostVars>>
  PROVE  PlacementInv'
<1>1. /\ PlacementCleansUp' /\ placing' \in PlacingSet
      /\ placing'.stage # "none" /\ placing'.play = placing.play
  BY LeasesFact
<1>2. KitsConserved' /\ {kits, drops, mirrors, owned}' \subseteq Int
  BY WorldKept DEF Leases
<1>3. PlacementTyped'
  BY <1>1, <1>2 DEF PlacementInv, PlacementTyped, Leases, hostVars
<1>4. RequestsOfTheirGame'
  BY <1>1, PlacingFact DEF PlacementInv, RequestsOfTheirGame, hostVars
<1> QED
  BY <1>1, <1>2, <1>3, <1>4 DEF PlacementInv

\* The roll back of a pickup either takes its kit away again or is reported.
LEMMA TakenBackFact ==
  ASSUME NEW n \in Int, NEW w \in Int, NEW o \in TakenBack(n, w)
  PROVE  /\ o.kits \in Int /\ o.left \in Int
         /\ o.left < w => o.kits + o.left = n + w
         /\ ~(o.left < w) => o.left = w /\ (~o.lost => o.kits = n)
<1>1. CASE o = [kits |-> n, left |-> w, lost |-> FALSE]
  BY <1>1
<1>2. CASE o = [kits |-> n + 1, left |-> w - 1, lost |-> FALSE]
  BY <1>2
<1>3. ASSUME NEW c \in Consumed(n + 1), o = [kits |-> c.kits, left |-> w, lost |-> ~c.taken]
      PROVE  o.kits \in Int /\ o.left = w /\ (~o.lost => o.kits = n)
  <2>1. c.kits \in Int /\ (c.taken => c.kits = (n + 1) - 1)
    BY DEF Consumed
  <2>2. o.kits = c.kits /\ o.left = w /\ (~o.lost => c.taken)
    BY <1>3
  <2> QED
    BY <2>1, <2>2
<1> QED
  BY <1>1, <1>2, <1>3 DEF TakenBack

\* What a task starts is a placement of the game that is played, with its ghost.
LEMMA BeginsFact ==
  ASSUME PlacementInv, NEW n, Begins(n), UNCHANGED controlVars
  PROVE  /\ PlacementCleansUp' /\ failed \subseteq failed' /\ ghosts' \in Int
         /\ placing' \in PlacingSet /\ (placing'.stage = "none" => placing' = NoPlacement)
         /\ placing' \in {placing, [NoPlacement EXCEPT !.stage = "waiting", !.play = play]}
<1> DEFINE started == [NoPlacement EXCEPT !.stage = "waiting", !.play = play]
<1>1. /\ started \in PlacingSet /\ started # NoPlacement /\ started.stage # "none"
      /\ HeldBy(started) = {}
  BY DEF NoPlacement, PlacingSet, PlacementInv, PlacementTyped, HeldBy
<1>2. CASE UNCHANGED <<placing, ghosts, failed>>
  BY <1>2 DEF PlacementInv, PlacementTyped, PlacementCleansUp, controlVars, HeldBy
<1>3. CASE /\ placing = NoPlacement /\ ghosts' = ghosts + 1
           /\ UNCHANGED placing /\ Fails({"ghost"})
  BY <1>3 DEF PlacementInv, PlacementTyped, PlacementCleansUp, controlVars, HeldBy, Fails
<1>4. CASE /\ placing = NoPlacement /\ ghosts' = ghosts + 1
           /\ placing' = started /\ UNCHANGED failed
  <2>1. "controls" \notin failed' => controlsOff' \subseteq gameOff'
    BY <1>4, PlacingFact DEF PlacementInv, PlacementCleansUp, controlVars
  <2>2. "ghost" \notin failed' => ghosts' = 1
    BY <1>4 DEF PlacementInv, PlacementCleansUp, PlacementTyped
  <2>3. HeldBy(placing)' = {} /\ (placing # NoPlacement)'
    BY <1>1, <1>4 DEF HeldBy, NoPlacement
  <2>4. PlacementCleansUp'
    BY <2>1, <2>2, <2>3 DEF PlacementCleansUp
  <2> QED
    BY <1>1, <1>4, <2>4 DEF PlacementInv, PlacementTyped
<1> QED
  BY <1>2, <1>3, <1>4 DEF Begins

-----------------------------------------------------------------------------
LEMMA RequestsKeep ==
  ASSUME PlacementInv, BeginPlacementNative \/ QueueBeginPlacement
  PROVE  PlacementInv'
<1>1. UNCHANGED <<worldVars, ghosts, controlVars, placing, hostVars, failed>>
  BY DEF BeginPlacementNative, QueueBeginPlacement
<1>2. KitsConserved' /\ PlacementCleansUp'
  BY <1>1 DEF PlacementInv, KitsConserved, PlacementCleansUp, worldVars, controlVars, HeldBy
<1>3. CASE BeginPlacementNative
  BY <1>1, <1>2, <1>3
  DEF PlacementInv, PlacementTyped, RequestsOfTheirGame, BeginPlacementNative, worldVars, hostVars
<1>4. CASE QueueBeginPlacement
  <2> DEFINE t == [kind |-> "begin", generation |-> generation, play |-> asking]
  <2>1. tasks' = Append(tasks, t) /\ asking' = NoCall /\ asking = play /\ t \in TaskSet
        /\ asking # NoCall
    BY <1>4 DEF QueueBeginPlacement, Queue, PlacementInv, PlacementTyped, RequestsOfTheirGame, TaskSet
  <2>2. PlacementTyped'
    BY <1>1, <2>1 DEF PlacementInv, PlacementTyped, worldVars, hostVars
  <2>3. RequestsOfTheirGame'
    BY <1>1, <2>1 DEF PlacementInv, PlacementTyped, RequestsOfTheirGame, hostVars
  <2> QED
    BY <1>2, <2>2, <2>3 DEF PlacementInv
<1> QED
  BY <1>3, <1>4

LEMMA DropsKeep == ASSUME PlacementInv, PlayerDropsKit PROVE PlacementInv'
<1> DEFINE t == [kind |-> "drop", generation |-> generation, play |-> play]
<1>1. /\ kits' = kits - 1 /\ drops' = drops + 1
      /\ UNCHANGED <<mirrors, owned, ghosts, controlVars, placing, asking, hostVars, failed>>
      /\ tasks' \in {tasks, Append(tasks, t)}
  BY DEF PlayerDropsKit, Queue
<1>2. KitsConserved' /\ PlacementCleansUp'
  BY <1>1
  DEF PlacementInv, PlacementTyped, KitsConserved, PlacementCleansUp, worldVars, controlVars, HeldBy
<1>3. t \in TaskSet
  BY DEF PlacementInv, PlacementTyped, TaskSet
<1>4. PlacementTyped'
  BY <1>1, <1>3 DEF PlacementInv, PlacementTyped, hostVars
<1>5. RequestsOfTheirGame'
  BY <1>1, <1>3 DEF PlacementInv, PlacementTyped, RequestsOfTheirGame, hostVars
<1> QED
  BY <1>2, <1>4, <1>5 DEF PlacementInv

LEMMA TaskKeeps == ASSUME PlacementInv, RunPlacementTask PROVE PlacementInv'
<1> DEFINE t == Head(tasks)
<1>1. /\ tasks # <<>> /\ tasks' = Tail(tasks)
      /\ UNCHANGED <<mirrors, owned, controlVars, menus, asking, hostVars>>
  BY DEF RunPlacementTask
<1>2. /\ Tail(tasks) \in Seq(TaskSet) /\ t = tasks[1]
      /\ \A i \in 1..Len(Tail(tasks)) : i + 1 \in 1..Len(tasks) /\ Tail(tasks)[i] = tasks[i + 1]
  BY <1>1 DEF PlacementInv, PlacementTyped
<1>3. \A i \in 1..Len(tasks') : /\ tasks'[i].generation <= generation
                               /\ tasks'[i].generation = generation => tasks'[i].play = play
  BY <1>1, <1>2 DEF PlacementInv, RequestsOfTheirGame
<1>4. ASSUME kits' \in Int, drops' \in Int, ghosts' \in Int,
             placing' \in PlacingSet, placing'.stage = "none" => placing' = NoPlacement,
             KitsConserved', PlacementCleansUp',
             placing' \in {placing, [NoPlacement EXCEPT !.stage = "waiting", !.play = play]}
      PROVE  PlacementInv'
  <2>1. PlacementTyped'
    BY <1>1, <1>2, <1>4 DEF PlacementInv, PlacementTyped, hostVars
  <2>2. placing' # NoPlacement => placing'.play = play
    BY <1>4 DEF PlacementInv, RequestsOfTheirGame, NoPlacement
  <2>3. RequestsOfTheirGame'
    BY <1>1, <1>3, <2>2 DEF PlacementInv, RequestsOfTheirGame, hostVars
  <2> QED
    BY <1>4, <2>1, <2>3 DEF PlacementInv
<1>5. CASE UNCHANGED <<kits, drops, placing, ghosts, failed>>
  <2>1. KitsConserved' /\ PlacementCleansUp'
    BY <1>1, <1>5 DEF PlacementInv, KitsConserved, PlacementCleansUp, controlVars, HeldBy
  <2> QED
    BY <1>4, <1>5, <2>1 DEF PlacementInv, PlacementTyped
<1>6. CASE Begins(kits) /\ UNCHANGED <<kits, drops>>
  <2>1. KitsConserved'
    BY <1>1, <1>6, BeginsFact DEF PlacementInv, KitsConserved
  <2> QED
    BY <1>1, <1>4, <1>6, <2>1, BeginsFact DEF PlacementInv, PlacementTyped
<1>7. ASSUME NEW o \in TakenBack(kits, drops), kits' = o.kits, drops' = o.left,
             IF o.left < drops THEN Begins(o.kits)
             ELSE UNCHANGED <<placing, ghosts>> /\ Fails(If(o.lost, "kit"))
      PROVE  PlacementInv'
  <2>1. /\ o.kits \in Int /\ o.left \in Int
        /\ o.left < drops => o.kits + o.left = kits + drops
        /\ ~(o.left < drops) => o.left = drops /\ (~o.lost => o.kits = kits)
    BY TakenBackFact DEF PlacementInv, PlacementTyped
  <2>2. CASE o.left < drops
    <3>1. KitsConserved'
      BY <1>1, <1>7, <2>1, <2>2, BeginsFact DEF PlacementInv, PlacementTyped, KitsConserved
    <3> QED
      BY <1>1, <1>4, <1>7, <2>1, <2>2, <3>1, BeginsFact
  <2>3. CASE ~(o.left < drops)
    <3>1. UNCHANGED <<placing, ghosts>> /\ failed' = failed \cup If(o.lost, "kit")
      BY <1>7, <2>3 DEF Fails
    <3>2. KitsConserved'
      BY <1>1, <1>7, <2>1, <2>3, <3>1 DEF PlacementInv, PlacementTyped, KitsConserved, If
    <3>3. PlacementCleansUp'
      BY <1>1, <3>1 DEF PlacementInv, PlacementCleansUp, controlVars, HeldBy
    <3> QED
      BY <1>4, <1>7, <2>1, <3>1, <3>2, <3>3 DEF PlacementInv, PlacementTyped
  <2> QED
    BY <2>2, <2>3
<1> QED
  BY <1>5, <1>6, <1>7 DEF RunPlacementTask

-----------------------------------------------------------------------------
\* A step of the input or the game that moves no task and ends no game: what it
\* does to the kits, and to the placement, its ghost and its controls.
LEMMA QuietKeeps ==
  ASSUME PlacementInv, Quiet, KitsConserved', {kits, drops, mirrors, owned}' \subseteq Int,
         UNCHANGED <<ghosts, placing>>, failed \subseteq failed',
         controlsOff' \subseteq gameOff' \cup (controlsOff \ gameOff)
  PROVE  PlacementInv'
<1>1. PlacementCleansUp'
  BY DEF PlacementInv, PlacementCleansUp, HeldBy
<1>2. PlacementTyped'
  BY DEF PlacementInv, PlacementTyped, Quiet, hostVars
<1>3. RequestsOfTheirGame'
  BY DEF PlacementInv, RequestsOfTheirGame, Quiet, hostVars
<1> QED
  BY <1>1, <1>2, <1>3 DEF PlacementInv

LEMMA QuietEnds ==
  ASSUME PlacementInv, Quiet, placing.stage # "none", Ended, UNCHANGED <<worldVars, gameOff>>
  PROVE  PlacementInv'
<1>1. KitsConserved' /\ {kits, drops, mirrors, owned}' \subseteq Int
  BY WorldKept DEF Ended
<1> QED
  BY <1>1, EndedKeeps DEF Quiet, hostVars

LEMMA WaitingInputKeeps == ASSUME PlacementInv, InputWhileWaiting PROVE PlacementInv'
<1>1. placing.stage # "none" /\ Quiet
  BY DEF InputWhileWaiting, HandlesInput
<1>2. CASE Leases(TRUE)
  BY <1>1, <1>2, LeasesKeeps DEF Quiet
<1>3. CASE LeaseFails
  BY <1>1, <1>3, LeaseFailsFact, QuietEnds
<1>4. CASE /\ Ends([placing EXCEPT !.leased = TRUE], LeasedOff, {})
           /\ UNCHANGED <<worldVars, gameOff>>
  BY <1>1, <1>4, MoveFailsFact, QuietEnds
<1> QED
  BY <1>2, <1>3, <1>4 DEF InputWhileWaiting

LEMMA TurnKeeps == ASSUME PlacementInv, InputTurns PROVE PlacementInv'
<1>1. /\ placing.stage = "live"
      /\ placing' = [placing EXCEPT !.look = ~@]
      /\ controlsOff' = IF placing.look THEN controlsOff \ {Look} ELSE controlsOff \cup {Look}
      /\ UNCHANGED <<worldVars, ghosts, gameOff, failed>> /\ Quiet
  BY DEF InputTurns, HandlesInput
<1>2. /\ placing' \in PlacingSet /\ placing'.stage = "live" /\ placing'.play = placing.play
      /\ placing'.leased = placing.leased /\ placing'.look = ~placing.look
  BY <1>1 DEF PlacementInv, PlacementTyped, PlacingSet
<1>3. placing # NoPlacement /\ placing' # NoPlacement
  BY <1>1, <1>2, PlacingFact DEF PlacementInv
<1>4. "controls" \notin failed => controlsOff' \subseteq gameOff \cup HeldBy(placing')
  <2>1. CASE placing.look
    BY <1>1, <1>2, <2>1, PlacingFact DEF PlacementInv, PlacementCleansUp, HeldBy
  <2>2. CASE ~placing.look
    BY <1>1, <1>2, <2>2, PlacingFact DEF PlacementInv, PlacementCleansUp, HeldBy
  <2> QED
    BY <2>1, <2>2
<1>5. PlacementCleansUp'
  BY <1>1, <1>3, <1>4 DEF PlacementInv, PlacementCleansUp, HeldBy
<1>6. KitsConserved' /\ {kits, drops, mirrors, owned}' \subseteq Int
  BY <1>1, WorldKept
<1>7. PlacementTyped'
  BY <1>1, <1>2, <1>6 DEF PlacementInv, PlacementTyped, Quiet, hostVars
<1>8. RequestsOfTheirGame'
  BY <1>1, <1>2, <1>3 DEF PlacementInv, RequestsOfTheirGame, Quiet, hostVars
<1> QED
  BY <1>5, <1>6, <1>7, <1>8 DEF PlacementInv

\* Taking the kit is the last step of a confirmation that can fail: a mirror
\* stands for the kit that is gone, or what was not undone is reported.
LEMMA ConfirmKeeps == ASSUME PlacementInv, InputConfirms PROVE PlacementInv'
<1>1. placing.stage # "none" /\ Quiet
  BY DEF InputConfirms, HandlesInput
<1>2. CASE CancelLocked
  BY <1>1, <1>2, CancelFact, QuietEnds
<1>3. ASSUME NEW o \in Consumed(kits), NEW gone \in BOOLEAN,
             kits' = o.kits,
             mirrors' = IF o.taken \/ ~gone THEN mirrors + 1 ELSE mirrors,
             Ends(placing, controlsOff, If(o.lost \/ (~o.taken /\ ~gone), "kit")),
             UNCHANGED <<drops, owned, gameOff>>
      PROVE  PlacementInv'
  <2>1. Ended /\ If(o.lost \/ (~o.taken /\ ~gone), "kit") \subseteq failed'
    BY <1>3, EndsFact DEF PlacementInv, PlacementTyped, PlacementCleansUp
  <2>2. /\ o.kits \in Int /\ o.taken \in BOOLEAN /\ o.lost \in BOOLEAN
        /\ o.taken => o.kits = kits - 1
        /\ ~o.taken /\ ~o.lost => o.kits = kits
    BY <1>3 DEF Consumed
  <2>3. "kit" \notin failed' => ~o.lost /\ (o.taken \/ gone)
    BY <2>1, <2>2 DEF If
  <2>4. {kits, drops, mirrors, owned}' \subseteq Int
    BY <1>3, <2>2 DEF PlacementInv, PlacementTyped
  <2>5. KitsConserved'
    BY <1>3, <2>1, <2>2, <2>3 DEF PlacementInv, PlacementTyped, KitsConserved, Ended
  <2> QED
    BY <1>1, <1>3, <2>1, <2>4, <2>5, EndedKeeps DEF Quiet, hostVars
<1> QED
  BY <1>2, <1>3 DEF InputConfirms

LEMMA PickupKeeps == ASSUME PlacementInv, PickupPlacedMirrorReference PROVE PlacementInv'
<1>1. PICK o \in TakenBack(kits, mirrors) :
        kits' = o.kits /\ mirrors' = o.left /\ Fails(If(o.lost, "kit"))
  BY DEF PickupPlacedMirrorReference
<1>2. UNCHANGED <<drops, owned, ghosts, controlVars, placing>> /\ Quiet
  BY DEF PickupPlacedMirrorReference
<1>3. /\ o.kits \in Int /\ o.left \in Int
      /\ o.left < mirrors => o.kits + o.left = kits + mirrors
      /\ ~(o.left < mirrors) => o.left = mirrors /\ (~o.lost => o.kits = kits)
  BY TakenBackFact DEF PlacementInv, PlacementTyped
<1>4. failed' = failed \cup If(o.lost, "kit")
  BY <1>1 DEF Fails
<1>5. "kit" \notin failed' => ~o.lost
  BY <1>4 DEF If
<1>6. KitsConserved'
  BY SMTT(30), <1>1, <1>2, <1>3, <1>4, <1>5 DEF PlacementInv, PlacementTyped, KitsConserved
<1>7. {kits, drops, mirrors, owned}' \subseteq Int
  BY <1>1, <1>2, <1>3 DEF PlacementInv, PlacementTyped
<1> QED
  BY <1>2, <1>4, <1>6, <1>7, QuietKeeps DEF controlVars

LEMMA MenusKeep ==
  ASSUME PlacementInv, NEW m, MenuOpened(m) \/ MenuClosed(m)
  PROVE  PlacementInv'
<1>1. UNCHANGED <<tasks, asking, hostVars>>
  BY DEF MenuOpened, MenuClosed
<1>2. CASE UNCHANGED <<worldVars, ghosts, controlVars, placing, failed>>
  <2>1. KitsConserved' /\ PlacementCleansUp' /\ PlacementTyped'
    BY <1>1, <1>2
    DEF PlacementInv, PlacementTyped, KitsConserved, PlacementCleansUp, worldVars, controlVars,
        HeldBy, hostVars
  <2>2. RequestsOfTheirGame'
    BY <1>1, <1>2 DEF PlacementInv, RequestsOfTheirGame, hostVars
  <2> QED
    BY <2>1, <2>2 DEF PlacementInv
<1>3. CASE placing.stage # "none" /\ Ended /\ UNCHANGED <<worldVars, gameOff>>
  <2>1. KitsConserved' /\ {kits, drops, mirrors, owned}' \subseteq Int
    BY <1>3, WorldKept DEF Ended
  <2> QED
    BY <1>1, <1>3, <2>1, EndedKeeps DEF hostVars
<1>4. CASE MenuOpened(m)
  BY <1>2, <1>3, <1>4, CancelFact DEF MenuOpened
<1>5. CASE placing.stage = "waiting" /\ (LeaseFails \/ \E moved \in BOOLEAN : Leases(moved))
  BY <1>1, <1>3, <1>5, LeaseFailsFact, LeasesKeeps
<1> QED
  BY <1>2, <1>4, <1>5 DEF MenuClosed

LEMMA PreLoadKeeps == ASSUME PlacementInv, PreLoadGame PROVE PlacementInv'
<1>1. generation' = generation + 1 /\ UNCHANGED <<menus, tasks, asking, formsReady, play>>
  BY DEF PreLoadGame
<1>2. CASE placing = NoPlacement /\ UNCHANGED <<worldVars, ghosts, controlVars, placing, failed>>
  <2>1. KitsConserved' /\ PlacementCleansUp' /\ PlacementTyped'
    BY <1>1, <1>2
    DEF PlacementInv, PlacementTyped, KitsConserved, PlacementCleansUp, worldVars, controlVars, HeldBy
  <2>2. ASSUME NEW i \in 1..Len(tasks)
        PROVE  tasks[i].generation < generation' /\ tasks[i].generation \in Nat
    <3>1. tasks[i] \in TaskSet /\ generation \in Nat
      BY <2>2 DEF PlacementInv, PlacementTyped
    <3>2. tasks[i].generation \in Nat /\ tasks[i].generation <= generation
      BY <2>2, <3>1 DEF PlacementInv, RequestsOfTheirGame, TaskSet
    <3> QED
      BY <1>1, <3>1, <3>2
  <2>4. generation' \in Nat
    BY <1>1 DEF PlacementInv, PlacementTyped
  <2>5. RequestsOfTheirGame'
    BY <1>1, <1>2, <2>2, <2>4 DEF PlacementInv, RequestsOfTheirGame
  <2> QED
    BY <2>1, <2>5 DEF PlacementInv
<1>3. CASE placing # NoPlacement /\ CancelLocked
  <2>1. placing.stage # "none" /\ Ended /\ UNCHANGED <<worldVars, gameOff>>
    BY <1>3, CancelFact DEF PlacementInv, PlacementTyped
  <2>2. KitsConserved' /\ {kits, drops, mirrors, owned}' \subseteq Int
    BY <2>1, WorldKept DEF Ended
  <2> QED
    BY <1>1, <2>1, <2>2, EndedKeeps
<1> QED
  BY <1>2, <1>3 DEF PreLoadGame

\* The next game has no script call and no task of its generation yet.
LEMMA NextGameKeeps == ASSUME PlacementInv, NextGame PROVE PlacementInv'
<1>1. /\ asking = NoCall /\ play' = play + 1 /\ generation' = generation + 1
      /\ ghosts' = 0 /\ placing' = NoPlacement
      /\ UNCHANGED <<gameOff, tasks, asking, formsReady>>
  BY DEF NextGame
<1>2. PICK freed \in SUBSET HeldBy(placing) :
        /\ controlsOff' = controlsOff \ freed
        /\ Fails(If(HeldBy(placing) \ freed # {}, "controls"))
  BY DEF NextGame
<1>3. /\ "controls" \notin failed' => HeldBy(placing) \subseteq freed
      /\ failed \subseteq failed'
  BY <1>2 DEF Fails, If
<1>4. PlacementCleansUp'
  BY <1>1, <1>2, <1>3 DEF PlacementInv, PlacementCleansUp
<1>5. owned' \in 0..MaxOwned
      /\ kits' \in 0..owned' /\ drops' \in 0..(owned' - kits') /\ mirrors' = owned' - kits' - drops'
  BY DEF NextGame
<1>6. owned' \in Int
  BY <1>5, PlacementConstants
<1>7. kits' \in Int /\ drops' \in Int /\ mirrors' \in Int /\ KitsConserved'
  <2>1. kits' \in Int
    BY <1>5, <1>6
  <2>2. drops' \in Int
    BY <1>5, <1>6, <2>1
  <2>4. mirrors' = (owned' - kits') - drops'
    BY <1>5
  <2>5. \A k, d, w \in Int : (w - k) - d \in Int /\ k + d + ((w - k) - d) = w
    OBVIOUS
  <2>3. mirrors' \in Int /\ kits' + drops' + mirrors' = owned'
    BY <1>6, <2>1, <2>2, <2>4, <2>5
  <2> QED
    BY <2>1, <2>2, <2>3 DEF KitsConserved
<1>8. PlacementTyped'
  BY <1>1, <1>6, <1>7, PlacingFact DEF PlacementInv, PlacementTyped
<1>9. ASSUME NEW i \in 1..Len(tasks)
      PROVE  tasks[i].generation < generation' /\ tasks[i].generation \in Nat
  <2>1. tasks[i] \in TaskSet /\ generation \in Nat
    BY <1>9 DEF PlacementInv, PlacementTyped
  <2>2. tasks[i].generation \in Nat /\ tasks[i].generation <= generation
    BY <1>9, <2>1 DEF PlacementInv, RequestsOfTheirGame, TaskSet
  <2> QED
    BY <1>1, <2>1, <2>2
<1>10. generation' \in Nat
  BY <1>8 DEF PlacementTyped
<1>11. RequestsOfTheirGame'
  BY <1>1, <1>9, <1>10 DEF RequestsOfTheirGame
<1> QED
  BY <1>4, <1>7, <1>8, <1>11 DEF PlacementInv

LEMMA GameKeeps ==
  ASSUME PlacementInv, GameGivesKit \/ GameTakesKit \/ PlayerTakesDrop \/ GameSetsControls
  PROVE  PlacementInv'
<1>1. Quiet /\ UNCHANGED <<ghosts, placing, failed>>
  BY DEF GameGivesKit, GameTakesKit, PlayerTakesDrop, GameSetsControls
<1>2. CASE GameSetsControls
  <2>1. UNCHANGED worldVars /\ \E off \in SUBSET Disabled :
          gameOff' = off /\ controlsOff' = (controlsOff \cup off) \ (gameOff \ off)
    BY <1>2 DEF GameSetsControls
  <2>2. controlsOff' \subseteq gameOff' \cup (controlsOff \ gameOff)
    BY <2>1
  <2> QED
    BY <1>1, <2>1, <2>2, WorldKept, QuietKeeps
<1>3. CASE GameGivesKit \/ GameTakesKit \/ PlayerTakesDrop
  <2>1. KitsConserved' /\ {kits, drops, mirrors, owned}' \subseteq Int /\ UNCHANGED controlVars
    BY SMTT(30), <1>3
    DEF PlacementInv, PlacementTyped, KitsConserved, GameGivesKit, GameTakesKit, PlayerTakesDrop
  <2> QED
    BY <1>1, <2>1, QuietKeeps DEF controlVars
<1> QED
  BY <1>2, <1>3

LEMMA PlacementStarts == PlacementInit => PlacementInv
<1> SUFFICES ASSUME PlacementInit PROVE PlacementInv
  OBVIOUS
<1>1. PlacementTyped
  BY DEF PlacementInit, PlacementTyped, PlacingSet, NoPlacement
<1>2. RequestsOfTheirGame
  BY DEF PlacementInit, RequestsOfTheirGame
<1>3. KitsConserved /\ PlacementCleansUp
  BY DEF PlacementInit, KitsConserved, PlacementCleansUp
<1> QED
  BY <1>1, <1>2, <1>3 DEF PlacementInv

LEMMA PlacementKeeps == PlacementInv /\ [PlacementNext]_placementVars => PlacementInv'
<1> SUFFICES ASSUME PlacementInv, [PlacementNext]_placementVars PROVE PlacementInv'
  OBVIOUS
<1>1. CASE UNCHANGED placementVars
  <2>1. PlacementTyped'
    BY <1>1 DEF placementVars, worldVars, hostVars, PlacementInv, PlacementTyped
  <2>2. KitsConserved' /\ PlacementCleansUp'
    BY <1>1 DEF placementVars, worldVars, controlVars, PlacementInv, KitsConserved,
                PlacementCleansUp, HeldBy
  <2>3. RequestsOfTheirGame'
    BY <1>1 DEF placementVars, hostVars, PlacementInv, RequestsOfTheirGame
  <2> QED
    BY <2>1, <2>2, <2>3 DEF PlacementInv
<1>2. CASE BeginPlacementNative \/ QueueBeginPlacement
  BY <1>2, RequestsKeep
<1>3. CASE PlayerDropsKit \/ RunPlacementTask
  BY <1>3, DropsKeep, TaskKeeps
<1>4. CASE InputWhileWaiting \/ InputTurns \/ InputConfirms \/ PickupPlacedMirrorReference
  BY <1>4, WaitingInputKeeps, TurnKeeps, ConfirmKeeps, PickupKeeps
<1>5. CASE InputCancels
  BY <1>5, CancelFact, QuietEnds DEF InputCancels, HandlesInput
<1>6. CASE \E m \in Menus : MenuOpened(m) \/ MenuClosed(m)
  BY <1>6, MenusKeep
<1>7. CASE PreLoadGame \/ NextGame
  BY <1>7, PreLoadKeeps, NextGameKeeps
<1>8. CASE GameGivesKit \/ GameTakesKit \/ PlayerTakesDrop \/ GameSetsControls
  BY <1>8, GameKeeps
<1> QED
  BY <1>1, <1>2, <1>3, <1>4, <1>5, <1>6, <1>7, <1>8 DEF PlacementNext

LEMMA PlacementInvariant == PlacementSpec => []PlacementInv
  BY PlacementStarts, PlacementKeeps, PTL DEF PlacementSpec

\* A request of one game moves nothing in the next.
LEMMA OwnGameFact == ASSUME PlacementInv PROVE OwnGameOnly
  BY DEF PlacementInv, RequestsOfTheirGame, OwnGameOnly, Current

\* No kit is lost and none is made, for any number of kits, tasks and games and
\* however many clean-ups fail (ConfirmLocked, TransferDroppedItemToInventory,
\* PickupPlacedMirrorReference and ConsumeInventoryItem).
THEOREM KitsConservedHolds == PlacementSpec => []KitsConserved
<1>1. PlacementInv => KitsConserved
  BY DEF PlacementInv
<1> QED
  BY <1>1, PlacementInvariant, PTL

\* However a placement ends, no ghost and no disabled control is left, for any
\* set of controls, the looking one among them or not (CancelLocked,
\* AcquireControlLease, SetLookLease, RestoreControlLease).
THEOREM PlacementCleansUpHolds == PlacementSpec => []PlacementCleansUp
<1>1. PlacementInv => PlacementCleansUp
  BY DEF PlacementInv
<1> QED
  BY <1>1, PlacementInvariant, PTL

\* No request of a game reaches the next one, and no placement outlives its
\* game, however many loads and games there are (g_lifecycleGeneration).
THEOREM OwnGameOnlyHolds == PlacementSpec => []OwnGameOnly
  BY OwnGameFact, PlacementInvariant, PTL

-----------------------------------------------------------------------------
(* Declarations.                                                               *)

\* A set of numbers that is not empty has a least one, which Min is.
LEMMA MinFact ==
  ASSUME NEW T \in SUBSET Nat, T # {} PROVE Min(T) \in T
<1> DEFINE R == OpToRel(<, Nat)
<1>1. IsWellFoundedOn(R, Nat)
  BY NatLessThanWellFounded
<1>2. \A y \in Nat, x \in Nat : y < x => <<y, x>> \in R
  BY DEF OpToRel
<1> HIDE DEF R
<1>3. PICK x \in T : \A y \in T : ~ (<<y, x>> \in R)
  BY <1>1, WFMin
<1>4. \A y \in T : x <= y
  <2> TAKE y \in T
  <2>1. y \in Nat /\ x \in Nat /\ (y < x => <<y, x>> \in R) /\ ~ (<<y, x>> \in R)
    BY <1>2, <1>3
  <2> QED
    BY <2>1
<1> QED
  BY <1>4, Zenon DEF Min

\* The transports that declared a base.
Ways == (SUBSET Transports) \ {{}}

AuthorTyped ==
  /\ catalog \subseteq Bases
  /\ entries \in [DOMAIN entries -> Ways] /\ DOMAIN entries \subseteq Bases
  /\ overfull \in BOOLEAN
  /\ resolved \in [DOMAIN resolved -> Forms]

\* The window moves with OnPostLoad, and what did not freeze is empty.
WindowMoves ==
  /\ postLoad \in {"ahead", "loading", "loaded"} => window = "dormant"
  /\ postLoad = "collecting" => window \in {"staging", "cabi"}
  /\ window \in {"staging", "cabi"} => postLoad = "collecting"
  /\ postLoad \in {"ahead", "loading", "loaded", "collecting", "returned"}
  /\ window = "frozen" => ~overfull
  /\ window \in {"dormant", "aborted"} => entries = Nothing
  /\ window \in {"dormant", "staging", "cabi", "frozen", "aborted"}
  /\ window = "dormant" => ~overfull

\* What was declared is in the catalog until it is staged, and then among the
\* entries, until there is one too many.
Kept ==
  /\ postLoad = "ahead" => offers = {} /\ catalog = {}
  /\ postLoad \in {"loading", "loaded"} => offers = catalog \X {"manifest"}
  /\ postLoad = "collecting" /\ ~overfull => offers = Readable \cup (catalog \X {"manifest"})
  /\ window = "frozen" => offers = Readable

\* A resolution goes on only while what it resolves is frozen.
ResolvesFrozen ==
  /\ resolution \in {"entries", "own"} =>
       /\ window = "frozen" /\ DOMAIN resolved \subseteq DOMAIN entries
       /\ \A b, c \in DOMAIN resolved : resolved[b] = resolved[c] => b = c
  /\ resolution = "own" => DOMAIN resolved = DOMAIN entries
  /\ resolution \in {"ahead", "entries"} => ownForms = {}
  /\ Range(resolved) \cap ownForms = {}
  /\ resolution \notin {"entries", "own"} => resolved = Nothing
  /\ resolution \in {"ahead", "inert", "rejected", "empty", "entries", "own", "accepted"}

AuthorInv == AuthorTyped /\ WindowMoves /\ Kept /\ ResolvesFrozen

LEMMA NothingFact ==
  /\ DOMAIN Nothing = {} /\ Range(Nothing) = {}
  /\ \A S : Nothing \in [DOMAIN Nothing -> S]
  /\ entries = Nothing => Readable = {}
  BY DEF Nothing, Range, Readable

\* Declarations are made of the bases that are readable, and of no other.
LEMMA ReadableFact ==
  ASSUME NEW b, NEW t
  PROVE  <<b, t>> \in Readable <=> b \in DOMAIN entries /\ t \in entries[b]
  BY DEF Readable

\* What is readable is pairs.
LEMMA ReadablePairs ==
  ASSUME NEW o \in Readable
  PROVE  \E b \in DOMAIN entries : \E t \in entries[b] : o = <<b, t>>
  BY DEF Readable

\* A declaration that is taken adds itself; one too many condemns all.
LEMMA RegisterFact ==
  ASSUME AuthorTyped, NEW b \in Bases, NEW t \in Transports, RegisterCommon(b, t), ~overfull
  PROVE  /\ entries' \in [DOMAIN entries' -> Ways]
         /\ DOMAIN entries' \subseteq Bases
         /\ overfull' \in BOOLEAN
         /\ ~overfull' => Readable' = Readable \cup {<<b, t>>}
<1>1. CASE b \in DOMAIN entries
  <2>1. entries' = [entries EXCEPT ![b] = @ \cup {t}] /\ UNCHANGED overfull
    BY <1>1 DEF RegisterCommon
  <2>2. /\ DOMAIN entries' = DOMAIN entries
        /\ \A c \in DOMAIN entries : entries'[c] = IF c = b THEN entries[c] \cup {t} ELSE entries[c]
    BY <2>1 DEF AuthorTyped
  <2>3. Readable' = Readable \cup {<<b, t>>}
    BY <1>1, <2>2 DEF Readable
  <2>4. ASSUME NEW c \in DOMAIN entries PROVE entries'[c] \in Ways
    <3>1. entries[c] \in Ways
      BY DEF AuthorTyped
    <3> QED
      BY <2>2, <3>1 DEF Ways
  <2>5. entries' \in [DOMAIN entries -> Ways]
    BY <2>1, <2>2, <2>4
  <2> QED
    BY <2>1, <2>2, <2>3, <2>5 DEF AuthorTyped
<1>2. CASE b \notin DOMAIN entries /\ overfull' = TRUE /\ UNCHANGED entries
  BY <1>2 DEF AuthorTyped
<1>3. CASE /\ b \notin DOMAIN entries /\ UNCHANGED overfull
           /\ entries' = [c \in DOMAIN entries \cup {b} |-> IF c = b THEN {t} ELSE entries[c]]
  <2>1. /\ DOMAIN entries' = DOMAIN entries \cup {b} /\ entries'[b] = {t}
        /\ \A c \in DOMAIN entries : entries'[c] = entries[c]
    BY <1>3
  <2>2. Readable' = Readable \cup {<<b, t>>}
    BY <1>3, <2>1 DEF Readable
  <2>3. entries' \in [DOMAIN entries' -> Ways]
    <3>1. \A c \in DOMAIN entries : entries[c] \in Ways
      BY DEF AuthorTyped
    <3>2. {t} \in Ways
      BY DEF Ways
    <3> QED
      BY <1>3, <2>1, <3>1, <3>2
  <2> QED
    BY <1>3, <2>1, <2>2, <2>3 DEF AuthorTyped
<1> QED
  BY <1>1, <1>2, <1>3 DEF RegisterCommon

\* The resolution keeps what it has, while nothing that froze is changed.
LEMMA ResolutionKept ==
  ASSUME AuthorInv, UNCHANGED resolutionVars,
         window = "frozen" => window' = "frozen" /\ UNCHANGED entries
  PROVE  ResolvesFrozen' /\ resolved' \in [DOMAIN resolved' -> Forms]
  BY DEF AuthorInv, AuthorTyped, ResolvesFrozen, resolutionVars, Range

\* Up to the window nothing is staged: only the catalog is read.
LEMMA LoadingKeeps ==
  ASSUME AuthorInv, UNCHANGED <<window, entries, overfull, resolutionVars>>,
         postLoad \in {"ahead", "loading"}, postLoad' \in {"loading", "loaded", "returned"},
         catalog' \subseteq Bases,
         postLoad' \in {"loading", "loaded"} => offers' = catalog' \X {"manifest"}
  PROVE  AuthorInv'
<1>1. ResolvesFrozen' /\ resolved' \in [DOMAIN resolved' -> Forms]
  BY ResolutionKept
<1>2. AuthorTyped'
  BY <1>1 DEF AuthorInv, AuthorTyped
<1>3. WindowMoves' /\ window' = "dormant"
  BY DEF AuthorInv, WindowMoves
<1>4. Kept'
  BY <1>3 DEF Kept
<1> QED
  BY <1>1, <1>2, <1>3, <1>4 DEF AuthorInv

LEMMA PostLoadKeeps ==
  ASSUME AuthorInv, NEW transports \in SUBSET Transports, NEW resolve, NEW able, NEW files,
         PostLoad(transports, resolve, files, able)
  PROVE  AuthorInv'
<1>1. /\ postLoad = "ahead" /\ UNCHANGED <<facts, collectorVars, resolutionVars>>
      /\ postLoad' \in {"loading", "loaded", "returned"} /\ catalog' \in {catalog, {}}
  BY DEF PostLoad, Return
<1>2. catalog = {} /\ offers = {}
  BY <1>1 DEF AuthorInv, Kept
<1>3. catalog' = {} /\ offers' = {}
  BY <1>1, <1>2 DEF collectorVars
<1> QED
  BY <1>1, <1>3, LoadingKeeps DEF collectorVars

LEMMA ReadKeeps ==
  ASSUME AuthorInv, NEW declared \in SUBSET Bases, ReadCatalog(declared)
  PROVE  AuthorInv'
<1> DEFINE merged == catalog \cup declared
<1>1. /\ postLoad = "loading"
      /\ UNCHANGED <<markers, toResolve, facts, window, entries, overfull, tableOut, receipt,
                     resolutionVars>>
  BY DEF ReadCatalog
<1>2. \/ postLoad' = "returned" /\ catalog' = {}
      \/ /\ catalog' = merged /\ UNCHANGED postLoad
         /\ offers' = offers \cup (declared \X {"manifest"})
  BY DEF ReadCatalog, Return
<1>3. offers = catalog \X {"manifest"} /\ catalog \subseteq Bases
  BY <1>1 DEF AuthorInv, Kept, AuthorTyped
<1>4. CASE postLoad' = "returned" /\ catalog' = {}
  BY <1>1, <1>4, LoadingKeeps
<1>5. CASE /\ catalog' = merged /\ UNCHANGED postLoad
           /\ offers' = offers \cup (declared \X {"manifest"})
  <2>1. offers' = catalog' \X {"manifest"} /\ catalog' \subseteq Bases
    BY <1>3, <1>5
  <2> QED
    BY <1>1, <1>5, <2>1, LoadingKeeps
<1> QED
  BY <1>2, <1>4, <1>5

LEMMA FilesKeep ==
  ASSUME AuthorInv, LoadFails \/ LoadEnds \/ (\E leaf \in Leaves : ExchangeFile(leaf))
  PROVE  AuthorInv'
<1>1. postLoad = "loading" /\ UNCHANGED <<collectorVars, resolutionVars>>
  BY DEF LoadFails, LoadEnds, ExchangeFile
<1>2. \/ postLoad' = "returned" /\ catalog' = {}
      \/ postLoad' \in {"loading", "loaded"} /\ UNCHANGED catalog
  BY <1>1 DEF LoadFails, LoadEnds, ExchangeFile, Return, loaderVars
<1>3. offers = catalog \X {"manifest"} /\ catalog \subseteq Bases
  BY <1>1 DEF AuthorInv, Kept, AuthorTyped
<1> QED
  BY <1>1, <1>2, <1>3, LoadingKeeps DEF collectorVars

-----------------------------------------------------------------------------
LEMMA BeginStagingKeeps == ASSUME AuthorInv, BeginStaging PROVE AuthorInv'
<1>1. /\ postLoad = "loaded" /\ postLoad' = "collecting" /\ window = "dormant" /\ window' = "staging"
      /\ UNCHANGED <<loaderVars, entries, overfull, offers, resolutionVars>>
  BY DEF BeginStaging
<1>2. ResolvesFrozen' /\ resolved' \in [DOMAIN resolved' -> Forms]
  BY <1>1, ResolutionKept
<1>3. AuthorTyped' /\ WindowMoves'
  BY <1>1, <1>2 DEF AuthorInv, AuthorTyped, WindowMoves, loaderVars
<1>4. Readable' = {} /\ offers = catalog \X {"manifest"}
  BY <1>1, NothingFact DEF AuthorInv, WindowMoves, Kept, Readable
<1>5. Kept'
  BY <1>1, <1>4 DEF Kept, loaderVars
<1> QED
  BY <1>2, <1>3, <1>5 DEF AuthorInv

LEMMA StageKeeps == ASSUME AuthorInv, StageManifest PROVE AuthorInv'
<1> DEFINE b == Min(catalog)
<1>1. /\ postLoad = "collecting" /\ window = "staging" /\ catalog # {}
      /\ RegisterCommon(b, "manifest") /\ catalog' = catalog \ {b}
      /\ UNCHANGED <<postLoad, window, offers, resolutionVars>>
  BY DEF StageManifest, resolutionVars
<1>2. b \in catalog /\ catalog \subseteq Bases /\ "manifest" \in Transports
  BY <1>1, MinFact, AuthorConstants DEF AuthorInv, AuthorTyped, Transports
<1> HIDE DEF b
<1>3. ResolvesFrozen' /\ resolved' \in [DOMAIN resolved' -> Forms]
  BY <1>1, ResolutionKept
<1>4. CASE ~overfull
  <2>1. /\ entries' \in [DOMAIN entries' -> Ways] /\ DOMAIN entries' \subseteq Bases
        /\ overfull' \in BOOLEAN
        /\ ~overfull' => Readable' = Readable \cup {<<b, "manifest">>}
    BY <1>1, <1>2, <1>4, RegisterFact DEF AuthorInv
  <2>2. AuthorTyped' /\ WindowMoves'
    BY <1>1, <1>2, <1>3, <2>1 DEF AuthorInv, AuthorTyped, WindowMoves
  <2>3. offers = Readable \cup (catalog \X {"manifest"})
    BY <1>1, <1>4 DEF AuthorInv, Kept
  <2>4. ~overfull' => offers' = Readable' \cup (catalog' \X {"manifest"})
    BY <1>1, <1>2, <2>1, <2>3
  <2>5. Kept'
    BY <1>1, <2>4 DEF Kept
  <2> QED
    BY <1>3, <2>2, <2>5 DEF AuthorInv
<1>5. CASE overfull
  <2>1. overfull' = TRUE /\ entries' \in [DOMAIN entries' -> Ways] /\ DOMAIN entries' \subseteq Bases
    <3>1. CASE b \in DOMAIN entries
      <4>1. entries' = [entries EXCEPT ![b] = @ \cup {"manifest"}] /\ UNCHANGED overfull
        BY <1>1, <3>1 DEF RegisterCommon
      <4>2. entries[b] \in Ways /\ entries[b] \cup {"manifest"} \in Ways
        BY <1>2, <3>1 DEF AuthorInv, AuthorTyped, Ways
      <4> QED
        BY <1>5, <4>1, <4>2 DEF AuthorInv, AuthorTyped
    <3>2. CASE b \notin DOMAIN entries /\ overfull' = TRUE /\ UNCHANGED entries
      BY <3>2 DEF AuthorInv, AuthorTyped
    <3>3. CASE /\ b \notin DOMAIN entries /\ UNCHANGED overfull
               /\ entries' = [c \in DOMAIN entries \cup {b} |->
                                IF c = b THEN {"manifest"} ELSE entries[c]]
      <4>1. {"manifest"} \in Ways /\ b \in Bases /\ \A c \in DOMAIN entries : entries[c] \in Ways
        BY <1>2 DEF AuthorInv, AuthorTyped, Ways
      <4>2. entries' \in [DOMAIN entries \cup {b} -> Ways]
        BY <3>3, <4>1
      <4> QED
        BY <1>5, <3>3, <4>1, <4>2 DEF AuthorInv, AuthorTyped
    <3> QED
      BY <1>1, <3>1, <3>2, <3>3 DEF RegisterCommon
  <2>2. AuthorTyped' /\ WindowMoves'
    BY <1>1, <1>2, <1>3, <2>1 DEF AuthorInv, AuthorTyped, WindowMoves
  <2>3. Kept'
    BY <1>1, <2>1 DEF Kept
  <2> QED
    BY <1>3, <2>2, <2>3 DEF AuthorInv
<1> QED
  BY <1>4, <1>5 DEF AuthorInv, AuthorTyped

LEMMA OpenKeeps == ASSUME AuthorInv, OpenCABI \/ (\E t \in Callers : Query(t)) PROVE AuthorInv'
<1>1. /\ window \in {"staging", "cabi"} /\ window' = "cabi"
      /\ UNCHANGED <<postLoad, loaderVars, entries, overfull, offers, resolutionVars>>
  BY DEF OpenCABI, Query
<1>2. ResolvesFrozen' /\ resolved' \in [DOMAIN resolved' -> Forms]
  BY <1>1, ResolutionKept
<1>3. AuthorTyped' /\ WindowMoves'
  BY <1>1, <1>2 DEF AuthorInv, AuthorTyped, WindowMoves, loaderVars
<1>4. Kept'
  BY <1>1 DEF AuthorInv, Kept, WindowMoves, loaderVars, Readable
<1> QED
  BY <1>2, <1>3, <1>4 DEF AuthorInv

\* A listener declares while it may; a table kept for later declares nothing.
LEMMA RegisterKeeps ==
  ASSUME AuthorInv, NEW t, NEW b \in Bases, RegisterBase(t, b)
  PROVE  AuthorInv'
<1>1. UNCHANGED <<postLoad, loaderVars, window, resolutionVars>>
  BY DEF RegisterBase
<1>2. CASE ~MayRegister(t)
  <2>1. UNCHANGED <<entries, overfull, offers>>
    BY <1>2 DEF RegisterBase
  <2>2. ResolvesFrozen' /\ resolved' \in [DOMAIN resolved' -> Forms]
    BY <1>1, <2>1, ResolutionKept
  <2>3. AuthorTyped' /\ WindowMoves' /\ Kept'
    BY <1>1, <2>1, <2>2 DEF AuthorInv, AuthorTyped, WindowMoves, Kept, Readable, loaderVars
  <2> QED
    BY <2>2, <2>3 DEF AuthorInv
<1>3. CASE MayRegister(t)
  <2>1. /\ window = "cabi" /\ postLoad = "collecting"
        /\ offers' = offers \cup {<<b, "cabi">>}
    BY <1>3 DEF RegisterBase, MayRegister, AuthorInv, WindowMoves
  <2>2. ResolvesFrozen' /\ resolved' \in [DOMAIN resolved' -> Forms]
    BY <1>1, <2>1, ResolutionKept
  <2>3. CASE overfull
    <3>1. UNCHANGED <<entries, overfull>>
      BY <2>3 DEF RegisterBase
    <3>2. AuthorTyped' /\ WindowMoves' /\ Kept'
      BY <1>1, <2>1, <2>2, <2>3, <3>1
      DEF AuthorInv, AuthorTyped, WindowMoves, Kept, loaderVars
    <3> QED
      BY <2>2, <3>2 DEF AuthorInv
  <2>4. CASE ~overfull
    <3>1. RegisterCommon(b, "cabi") /\ "cabi" \in Transports
      BY <1>3, <2>4 DEF RegisterBase, Transports
    <3>2. /\ entries' \in [DOMAIN entries' -> Ways] /\ DOMAIN entries' \subseteq Bases
          /\ overfull' \in BOOLEAN
          /\ ~overfull' => Readable' = Readable \cup {<<b, "cabi">>}
      BY <2>4, <3>1, RegisterFact DEF AuthorInv
    <3>3. AuthorTyped' /\ WindowMoves'
      BY <1>1, <2>1, <2>2, <3>2 DEF AuthorInv, AuthorTyped, WindowMoves, loaderVars
    <3>4. ~overfull' => offers' = Readable' \cup (catalog' \X {"manifest"})
      BY <1>1, <2>1, <2>4, <3>2 DEF AuthorInv, Kept, loaderVars
    <3>5. Kept'
      BY <1>1, <2>1, <3>4 DEF Kept
    <3> QED
      BY <2>2, <3>3, <3>5 DEF AuthorInv
  <2> QED
    BY <2>3, <2>4 DEF AuthorInv, AuthorTyped
<1> QED
  BY <1>2, <1>3

\* The window freezes with all that was declared, or keeps nothing.
LEMMA FinishKeeps ==
  ASSUME AuthorInv, CollectionUnwinds \/ (\E succeeded \in BOOLEAN : FinalizeCollection(succeeded))
  PROVE  AuthorInv'
<1>1. /\ postLoad = "collecting" /\ postLoad' = "returned" /\ catalog' = {}
      /\ UNCHANGED <<offers, resolutionVars>>
  BY DEF CollectionUnwinds, FinalizeCollection, Return
<1>2. \/ CloseAndAbort
      \/ /\ catalog = {} /\ ~overfull /\ window' = "frozen" /\ UNCHANGED <<entries, overfull>>
  BY DEF CollectionUnwinds, FinalizeCollection, ProofHolds
<1>3. window # "frozen"
  BY <1>1 DEF AuthorInv, WindowMoves
<1>4. ResolvesFrozen' /\ resolved' \in [DOMAIN resolved' -> Forms]
  BY <1>1, <1>3, ResolutionKept
<1>5. CASE CloseAndAbort
  <2>1. window' = "aborted" /\ entries' = Nothing /\ overfull' = TRUE
    BY <1>5 DEF CloseAndAbort
  <2>2. entries' \in [DOMAIN entries' -> Ways] /\ DOMAIN entries' \subseteq Bases
    BY <2>1, NothingFact
  <2>3. AuthorTyped' /\ WindowMoves' /\ Kept'
    BY <1>1, <1>4, <2>1, <2>2 DEF AuthorTyped, WindowMoves, Kept
  <2> QED
    BY <1>4, <2>3 DEF AuthorInv
<1>6. CASE /\ catalog = {} /\ ~overfull /\ window' = "frozen" /\ UNCHANGED <<entries, overfull>>
  <2>1. offers = Readable /\ Readable' = Readable
    BY <1>1, <1>6 DEF AuthorInv, Kept, Readable
  <2>2. AuthorTyped' /\ WindowMoves'
    BY <1>1, <1>4, <1>6 DEF AuthorInv, AuthorTyped, WindowMoves
  <2>3. Kept'
    BY <1>1, <1>6, <2>1 DEF Kept
  <2> QED
    BY <1>4, <2>2, <2>3 DEF AuthorInv
<1> QED
  BY <1>2, <1>5, <1>6

-----------------------------------------------------------------------------
\* A step of the resolution: the window and what it collected stay.
LEMMA ResolvingKeeps ==
  ASSUME AuthorInv, UNCHANGED <<postLoad, loaderVars, collectorVars>>,
         ResolvesFrozen', resolved' \in [DOMAIN resolved' -> Forms]
  PROVE  AuthorInv'
<1>1. AuthorTyped' /\ WindowMoves' /\ Kept'
  BY DEF AuthorInv, AuthorTyped, WindowMoves, Kept, Readable, loaderVars, collectorVars
<1> QED
  BY <1>1 DEF AuthorInv

\* A resolution that ends has nothing left of it.
LEMMA EndKeeps ==
  ASSUME AuthorInv, UNCHANGED <<postLoad, loaderVars, collectorVars>>,
         NEW verdict \in {"inert", "rejected", "empty", "accepted"}, EndResolution(verdict)
  PROVE  AuthorInv'
<1>1. resolution' = verdict /\ resolved' = Nothing /\ ownForms' = {}
  BY DEF EndResolution
<1>2. resolved' \in [DOMAIN resolved' -> Forms] /\ ResolvesFrozen'
  BY <1>1, NothingFact DEF ResolvesFrozen
<1> QED
  BY <1>2, ResolvingKeeps

LEMMA DataLoadedKeeps == ASSUME AuthorInv, DataLoaded_Authors PROVE AuthorInv'
<1>1. resolution = "ahead" /\ UNCHANGED <<postLoad, loaderVars, collectorVars>>
  BY DEF DataLoaded_Authors
<1>2. CASE \E verdict \in {"inert", "rejected", "empty"} : EndResolution(verdict)
  BY <1>1, <1>2, EndKeeps
<1>3. CASE /\ SnapshotIsExact /\ resolution' = "entries" /\ UNCHANGED <<resolved, ownSeen, ownForms>>
  <2>1. window = "frozen" /\ UNCHANGED <<window, entries>>
    BY <1>1, <1>3 DEF SnapshotIsExact, collectorVars
  <2>2. resolved = Nothing /\ Range(resolved) \cap ownForms = {}
    BY <1>1 DEF AuthorInv, ResolvesFrozen
  <2>3. resolved' \in [DOMAIN resolved' -> Forms]
    BY <1>3, <2>2, NothingFact
  <2>4. DOMAIN resolved' = {} /\ Range(resolved)' = {}
    BY <1>3, <2>2, NothingFact DEF Range
  <2>5. ownForms' = {}
    BY <1>1, <1>3 DEF AuthorInv, ResolvesFrozen
  <2>6. ResolvesFrozen'
    BY <1>3, <2>1, <2>4, <2>5 DEF ResolvesFrozen
  <2> QED
    BY <1>1, <2>3, <2>6, ResolvingKeeps
<1> QED
  BY <1>2, <1>3 DEF DataLoaded_Authors

LEMMA ResolveKeeps ==
  ASSUME AuthorInv, NEW form \in Forms \cup {NoForm}, ResolveEntry(form)
  PROVE  AuthorInv'
<1> DEFINE b == Min(DOMAIN entries \ DOMAIN resolved)
<1>1. /\ resolution = "entries" /\ DOMAIN resolved # DOMAIN entries
      /\ UNCHANGED <<postLoad, loaderVars, collectorVars>>
      /\ \/ EndResolution("rejected")
         \/ /\ form # NoForm /\ form \notin Range(resolved)
            /\ resolved' = [c \in DOMAIN resolved \cup {b} |-> IF c = b THEN form ELSE resolved[c]]
            /\ UNCHANGED <<resolution, ownSeen, ownForms>>
  BY DEF ResolveEntry
<1>2. /\ window = "frozen" /\ DOMAIN resolved \subseteq DOMAIN entries
      /\ DOMAIN entries \subseteq Nat
      /\ \A d, c \in DOMAIN resolved : resolved[d] = resolved[c] => d = c
      /\ resolved \in [DOMAIN resolved -> Forms]
  BY <1>1, AuthorConstants DEF AuthorInv, ResolvesFrozen, AuthorTyped
<1>3. b \in DOMAIN entries \ DOMAIN resolved
  BY <1>1, <1>2, MinFact
<1> HIDE DEF b
<1>4. CASE EndResolution("rejected")
  BY <1>1, <1>4, EndKeeps
<1>5. CASE /\ form # NoForm /\ form \notin Range(resolved)
           /\ resolved' = [c \in DOMAIN resolved \cup {b} |-> IF c = b THEN form ELSE resolved[c]]
           /\ UNCHANGED <<resolution, ownSeen, ownForms>>
  <2>1. /\ DOMAIN resolved' = DOMAIN resolved \cup {b} /\ resolved'[b] = form
        /\ \A c \in DOMAIN resolved : resolved'[c] = resolved[c]
    BY <1>3, <1>5
  <2>2. resolved' \in [DOMAIN resolved' -> Forms]
    BY <1>2, <1>5, <2>1
  <2>3. \A d, c \in DOMAIN resolved' : resolved'[d] = resolved'[c] => d = c
    BY <1>2, <1>5, <2>1 DEF Range
  <2>4. ownForms' = {} /\ UNCHANGED <<window, entries>>
    BY <1>1, <1>5 DEF AuthorInv, ResolvesFrozen, collectorVars
  <2>5. ResolvesFrozen'
    BY <1>1, <1>2, <1>3, <1>5, <2>1, <2>3, <2>4 DEF ResolvesFrozen
  <2> QED
    BY <1>1, <2>2, <2>5, ResolvingKeeps
<1> QED
  BY <1>1, <1>4, <1>5

LEMMA OwnKeeps ==
  ASSUME AuthorInv, CloseResolutionPass \/ (\E active \in BOOLEAN, form \in Forms \cup {NoForm} :
                                              AddOwnIdentity(active, form))
  PROVE  AuthorInv'
<1>1. CASE CloseResolutionPass
  <2>1. /\ resolution = "entries" /\ DOMAIN resolved = DOMAIN entries /\ resolution' = "own"
        /\ UNCHANGED <<resolved, ownSeen, ownForms, postLoad, loaderVars, collectorVars>>
    BY <1>1 DEF CloseResolutionPass
  <2>2. ResolvesFrozen' /\ resolved' \in [DOMAIN resolved' -> Forms]
    BY <2>1 DEF AuthorInv, AuthorTyped, ResolvesFrozen, collectorVars, Range
  <2> QED
    BY <2>1, <2>2, ResolvingKeeps
<1>2. ASSUME NEW active \in BOOLEAN, NEW form \in Forms \cup {NoForm}, AddOwnIdentity(active, form)
      PROVE  AuthorInv'
  <2>1. /\ resolution = "own"
        /\ UNCHANGED <<postLoad, loaderVars, collectorVars>>
        /\ \/ EndResolution("rejected")
           \/ /\ ~active \/ (form \notin Range(resolved) /\ form \notin ownForms)
              /\ ownForms' = (IF active THEN ownForms \cup {form} ELSE ownForms)
              /\ UNCHANGED <<resolution, resolved>>
    BY <1>2 DEF AddOwnIdentity
  <2>2. CASE EndResolution("rejected")
    BY <2>1, <2>2, EndKeeps
  <2>3. CASE /\ ~active \/ (form \notin Range(resolved) /\ form \notin ownForms)
             /\ ownForms' = (IF active THEN ownForms \cup {form} ELSE ownForms)
             /\ UNCHANGED <<resolution, resolved>>
    <3>1. Range(resolved) \cap ownForms' = {}
      BY <2>3 DEF AuthorInv, ResolvesFrozen
    <3>2. Range(resolved)' = Range(resolved) /\ UNCHANGED <<window, entries>>
      BY <2>1, <2>3 DEF collectorVars, Range
    <3>3. ResolvesFrozen' /\ resolved' \in [DOMAIN resolved' -> Forms]
      BY <2>1, <2>3, <3>1, <3>2 DEF AuthorInv, AuthorTyped, ResolvesFrozen
    <3> QED
      BY <2>1, <3>3, ResolvingKeeps
  <2> QED
    BY <2>1, <2>2, <2>3
<1> QED
  BY <1>1, <1>2

LEMMA ResolutionEndsKeep == ASSUME AuthorInv, CloseAliasPass \/ ResolutionUnwinds PROVE AuthorInv'
<1>1. /\ EndResolution("accepted") \/ EndResolution("rejected")
      /\ UNCHANGED <<postLoad, loaderVars, collectorVars>>
  BY DEF CloseAliasPass, ResolutionUnwinds
<1> QED
  BY <1>1, EndKeeps

LEMMA AuthorStarts == AuthorInit => AuthorInv
<1> SUFFICES ASSUME AuthorInit PROVE AuthorInv
  OBVIOUS
<1>1. AuthorTyped /\ WindowMoves
  BY NothingFact DEF AuthorInit, AuthorTyped, WindowMoves
<1>2. Kept
  BY DEF AuthorInit, Kept
<1>3. ResolvesFrozen
  BY DEF AuthorInit, ResolvesFrozen
<1> QED
  BY <1>1, <1>2, <1>3 DEF AuthorInv

LEMMA AuthorKeeps == AuthorInv /\ [AuthorNext]_authorVars => AuthorInv'
<1> SUFFICES ASSUME AuthorInv, [AuthorNext]_authorVars PROVE AuthorInv'
  OBVIOUS
<1>1. CASE UNCHANGED authorVars
  <2>1. ResolvesFrozen' /\ resolved' \in [DOMAIN resolved' -> Forms]
    BY <1>1, ResolutionKept DEF authorVars, collectorVars
  <2> QED
    BY <1>1, <2>1, ResolvingKeeps DEF authorVars
<1>2. CASE \E transports \in SUBSET Transports, resolve, able \in BOOLEAN, files \in SUBSET Leaves :
             PostLoad(transports, resolve, files, able)
  BY <1>2, PostLoadKeeps
<1>3. CASE \E declared \in SUBSET Bases : ReadCatalog(declared)
  BY <1>3, ReadKeeps
<1>4. CASE LoadFails \/ LoadEnds \/ (\E leaf \in Leaves : ExchangeFile(leaf))
  BY <1>4, FilesKeep
<1>5. CASE BeginStaging \/ StageManifest \/ OpenCABI \/ (\E t \in Callers : Query(t))
  BY <1>5, BeginStagingKeeps, StageKeeps, OpenKeeps
<1>6. CASE \E t \in Callers, b \in Bases : RegisterBase(t, b)
  BY <1>6, RegisterKeeps
<1>7. CASE CollectionUnwinds \/ (\E succeeded \in BOOLEAN : FinalizeCollection(succeeded))
  BY <1>7, FinishKeeps
<1>8. CASE DataLoaded_Authors \/ (\E form \in Forms \cup {NoForm} : ResolveEntry(form))
  BY <1>8, DataLoadedKeeps, ResolveKeeps
<1>9. CASE CloseResolutionPass \/ (\E active \in BOOLEAN, form \in Forms \cup {NoForm} :
                                     AddOwnIdentity(active, form))
  BY <1>9, OwnKeeps
<1>10. CASE CloseAliasPass \/ ResolutionUnwinds
  BY <1>10, ResolutionEndsKeep
<1> QED
  BY <1>1, <1>2, <1>3, <1>4, <1>5, <1>6, <1>7, <1>8, <1>9, <1>10 DEF AuthorNext

\* As many forms as bases: no two bases were resolved to one form.
LEMMA OneFormEach ==
  ASSUME AuthorInv, resolution = "own"
  PROVE  Cardinality(Range(resolved)) = Cardinality(DOMAIN resolved)
<1>1. /\ DOMAIN resolved \subseteq Bases
      /\ \A b, c \in DOMAIN resolved : resolved[b] = resolved[c] => b = c
      /\ resolved \in [DOMAIN resolved -> Range(resolved)]
  BY DEF AuthorInv, ResolvesFrozen, AuthorTyped, Range
<1>2. IsFiniteSet(DOMAIN resolved)
  BY <1>1, FS_Subset, AuthorConstants
<1>3. resolved \in Surjection(DOMAIN resolved, Range(resolved))
  BY <1>1 DEF Surjection, Range
<1>4. resolved \in Injection(DOMAIN resolved, Range(resolved))
  BY <1>1 DEF Injection, IsInjective
<1> QED
  BY <1>2, <1>3, <1>4, FS_Surjection

\* What TakenWhole asks of a step.
WholeStep ==
  /\ window' = "frozen" => Readable' = offers'
  /\ postLoad' = "returned" /\ window' # "frozen" => entries' = Nothing
  /\ resolution' = "accepted" /\ resolution # "accepted" =>
       /\ DOMAIN resolved = {o[1] : o \in offers}
       /\ Cardinality(Range(resolved)) = Cardinality(DOMAIN resolved)
       /\ Range(resolved) \cap ownForms = {}

LEMMA TakenWholeStep ==
  ASSUME AuthorInv, AuthorInv', [AuthorNext]_authorVars
  PROVE  WholeStep
<1>1. window' = "frozen" => Readable' = offers'
  BY DEF AuthorInv, Kept
<1>2. postLoad' = "returned" /\ window' # "frozen" => entries' = Nothing
  BY DEF AuthorInv, WindowMoves
<1>3. ASSUME resolution' = "accepted", resolution # "accepted"
      PROVE  /\ DOMAIN resolved = {o[1] : o \in offers}
             /\ Cardinality(Range(resolved)) = Cardinality(DOMAIN resolved)
             /\ Range(resolved) \cap ownForms = {}
  <2>1. resolution = "own"
    <3>1. CASE UNCHANGED resolution
      BY <1>3, <3>1
    <3>2. CASE CloseAliasPass
      BY <3>2 DEF CloseAliasPass
    <3>3. (\/ \E transports \in SUBSET Transports, resolve, able \in BOOLEAN, files \in SUBSET Leaves :
                PostLoad(transports, resolve, files, able)
           \/ \E leaf \in Leaves : ExchangeFile(leaf)
           \/ \E declared \in SUBSET Bases : ReadCatalog(declared)
           \/ LoadFails \/ LoadEnds \/ UNCHANGED authorVars) => UNCHANGED resolution
      BY DEF PostLoad, ExchangeFile, ReadCatalog, LoadFails, LoadEnds, authorVars, resolutionVars
    <3>4. (\/ BeginStaging \/ StageManifest \/ OpenCABI
           \/ \E t \in Callers : Query(t)
           \/ \E t \in Callers, b \in Bases : RegisterBase(t, b)
           \/ \E succeeded \in BOOLEAN : FinalizeCollection(succeeded)
           \/ CollectionUnwinds) => UNCHANGED resolution
      BY DEF BeginStaging, StageManifest, OpenCABI, Query, RegisterBase, FinalizeCollection,
             CollectionUnwinds, resolutionVars
    <3>5. (\/ DataLoaded_Authors
           \/ \E form \in Forms \cup {NoForm} : ResolveEntry(form)
           \/ CloseResolutionPass
           \/ \E active \in BOOLEAN, form \in Forms \cup {NoForm} : AddOwnIdentity(active, form)
           \/ ResolutionUnwinds) => resolution' # "accepted" \/ UNCHANGED resolution
      BY DEF DataLoaded_Authors, ResolveEntry, CloseResolutionPass, AddOwnIdentity,
             ResolutionUnwinds, EndResolution
    <3> QED
      BY <1>3, <3>1, <3>2, <3>3, <3>4, <3>5 DEF AuthorNext
  <2>2. /\ DOMAIN resolved = DOMAIN entries /\ window = "frozen"
        /\ Range(resolved) \cap ownForms = {}
    BY <2>1 DEF AuthorInv, ResolvesFrozen
  <2>3. offers = Readable
    BY <2>2 DEF AuthorInv, Kept
  <2>4. ASSUME NEW o \in offers PROVE o[1] \in DOMAIN entries
    BY <2>3, <2>4, ReadablePairs
  <2>5. ASSUME NEW b \in DOMAIN entries PROVE \E o \in offers : o[1] = b
    <3>1. PICK t : t \in entries[b]
      BY DEF AuthorInv, AuthorTyped, Ways
    <3>2. <<b, t>> \in offers
      BY <2>3, <3>1, ReadableFact
    <3> QED
      BY <3>2
  <2>6. DOMAIN entries = {o[1] : o \in offers}
    BY <2>4, <2>5
  <2> QED
    BY <2>1, <2>2, <2>6, OneFormEach
<1> QED
  BY <1>1, <1>2, <1>3 DEF WholeStep

\* What the others declare is taken whole or not at all, for any number of bases,
\* files and threads and whoever keeps the table (CohortBuilder, Collector,
\* CollectionWindow and ResolutionTransaction).
THEOREM TakenWholeHolds == AuthorInit /\ [][AuthorNext]_authorVars => TakenWhole
<1>1. AuthorInit /\ [][AuthorNext]_authorVars => []AuthorInv
  BY AuthorStarts, AuthorKeeps, PTL
<1>2. ASSUME AuthorInv, AuthorInv', [AuthorNext]_authorVars PROVE WholeStep
  BY <1>2, TakenWholeStep
<1> QED
  BY <1>1, <1>2, PTL DEF TakenWhole, WholeStep

-----------------------------------------------------------------------------
(* The session.  A behaviour follows one part, and the others stay as they     *)
(* begin, so each part sees its own steps or none.                             *)

LEMMA PartsStart ==
  SessionInit => ActivationInit /\ ScopesInit /\ PlacementInit /\ AuthorInit
  BY DEF SessionInit

LEMMA PartsStep ==
  ASSUME [SessionNext]_sessionVars
  PROVE  /\ [ActivationNext]_activationVars /\ [ScopesNext]_scopesVars
         /\ [PlacementNext]_placementVars /\ [AuthorNext]_authorVars
  BY DEF SessionNext, sessionVars

\* Whatever part a session follows, its safety holds (the scheduler's is in
\* StandingMirrorsProofs): no retry of the activation disables the product, every
\* change of the engine's state has an owner that owes it back, a published image
\* is of a clean scene, no kit, ghost or control is lost by a placement, no
\* request reaches the game after its own, and declarations are taken whole or
\* not at all.
THEOREM PluginSessionCorrect ==
  SessionSpec =>
    /\ [](NoSelfConflict /\ FailuresAttributable /\ BodyHasOwner)
    /\ [](ItemHasOwner /\ PublishedIsClean /\ HidingSurvivesInventory)
    /\ [](KitsConserved /\ PlacementCleansUp /\ OwnGameOnly)
    /\ TakenWhole
<1>1. SessionSpec => [](ActivationInv /\ ScopesInv /\ PlacementInv /\ AuthorInv)
  <2>1. SessionInit => ActivationInv /\ ScopesInv /\ PlacementInv /\ AuthorInv
    BY PartsStart, ActivationStarts, ScopesInitHolds, PlacementStarts, AuthorStarts
  <2>2. /\ ActivationInv /\ ScopesInv /\ PlacementInv /\ AuthorInv
        /\ [SessionNext]_sessionVars
        => (ActivationInv /\ ScopesInv /\ PlacementInv /\ AuthorInv)'
    BY PartsStep, ActivationKeeps, ScopesStepHolds, PlacementKeeps, AuthorKeeps
  <2> QED
    BY <2>1, <2>2, PTL DEF SessionSpec
<1>2. ActivationInv => NoSelfConflict
  BY DEF ActivationInv
<1>3. ScopesInv => /\ FailuresAttributable /\ BodyHasOwner
                  /\ ItemHasOwner /\ PublishedIsClean /\ HidingSurvivesInventory
  BY OwedAsStated, ItemOwnerFact, PublishedFact
  DEF ScopesInv, IInv, FailuresAttributable, ItemInv
<1>4. PlacementInv => KitsConserved /\ PlacementCleansUp /\ OwnGameOnly
  BY OwnGameFact DEF PlacementInv
<1>5. ASSUME AuthorInv, AuthorInv', [SessionNext]_sessionVars
      PROVE  WholeStep
  BY <1>5, PartsStep, TakenWholeStep
<1> QED
  BY <1>1, <1>2, <1>3, <1>4, <1>5, PTL DEF SessionSpec, TakenWhole, WholeStep
=============================================================================
