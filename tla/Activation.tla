----------------------------- MODULE Activation -----------------------------
(***************************************************************************)
(* The activation of the product: the Lifecycle of                          *)
(* src/src/MirrorActivation.cpp, the SKSE messages that drive it and the    *)
(* retries of src/src/MirrorsOfSkyrimPlugin.cpp.  The lifecycle locks each   *)
(* call; TryCommitMirrorActivation makes several, so another thread may      *)
(* run between them.  Readiness of the hooks and of the plugin data is the  *)
(* environment's.                                                           *)
(***************************************************************************)
EXTENDS Naturals, FiniteSets

CONSTANTS Main,     \* the thread of the SKSE messages and of the task queue
          Events    \* threads of the engine's own

ASSUME ThreadsAssumption == IsFiniteSet(Events) /\ Events # {}

Threads == {Main} \cup Events

VARIABLES
  stage,      \* Lifecycle::stage_
  prepared,   \* Lifecycle::prepared_: none, supported, unsupported, conflicted
  committed,  \* Lifecycle::committed_: none, active, inactive, conflicted
  phase,      \* the last SKSE message of the session's start
  ready,      \* hooks and plugin data are ready: BuildDataReadiness
  call,       \* where each thread is inside a commit attempt
  gameLoaded, \* g_gameLoadedSeen
  queued,     \* CellLoadFallbackSink::m_queued
  task,       \* the fallback task waits in the SKSE task queue
  promoted,   \* PromoteCommittedActivation has switched the modules on
  sources     \* the threads the engine delivers cell events on

lifecycle == <<stage, prepared, committed>>
session == <<phase, ready, gameLoaded, queued, task, sources>>
activationVars == <<stage, prepared, committed, phase, ready, call, gameLoaded,
                    queued, task, promoted, sources>>

Stages == {"Cold", "Prepared", "Committed", "Conflict"}
Calls == {"none", "try", "check", "build", "commit", "promote"}

\* ActivationHasLoadedMaster
HasLoadedMaster == committed = "active"

ActivationInit ==
  /\ stage = "Cold" /\ prepared = "none" /\ committed = "none"
  /\ phase = "PostLoad"
  /\ ready = FALSE
  /\ call = [t \in Threads |-> "none"]
  /\ gameLoaded = FALSE /\ queued = FALSE /\ task = FALSE
  /\ promoted = FALSE
  /\ sources \in {{Main}, Events}

MovesTo(t, where) == call' = [call EXCEPT ![t] = where]

-----------------------------------------------------------------------------
\* PrepareAtInputLoaded, with the runtime's verdict: an unknown or unsupported
\* runtime is prepared too, with nothing requested.
Prepare(runtime) ==
  /\ prepared' = IF stage = "Cold" THEN runtime ELSE "conflicted"
  /\ committed' = IF stage = "Cold" THEN committed ELSE "none"
  /\ stage' = IF stage = "Cold" THEN "Prepared" ELSE "Conflict"

\* kInputLoaded; the modules install their hooks only if it was prepared.
InputLoaded(runtime) ==
  /\ phase = "PostLoad" /\ call[Main] = "none"
  /\ phase' = "InputLoaded"
  /\ Prepare(runtime)
  /\ UNCHANGED <<ready, call, gameLoaded, queued, task, promoted, sources>>

\* The allocation of the prepared state throws.
InputLoadedOutOfMemory ==
  /\ phase = "PostLoad" /\ call[Main] = "none"
  /\ phase' = "InputLoaded"
  /\ stage' = "Conflict" /\ prepared' = "none" /\ committed' = "none"
  /\ UNCHANGED <<ready, call, gameLoaded, queued, task, promoted, sources>>

\* Hooks and plugin data become ready at some time after the preparation.
BecomeReady ==
  /\ stage # "Cold" /\ ~ready
  /\ ready' = TRUE
  /\ UNCHANGED <<lifecycle, phase, call, gameLoaded, queued, task, promoted, sources>>

\* kDataLoaded: it tries to commit, then promotes whatever came of it.
RunDataLoaded ==
  /\ phase = "InputLoaded" /\ call[Main] = "none"
  /\ phase' = "DataLoaded"
  /\ MovesTo(Main, "try")
  /\ UNCHANGED <<lifecycle, ready, gameLoaded, queued, task, promoted, sources>>

\* The end of kDataLoaded: the cell sink is registered.
RegisterSink ==
  /\ phase = "DataLoaded" /\ call[Main] = "none"
  /\ phase' = "Playing"
  /\ UNCHANGED <<lifecycle, ready, call, gameLoaded, queued, task, promoted, sources>>

\* RetryDeferredMirrorActivation, entered by thread t.
Retry(t) == IF HasLoadedMaster THEN UNCHANGED call ELSE MovesTo(t, "try")

\* kPostLoadGame or kNewGame: HandleGameLoaded.
GameLoaded ==
  /\ phase = "Playing" /\ call[Main] = "none"
  /\ gameLoaded' = TRUE
  /\ Retry(Main)
  /\ UNCHANGED <<lifecycle, phase, ready, queued, task, promoted, sources>>

\* The fallback task: it does nothing once a game-loaded message was seen.
RunTask ==
  /\ task /\ call[Main] = "none"
  /\ task' = FALSE
  /\ IF gameLoaded
     THEN UNCHANGED <<gameLoaded, call, sources>>
     ELSE /\ gameLoaded' = TRUE
          /\ Retry(Main)
  /\ UNCHANGED <<lifecycle, phase, ready, queued, promoted, sources>>

\* CellLoadFallbackSink::ProcessEvent after the game was loaded.
CellLoadedRetry(t) ==
  /\ phase = "Playing" /\ call[t] = "none"
  /\ gameLoaded
  /\ Retry(t)
  /\ UNCHANGED <<lifecycle, session, promoted>>

\* Mutant: without a task interface the flag stays set.
CellLoadedQueueLost(t, tasks) ==
  /\ phase = "Playing" /\ call[t] = "none"
  /\ ~gameLoaded /\ ~queued
  /\ queued' = TRUE
  /\ task' = (task \/ tasks)
  /\ UNCHANGED <<lifecycle, phase, ready, call, gameLoaded, promoted, sources>>

\* ProcessEvent before it: one event queues the fallback; without a task
\* interface the flag is given back.
CellLoadedQueue(t, tasks) ==
  /\ phase = "Playing" /\ call[t] = "none"
  /\ ~gameLoaded /\ ~queued
  /\ queued' = tasks
  /\ task' = (task \/ tasks)
  /\ UNCHANGED <<lifecycle, phase, ready, call, gameLoaded, promoted, sources>>

-----------------------------------------------------------------------------
(* TryCommitMirrorActivation, one step per call into the lifecycle.         *)

\* Only RunDataLoaded promotes without a successful commit.
Afterwards(t) == IF phase = "DataLoaded" THEN "promote" ELSE "none"

\* First Stage() call: already committed.
CheckCommitted(t) ==
  /\ call[t] = "try"
  /\ MovesTo(t, CASE stage # "Committed" -> "check"
             [] stage = "Committed" /\ HasLoadedMaster -> "promote"
             [] OTHER -> Afterwards(t))
  /\ UNCHANGED <<lifecycle, session, promoted>>

\* Second Stage() call: only a prepared lifecycle may be committed.
CheckPrepared(t) ==
  /\ call[t] = "check"
  /\ MovesTo(t, IF stage = "Prepared" THEN "build" ELSE Afterwards(t))
  /\ UNCHANGED <<lifecycle, session, promoted>>

\* BuildDataReadiness: not ready defers to the next retry.
BuildReadiness(t) ==
  /\ call[t] = "build"
  /\ MovesTo(t, IF ready THEN "commit" ELSE Afterwards(t))
  /\ UNCHANGED <<lifecycle, session, promoted>>

\* What Commit makes of a ready product.
Outcome ==
  CASE committed # "none" \/ stage = "Committed" -> "conflicted"
    [] prepared = "supported" /\ committed = "none" /\ stage # "Committed" -> "active"
    [] prepared = "unsupported" /\ committed = "none" /\ stage # "Committed" -> "inactive"
    [] OTHER -> "conflicted"

\* Mutant: the stage is set only for an active product.
CommitKeepingStage(t) ==
  /\ call[t] = "commit"
  /\ committed' = Outcome
  /\ stage' = CASE Outcome = "conflicted" -> "Conflict"
                [] Outcome = "active" -> "Committed"
                [] OTHER -> stage
  /\ prepared' = prepared
  /\ MovesTo(t, IF stage' = "Committed" THEN "promote" ELSE Afterwards(t))
  /\ UNCHANGED <<session, promoted>>

\* CommitDataReadiness: a second commit is a conflict and fails closed.
CommitDataReadiness(t) ==
  /\ call[t] = "commit"
  /\ committed' = Outcome
  /\ stage' = IF Outcome = "conflicted" THEN "Conflict" ELSE "Committed"
  /\ prepared' = IF prepared = "none" THEN "conflicted" ELSE prepared
  /\ MovesTo(t, IF stage' = "Committed" THEN "promote" ELSE Afterwards(t))
  /\ UNCHANGED <<session, promoted>>

\* CommitDataReadiness when the allocation of the committed state throws:
\* what was committed before stays.
CommitOutOfMemory(t) ==
  /\ call[t] = "commit"
  /\ stage' = "Conflict"
  /\ MovesTo(t, Afterwards(t))
  /\ UNCHANGED <<prepared, committed, session, promoted>>

\* PromoteCommittedActivation asks again before it switches the modules on.
PromoteCommittedActivation(t) ==
  /\ call[t] = "promote"
  /\ promoted' = (promoted \/ HasLoadedMaster)
  /\ MovesTo(t, "none")
  /\ UNCHANGED <<lifecycle, session>>

-----------------------------------------------------------------------------
Attempt(t) ==
  \/ CheckCommitted(t)
  \/ CheckPrepared(t)
  \/ BuildReadiness(t)
  \/ CommitDataReadiness(t)
  \/ CommitOutOfMemory(t)
  \/ PromoteCommittedActivation(t)

Messages ==
  \/ \E runtime \in {"supported", "unsupported"} : InputLoaded(runtime)
  \/ InputLoadedOutOfMemory
  \/ RunDataLoaded
  \/ RegisterSink
  \/ GameLoaded
  \/ RunTask

CellEvent(t) ==
  \/ CellLoadedRetry(t)
  \/ \E tasks \in BOOLEAN : CellLoadedQueue(t, tasks)

ActivationNext ==
  \/ Messages
  \/ BecomeReady
  \/ \E t \in sources : CellEvent(t)
  \/ \E t \in Threads : Attempt(t)

ActivationSpec == ActivationInit /\ [][ActivationNext]_activationVars

-----------------------------------------------------------------------------
\* The stage tells what is stored: a lifecycle still open for a commit has
\* none, and an unconflicted stage never hides a conflicted commit.
StageTells ==
  /\ stage = "Prepared" => committed = "none" /\ prepared \in {"supported", "unsupported"}
  /\ stage = "Committed" => committed \in {"active", "inactive"}
  /\ committed = "conflicted" => stage = "Conflict"

\* A product disabled by a second commit stays disabled, whatever attempts the
\* other threads still have in flight.
FailClosedForGood ==
  [][committed = "conflicted" => committed' = "conflicted" /\ stage' = "Conflict"]_activationVars

\* When cell events come on the main thread, the retries never commit a second
\* time, so they cannot disable the product they are to enable.
NoSelfConflict == sources = {Main} => committed # "conflicted"

\* A deferred activation is retried until it commits: a supported runtime ends
\* up active, or in conflict, with or without a game-loaded message.
DeferralEnds ==
  (stage = "Prepared" /\ prepared = "supported") ~> (promoted \/ stage = "Conflict")
=============================================================================
