--------------------------- MODULE PluginSession ----------------------------
(***************************************************************************)
(* A session of the plugin: its activation (Activation), the engine state  *)
(* that its captures change and owe (CaptureScopes), the choice of the     *)
(* mirrors that each source captures (MirrorScheduler), the placement of   *)
(* mirrors by the player (StandingMirrorPlacement), and what other authors *)
(* declare (AuthorRegistration).  A scope or a choice is made only in an   *)
(* active product; when that is does not matter to either, and the         *)
(* activation asks nothing of them.  The scheduler is told which mirrors   *)
(* there are, whoever placed or declared them, and may be told any; a      *)
(* placement and a declaration share no state with the rest.  So a         *)
(* behaviour follows one of the five.                                      *)
(***************************************************************************)
EXTENDS Activation, CaptureScopes, MirrorScheduler, StandingMirrorPlacement,
        AuthorRegistration

VARIABLE follows \* what the behaviour follows

sessionVars ==
  <<follows, activationVars, scopesVars, schedulerVars, placementVars, authorVars>>

SessionInit ==
  /\ follows \in {"activation", "scopes", "scheduler", "placement", "authors"}
  /\ ActivationInit /\ ScopesInit /\ SchedulerInit /\ PlacementInit /\ AuthorInit
  /\ follows # "activation" => sources = {Main}
  /\ follows # "scopes" => part = "registry"
  /\ follows # "scheduler" => everyFrame = CHOOSE mode \in Modes : TRUE
  /\ follows # "placement" => formsReady

SessionNext ==
  /\ UNCHANGED follows
  /\ \/ /\ follows = "activation" /\ ActivationNext
        /\ UNCHANGED <<scopesVars, schedulerVars, placementVars, authorVars>>
     \/ /\ follows = "scopes" /\ ScopesNext
        /\ UNCHANGED <<activationVars, schedulerVars, placementVars, authorVars>>
     \/ /\ follows = "scheduler" /\ SchedulerNext
        /\ UNCHANGED <<activationVars, scopesVars, placementVars, authorVars>>
     \/ /\ follows = "placement" /\ PlacementNext
        /\ UNCHANGED <<activationVars, scopesVars, schedulerVars, authorVars>>
     \/ /\ follows = "authors" /\ AuthorNext
        /\ UNCHANGED <<activationVars, scopesVars, schedulerVars, placementVars>>

-----------------------------------------------------------------------------
\* The start-up messages arrive, queued tasks and started attempts run on, the
\* data becomes ready and the player keeps entering cells; no game-loaded
\* message is assumed (a session started with coc gets none).
ActivationFairness ==
  /\ WF_activationVars(/\ follows = "activation"
                       /\ \E runtime \in {"supported", "unsupported"} : InputLoaded(runtime))
  /\ WF_activationVars(follows = "activation" /\ RunDataLoaded)
  /\ WF_activationVars(follows = "activation" /\ RegisterSink)
  /\ WF_activationVars(follows = "activation" /\ RunTask)
  /\ WF_activationVars(follows = "activation" /\ BecomeReady)
  /\ \A t \in Threads :
       /\ WF_activationVars(follows = "activation" /\ t \in sources /\ CellEvent(t))
       /\ WF_activationVars(follows = "activation" /\ Attempt(t))

\* The game renders frames for ever: every source gets its fence, and after it
\* the next source comes.  (It is what weak fairness of AdvanceSource and of
\* fresh /\ AnyFence says, each enabled until it is taken.)
SchedulerFairness ==
  []<>(follows = "scheduler" => fresh) /\ []<>(follows = "scheduler" => ~fresh)

SessionSpec ==
  /\ SessionInit /\ [][SessionNext]_sessionVars
  /\ ActivationFairness /\ SchedulerFairness /\ ScopesFairness /\ PlacementFairness
=============================================================================
