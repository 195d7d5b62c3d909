--------------------------- MODULE PlayerInclusion --------------------------
(***************************************************************************)
(* The scope that makes the player visible in one private pass             *)
(* (src/src/MirrorsOfSkyrimPlayerInclusion.cpp): it retains the body root, *)
(* clears the root's app-cull bit and its fade, and puts both back.  What  *)
(* cannot be put back moves to a recovery slot of capacity one, whose      *)
(* owner is kept by src/src/MirrorPlayerRollbackOwnershipPolicy.h.         *)
(*                                                                         *)
(* A native call may fault: SetAppCulled, IncRefCount and DecRefCount may  *)
(* have done their work by then or not; a write of the fade that faults    *)
(* has not.  Trying such a call twice in a row has the outcomes of trying  *)
(* once, so retries are not told apart.  The scope's own report of a fault *)
(* to its caller is left out: a scope may follow any other here.           *)
(***************************************************************************)
EXTENDS Integers, FiniteSets

CONSTANTS Roots, \* objects that are or were the player's body root
          NoRoot,
          MaxLeaks \* bound on references lost to an IncRefCount that faulted

ASSUME PlayerConstants == NoRoot \notin Roots /\ MaxLeaks \in Nat

VARIABLES
  body,      \* the two values of each root: app-culled, and faded by the camera
  game,      \* what the game last put there
  rootRefs,  \* references of the plugin to each root
  scope,     \* the live Scope
  rollback,  \* g_pendingRollback
  ownership, \* g_rollbackOwnership; ownsReference goes with recoveryPending
  release    \* a recovery between its two locked sections: the thread, the root

playerVars == <<body, game, rootRefs, scope, rollback, ownership, release>>

Visible == [culled |-> FALSE, faded |-> FALSE]
Values == [culled : BOOLEAN, faded : BOOLEAN]

NoScope == [stage |-> "none", root |-> NoRoot, ready |-> FALSE, culls |-> FALSE, fades |-> FALSE,
            prior |-> Visible, retained |-> FALSE, lease |-> FALSE, excluded |-> FALSE]
NoRollback == [root |-> NoRoot, prior |-> Visible, culls |-> FALSE, fades |-> FALSE]
NoOwner == [root |-> NoRoot, culled |-> FALSE, active |-> FALSE, pending |-> FALSE,
            terminal |-> FALSE]
NoRelease == [by |-> "none", root |-> NoRoot]

PlayerInit ==
  /\ body = [r \in Roots |-> Visible] /\ game = body
  /\ rootRefs = [r \in Roots |-> 0]
  /\ scope = NoScope /\ rollback = NoRollback /\ ownership = NoOwner /\ release = NoRelease

-----------------------------------------------------------------------------
(* MirrorPlayerRollbackOwnershipPolicy *)

\* TryBeginScope accepts.
Free(o) == ~o.terminal /\ ~o.active /\ ~o.pending /\ o.root = NoRoot

\* TransferFailedRollback accepts.
Transferable(o) == ~o.terminal /\ o.active /\ ~o.pending /\ o.root = NoRoot

Transferred(o, r, culled) ==
  IF Transferable(o) THEN [o EXCEPT !.root = r, !.culled = culled, !.pending = TRUE]
  ELSE [o EXCEPT !.terminal = TRUE]

IsExactPendingRecovery(o, p) ==
  ~o.terminal /\ o.active /\ o.pending /\ o.root = p.root /\ o.culled = p.prior.culled

\* TombstoneAfterExactReadback.
Tombstoned(o) == [o EXCEPT !.root = NoRoot, !.culled = FALSE, !.pending = FALSE]

\* CompleteReferenceRelease.
Completed(o, released) ==
  IF o.active /\ ~o.pending /\ o.root = NoRoot /\ released
  THEN [o EXCEPT !.active = FALSE] ELSE [o EXCEPT !.terminal = TRUE]

-----------------------------------------------------------------------------
(* Recovery *)

\* What writing prior values back may leave: the values, and which of the two
\* are still to be put back.
WrittenBack(v, s) ==
  {o \in [values : Values, culls : BOOLEAN, fades : BOOLEAN] :
     /\ o.values.culled \in IF s.culls THEN {v.culled, s.prior.culled} ELSE {v.culled}
     /\ s.culls /\ ~o.culls => o.values.culled = s.prior.culled
     /\ o.values.faded = IF s.fades /\ ~o.fades THEN s.prior.faded ELSE v.faded
     /\ o.culls => s.culls
     /\ o.fades => s.fades}

\* The reference is given up; a DecRef that faults may have done so.
Dropped(r) ==
  \E released \in BOOLEAN :
    /\ \E n \in IF released THEN {1} ELSE {0, 1} : rootRefs' = [rootRefs EXCEPT ![r] = @ - n]
    /\ ownership' = Completed(ownership, released)

\* TryRecoverPendingRollback with a rollback pending, up to the unlock.
Recover(thread) ==
  /\ rollback.root # NoRoot
  /\ IsExactPendingRecovery(ownership, rollback)
  /\ \E o \in WrittenBack(body[rollback.root], rollback) :
       /\ body' = [body EXCEPT ![rollback.root] = o.values]
       /\ IF o.culls \/ o.fades
          THEN /\ rollback' = [rollback EXCEPT !.culls = o.culls, !.fades = o.fades]
               /\ UNCHANGED <<ownership, release>>
          ELSE /\ rollback' = NoRollback
               /\ ownership' = Tombstoned(ownership)
               /\ release' = [by |-> thread, root |-> rollback.root]
  /\ UNCHANGED <<game, rootRefs>>

\* The rest of TryRecoverPendingRollback.
RecoveredBy(thread) ==
  /\ release.by = thread
  /\ Dropped(release.root)
  /\ release' = NoRelease
  /\ UNCHANGED <<body, game, rollback>>

\* OnGameLoaded: a recovery on the thread that loaded.
LoadRecovers == Recover("loader") /\ UNCHANGED scope
LoadRecovered == RecoveredBy("loader") /\ UNCHANGED scope

\* Between captures the game shows, hides and fades the body as it likes.  (What
\* it does to a root whose rollback is pending is not followed.)
GameSetsBody ==
  /\ scope.stage = "none"
  /\ \E r \in Roots \ {rollback.root}, v \in Values :
       body' = [body EXCEPT ![r] = v] /\ game' = [game EXCEPT ![r] = v]
  /\ UNCHANGED <<rootRefs, scope, rollback, ownership, release>>

-----------------------------------------------------------------------------
(* Scope *)

\* A constructor that stops before it owns anything: Ready is false.
Refused == [NoScope EXCEPT !.stage = "open"]

ScopeStarts ==
  /\ scope.stage = "none"
  /\ scope' = [NoScope EXCEPT !.stage = "starting"]
  /\ UNCHANGED <<body, game, rootRefs, rollback, ownership, release>>

\* The constructor recovers what an earlier scope left.
ScopeRecovers ==
  /\ scope.stage = "starting"
  /\ Recover("render")
  /\ scope' = IF rollback' = NoRollback THEN [scope EXCEPT !.stage = "recovering"] ELSE Refused

ScopeRecovered ==
  /\ scope.stage = "recovering"
  /\ RecoveredBy("render")
  /\ scope' = IF ownership'.terminal THEN Refused ELSE [scope EXCEPT !.stage = "clear"]

\* With nothing pending the owner must be coherent.
ScopeCoherent ==
  /\ scope.stage = "starting" /\ rollback.root = NoRoot
  /\ scope' = IF ~ownership.pending /\ ownership.root = NoRoot /\ ~ownership.terminal
              THEN [scope EXCEPT !.stage = "clear"] ELSE Refused
  /\ UNCHANGED <<body, game, rootRefs, rollback, ownership, release>>

\* No body root, one that cannot be read or is not the one expected, or an
\* owner who is not done.
ScopeRefused ==
  /\ scope.stage = "clear"
  /\ scope' = Refused
  /\ UNCHANGED <<body, game, rootRefs, rollback, ownership, release>>

\* The owner is taken; IncRefCount faults, perhaps after it counted.
ScopeUnretained ==
  /\ scope.stage = "clear" /\ Free(ownership)
  /\ ownership' = [ownership EXCEPT !.active = TRUE]
  /\ \E r \in Roots, n \in 0 .. 1 :
       /\ rootRefs[r] + n <= MaxLeaks
       /\ rootRefs' = [rootRefs EXCEPT ![r] = @ + n]
  /\ scope' = [Refused EXCEPT !.lease = TRUE]
  /\ UNCHANGED <<body, game, rollback, release>>

\* The scope that has just retained r, with the values it found.
Retaining(r) ==
  [Refused EXCEPT !.root = r, !.retained = TRUE, !.lease = TRUE, !.prior = body[r]]

\* Mutant: a write that is not verified is taken for none.
UnculledOrNot(r) ==
  \E v \in {body[r].culled, FALSE} :
    body' = [body EXCEPT ![r].culled = v] /\ scope' = Retaining(r)

\* SetAppCulled(false) is not verified: the bit is owed all the same, and one
\* rollback is tried at once.
Ununculled(r) ==
  \E v \in {body[r].culled, FALSE} :
    \E o \in WrittenBack([body[r] EXCEPT !.culled = v],
                         [culls |-> TRUE, fades |-> FALSE, prior |-> body[r]]) :
      /\ body' = [body EXCEPT ![r] = o.values]
      /\ scope' = [Retaining(r) EXCEPT !.culls = o.culls]

\* The bit is cleared and, where the camera has faded the body, perhaps the
\* fade.  A mirror's scope may still fail on coverage or on its draw probe.
Unculled(r) ==
  \E fades \in BOOLEAN, ready \in BOOLEAN :
    /\ fades => body[r].faded
    /\ body' = [body EXCEPT ![r] = [culled |-> FALSE, faded |-> @.faded /\ ~fades]]
    /\ scope' = [Retaining(r) EXCEPT !.culls = TRUE, !.fades = fades, !.ready = ready]

\* The owner and the root are taken; or the bit cannot be read.
ScopeOpens ==
  /\ scope.stage = "clear" /\ Free(ownership)
  /\ ownership' = [ownership EXCEPT !.active = TRUE]
  /\ \E r \in Roots :
       /\ rootRefs' = [rootRefs EXCEPT ![r] = @ + 1]
       /\ \/ Unculled(r)
          \/ Ununculled(r)
          \/ scope' = Retaining(r) /\ UNCHANGED body
  /\ UNCHANGED <<game, rollback, release>>

\* BeginWorldCullExclusion: the body is left out of the world's cull; and
\* RestoreForExplicitCull: it is shown again for its own.  A call that is not
\* verified leaves the scope where it was.
Excludes(to) ==
  /\ scope.ready /\ scope.stage = "open" /\ scope.excluded = ~to
  /\ \E done \in BOOLEAN, v \in {body[scope.root].culled, to} :
       /\ done => v = to /\ body[scope.root].culled # to
       /\ body' = [body EXCEPT ![scope.root].culled = v]
       /\ scope' = IF done THEN [scope EXCEPT !.excluded = to] ELSE scope
  /\ UNCHANGED <<game, rootRefs, rollback, ownership, release>>

BeginWorldCullExclusion == Excludes(TRUE)
RestoreForExplicitCull == Excludes(FALSE)

\* Close, when everything is put back: the reference goes, then the lease.
ScopeReleases ==
  /\ scope' = NoScope
  /\ CASE ~scope.lease -> UNCHANGED <<rootRefs, ownership>>
       [] scope.lease /\ ~scope.retained ->
            ownership' = Completed(ownership, TRUE) /\ UNCHANGED rootRefs
       [] scope.retained -> Dropped(scope.root)

\* QueueFailedRollback: the reference and the lease move to the recovery slot.
\* A transfer that is refused leaves the scope as it is.
QueueFailedRollback(o) ==
  /\ ownership' = Transferred(ownership, scope.root, scope.prior.culled)
  /\ IF Transferable(ownership)
     THEN /\ rollback' = [root |-> scope.root, prior |-> scope.prior,
                          culls |-> o.culls, fades |-> o.fades]
          /\ scope' = NoScope
     ELSE scope' = [scope EXCEPT !.culls = o.culls, !.fades = o.fades] /\ UNCHANGED rollback
  /\ UNCHANGED rootRefs

ScopeCloses ==
  /\ scope.stage = "open"
  /\ IF scope.retained
     THEN \E o \in WrittenBack(body[scope.root], scope) :
            /\ body' = [body EXCEPT ![scope.root] = o.values]
            /\ IF o.culls \/ o.fades THEN QueueFailedRollback(o)
               ELSE ScopeReleases /\ UNCHANGED rollback
     ELSE ScopeReleases /\ UNCHANGED <<body, rollback>>
  /\ UNCHANGED <<game, release>>

PlayerNext ==
  \/ ScopeStarts \/ ScopeRecovers \/ ScopeRecovered \/ ScopeCoherent \/ ScopeRefused
  \/ ScopeUnretained \/ ScopeOpens \/ BeginWorldCullExclusion \/ RestoreForExplicitCull
  \/ ScopeCloses \/ LoadRecovers \/ LoadRecovered \/ GameSetsBody

-----------------------------------------------------------------------------
\* The live scope, the recovery slot and a recovery that has not released are
\* never in charge together, and hold a reference each: nobody writes to a root
\* that may be gone.
OneHolder ==
  LET Holders == {h \in {<<"scope", scope.retained, scope.root>>,
                         <<"slot", rollback.root # NoRoot, rollback.root>>,
                         <<"release", release.root # NoRoot, release.root>>} : h[2]}
  IN  /\ Cardinality(Holders) <= 1
      /\ \A h \in Holders : rootRefs[h[3]] >= 1
      /\ \A r \in Roots : rootRefs[r] >= 0

\* Whatever faults, the body is not left as a capture needed it: where a root
\* differs from what the game put there, the one holder, a live scope or the
\* recovery slot, still has to put that value back, and has it.
BodyHasOwner ==
  /\ OneHolder
  /\ \A r \in Roots :
       LET Owes(s) ==
             /\ s.root = r
             /\ body[r].culled # game[r].culled => s.culls /\ s.prior.culled = game[r].culled
             /\ body[r].faded # game[r].faded => s.fades /\ s.prior.faded = game[r].faded
       IN  body[r] # game[r] => Owes(scope) \/ Owes(rollback)
=============================================================================
