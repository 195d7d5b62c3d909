-------------------------- MODULE SceneListBorrow ---------------------------
(***************************************************************************)
(* The retained copy of the main world's scene lists that mirror captures  *)
(* replay (src/src/MirrorMainSceneListBorrow.cpp and its policy).  One     *)
(* borrow spans one main-world invocation: begun when the engine finalises *)
(* culling, replayed by the deferred captures, ended when they return.  It *)
(* adds a native reference to every entry; a filtered (derived) copy adds  *)
(* its own.  Every operator maps a borrow to the borrow after the call.    *)
(*                                                                         *)
(* An IncRef or DecRef may fault and leave it unknown whether the count    *)
(* changed: bad are the entries whose DecRef faults in the step, stuck     *)
(* those of them it does not release.  refs is the engine's side: the      *)
(* references of the module; leaked those no slot accounts for.            *)
(***************************************************************************)
EXTENDS Integers, FiniteSets

CONSTANT Entries

\* g_enabled, g_faulted, g_renderThreadID, g_borrow and g_derived.
Borrows ==
  [enabled : BOOLEAN, faulted : BOOLEAN, threadKnown : BOOLEAN,
   active : BOOLEAN, tokenFaulted : BOOLEAN, consumed : BOOLEAN,
   ready : BOOLEAN, clean : BOOLEAN, acquisitions : Nat,
   kept : SUBSET Entries, derivedActive : BOOLEAN, derived : SUBSET Entries,
   refs : [Entries -> Int], leaked : [Entries -> Nat]]

InitialBorrow ==
  [enabled |-> TRUE, faulted |-> FALSE, threadKnown |-> FALSE,
   active |-> FALSE, tokenFaulted |-> FALSE, consumed |-> FALSE,
   ready |-> FALSE, clean |-> FALSE, acquisitions |-> 0,
   kept |-> {}, derivedActive |-> FALSE, derived |-> {},
   refs |-> [e \in Entries |-> 0], leaked |-> [e \in Entries |-> 0]]

Count(e, S) == IF e \in S THEN 1 ELSE 0

\* Active(), on the thread that owns the borrow.
Active(b) == b.enabled /\ b.active /\ ~b.tokenFaulted

LatchFault(b) == [b EXCEPT !.faulted = TRUE, !.enabled = FALSE,
                           !.tokenFaulted = TRUE, !.ready = FALSE]
LatchIf(c, b) == IF c THEN LatchFault(b) ELSE b

\* LatchFault on a thread that owns no borrow: the hook on a second thread.
LatchElsewhere(b) == [b EXCEPT !.faulted = TRUE, !.enabled = FALSE]

-----------------------------------------------------------------------------
Retain(b, S, uncertain) ==
  [b EXCEPT !.refs = [e \in Entries |-> @[e] + Count(e, S \cup uncertain)],
            !.leaked = [e \in Entries |-> @[e] + Count(e, uncertain)]]

ReleaseAllEntries(b, S, stuck) ==
  [b EXCEPT !.refs = [e \in Entries |-> @[e] - Count(e, S \ stuck)],
            !.leaked = [e \in Entries |-> @[e] + Count(e, S \cap stuck)]]

\* Mutant: a copy that was never activated is forgotten, not released.
ClearActive(b, bad, stuck) ==
  IF ~b.derivedActive THEN [b EXCEPT !.derived = {}]
  ELSE LatchIf(b.derived \cap bad # {},
    [ReleaseAllEntries(b, b.derived, stuck) EXCEPT
      !.derived = {}, !.derivedActive = FALSE])

\* A failed release latches; every entry leaves its slot before its DecRef.
ClearDerivedReplayState(b, bad, stuck) ==
  LatchIf(b.derived \cap bad # {},
    [ReleaseAllEntries(b, b.derived, stuck) EXCEPT
      !.derived = {}, !.derivedActive = FALSE])

EndBorrow(b, bad, stuck) ==
  LET cleared == ClearDerivedReplayState(LatchIf(b.derivedActive, b), bad, stuck)
      released == ReleaseAllEntries(cleared, b.kept, stuck)
  IN [LatchIf(b.kept \cap bad # {} \/ (~b.active /\ b.kept # {}), released) EXCEPT
        !.kept = {}, !.ready = FALSE,
        !.active = FALSE, !.tokenFaulted = FALSE, !.consumed = FALSE]

\* FinalizeMainCullingHook on the render thread.  The snapshot retains the
\* entries one by one; committed are those that made it when it fails.
BeginBorrow(b, committed, uncertain, bad, stuck) ==
  LET fresh == [b EXCEPT !.threadKnown = TRUE, !.active = TRUE,
                 !.tokenFaulted = FALSE, !.consumed = FALSE, !.ready = FALSE,
                 !.clean = FALSE, !.acquisitions = 0, !.kept = committed]
      owning == Retain(fresh, committed, uncertain)
  IN IF ~b.enabled THEN b
     ELSE IF b.active THEN LatchFault(b)
     ELSE IF committed = Entries THEN owning
     ELSE EndBorrow(LatchFault(owning), bad, stuck)

-----------------------------------------------------------------------------
\* Acquire, for an active borrow.
Acquire(b) ==
  IF b.consumed THEN LatchFault(b)
  ELSE [b EXCEPT !.consumed = TRUE, !.acquisitions = @ + 1, !.clean = FALSE]

\* RearmForNextMirrorCapture up to its revalidation.
CanRearm(b, budget) ==
  /\ Active(b) /\ ~b.derivedActive /\ ~b.faulted
  /\ b.consumed => b.clean /\ budget > 1 /\ b.acquisitions \in 1 .. budget - 1

Rearm(b) ==
  IF b.consumed THEN [b EXCEPT !.consumed = FALSE, !.ready = FALSE, !.clean = FALSE]
  ELSE b

\* BuildDerivedReplay: covered entries are left out.  It fails when some entry
\* cannot be retained.
BuildDerived(b, covered) ==
  [Retain(b, Entries \ covered, {}) EXCEPT
     !.derived = Entries \ covered, !.derivedActive = TRUE]

BuildDerivedFails(b, committed, uncertain, bad, stuck) ==
  ClearDerivedReplayState(
    LatchFault([Retain(b, committed, uncertain) EXCEPT !.derived = committed]),
    bad, stuck)

\* CompleteReplay and CompleteDerivedReplay.  proven: the replay finished, every
\* cull returned, the renderer state was restored and the lists revalidate.
CompleteReplay(b, proven, bad, stuck) ==
  LET allowed == proven /\ Active(b) /\ ~b.faulted
      judged == LatchIf(~allowed /\ ~b.faulted, [b EXCEPT !.ready = allowed])
      cleared == ClearDerivedReplayState(judged, bad, stuck)
  IN [cleared EXCEPT !.clean = allowed /\ ~cleared.faulted]

\* Mutant: a replay that drew nothing is taken to have left nothing.
AbandonTrusting(b, current, bad, stuck) ==
  [ClearDerivedReplayState([b EXCEPT !.ready = FALSE], bad, stuck) EXCEPT !.clean = TRUE]

\* AbandonReplay and DiscardDerivedReplay: nothing was drawn.
AbandonReplay(b, current, bad, stuck) ==
  LET judged == LatchIf(~current /\ ~b.faulted, [b EXCEPT !.ready = FALSE])
      cleared == ClearDerivedReplayState(judged, bad, stuck)
  IN [cleared EXCEPT !.clean = current /\ Active(cleared) /\ ~cleared.faulted]

PublicationReady(b) == Active(b) /\ b.consumed /\ b.ready /\ ~b.faulted

FailCurrentBorrow(b, bad, stuck) ==
  ClearDerivedReplayState(LatchFault(b), bad, stuck)

\* SetEnabled: never again after a fault.
SetEnabled(b, on) == [b EXCEPT !.enabled = on /\ ~b.faulted]
=============================================================================
