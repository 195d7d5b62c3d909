-------------------------- MODULE HandPublication --------------------------
(***************************************************************************)
(* The publication store of the equipped (hand) mirror and the coordinator *)
(* in front of it (src/src/HandMirrorInternalPublicationStore.h,           *)
(* src/src/MirrorsOfSkyrimHandMirrorCaptureReservationPolicy.h).  Two      *)
(* private targets play the roles of the shown picture and of the one      *)
(* being captured.  A picture that stops being current stays retired, and  *)
(* its role taken, until the runtime proves that nobody reads its target.  *)
(*                                                                         *)
(* A store s has at most one current, one active and one retired capture;  *)
(* a coordinator c at most one reservation (pending, by its source) and    *)
(* one ticket, which is the store's active capture.  The operators map a   *)
(* store or a coordinator to the one after the call; what makes a call     *)
(* fail is a predicate of its own.  A failure scrubs everything for good.  *)
(***************************************************************************)
EXTENDS Integers

CONSTANT Owners   \* the equipped objects that can show the mirror

Roles == {0, 1}

\* PublicationSnapshot, and the attempt it grows from: the main-world source it
\* was captured in, where, for whom and under which lease and load generation.
None == [source |-> 0, role |-> 0, target |-> 0, owner |-> 0, lease |-> 0, load |-> 0]
Captures(sources, targets, leases, loads) ==
  [source : sources, role : Roles, target : targets, owner : Owners,
   lease : leases, load : loads]

NoReceipt == [retired |-> None, cause |-> "none"]
Receipt(p, cause) == IF p = None THEN NoReceipt ELSE [retired |-> p, cause |-> cause]

EmptyStore ==
  [phase |-> "uninitialized", targets |-> [r \in Roles |-> 0], source |-> 0,
   load |-> 0, lease |-> 0, current |-> None, active |-> None, retired |-> NoReceipt]

Ready(s) == s.phase = "ready"
Quarantine(s) == [EmptyStore EXCEPT !.phase = "quarantined"]

-----------------------------------------------------------------------------
Initialize(s, targets, source, load, lease) ==
  [EmptyStore EXCEPT !.phase = "ready", !.targets = targets, !.source = source,
                     !.load = load, !.lease = lease]

TakenRoles(s) == {p.role : p \in {s.current, s.active, s.retired.retired} \ {None}}

\* Mutant: a retired picture no longer keeps its role.
FreeRolesIgnoringRetired(s) ==
  Roles \ {p.role : p \in {s.current, s.active} \ {None}}

FreeRoles(s) == Roles \ TakenRoles(s)

\* ValidateInternalState, which nearly every call checks before it acts.
Coherent(s) ==
  /\ Ready(s)
  /\ s.current # None => /\ s.current.target = s.targets[s.current.role]
                         /\ s.current.source = s.source
  /\ s.active # None => /\ s.active.target = s.targets[s.active.role]
                        /\ s.active.source = s.source
  /\ \A p, q \in {s.current, s.active, s.retired.retired} \ {None} :
       p # q => p.role # q.role

\* Begin quarantines when an attempt is active or no second retirement fits.
BeginFails(s) ==
  ~Coherent(s) \/ s.active # None \/ (s.current # None /\ s.retired # NoReceipt)

\* The first free role; a current picture is retired by its successor.
Begin(s, owner) ==
  LET role == CHOOSE r \in FreeRoles(s) : \A q \in FreeRoles(s) : r <= q
      attempt == [source |-> s.source, role |-> role, target |-> s.targets[role],
                  owner |-> owner, lease |-> s.lease + 1, load |-> s.load]
  IN [s EXCEPT !.lease = @ + 1, !.active = attempt, !.current = None,
               !.retired = IF s.current = None THEN @
                           ELSE Receipt(s.current, "successorAttempt")]

\* allowed: the policy that tolerates the dark retirement of a source advance.
CanBurnUnusedOwnerLease(s, lease, allowed) ==
  /\ Coherent(s) /\ s.active = None /\ lease = s.lease + 1
  /\ s.retired # NoReceipt =>
       allowed /\ s.current = None /\ s.retired.cause = "sourceAdvanced"

BurnUnusedOwnerLease(s) == [s EXCEPT !.lease = @ + 1]

Abort(s) == [s EXCEPT !.active = None]

Complete(s) == [s EXCEPT !.current = s.active, !.active = None]

\* RetireDarkAfterOuterFirstPersonReturn of the current picture.
CanRetireDark(s, source) ==
  /\ Coherent(s) /\ s.current # None /\ s.retired = NoReceipt
  /\ source = s.source /\ source = s.current.source

RetireDark(s) ==
  [s EXCEPT !.current = None, !.retired = Receipt(s.current, "outerFirstPersonDark")]

CanReleaseRetired(s, receipt) == Coherent(s) /\ s.retired = receipt

ReleaseRetired(s) == [s EXCEPT !.retired = NoReceipt]

\* ForceInvalidate: the current picture retires into the dark, an attempt dies.
CanForceInvalidate(s) ==
  Coherent(s) /\ ~(s.current # None /\ s.retired # NoReceipt)

ForceInvalidate(s, cause) ==
  [s EXCEPT !.current = None, !.active = None,
            !.retired = IF s.current = None THEN @ ELSE Receipt(s.current, cause)]

OnSourceAdvanced(s, next) ==
  [ForceInvalidate(s, "sourceAdvanced") EXCEPT !.source = next]

OnLoadInvalidated(s, load) ==
  [ForceInvalidate(s, "loadInvalidated") EXCEPT !.load = load]

Retarget(s, targets, load) ==
  [ForceInvalidate(s, "targetReallocated") EXCEPT !.load = load, !.targets = targets]

-----------------------------------------------------------------------------
EmptyCoordinator ==
  [phase |-> "uninitialized", pending |-> 0, owner |-> 0, ticket |-> None,
   lastSource |-> 0, lastLease |-> 0]

QuarantineCoordinator == [EmptyCoordinator EXCEPT !.phase = "quarantined"]

\* ReserveAtFence for the mirror channel with exactly one hand candidate.
ReserveFails(c, source) ==
  c.phase # "ready" \/ source <= c.lastSource \/ c.pending # 0 \/ c.ticket # None

ReserveAtFence(c, source, owner) ==
  [c EXCEPT !.lastSource = source, !.pending = source, !.owner = owner]

CanCancel(c, source) ==
  c.phase = "ready" /\ c.ticket = None /\ c.pending = source /\ source # 0

\* CancelFenceReservation; a reservation that Begin resolved dark goes the same way.
CancelFenceReservation(c) == [c EXCEPT !.pending = 0, !.owner = 0]

\* A lease or an attempt the coordinator has already seen is a replay.
TicketFails(c, attempt) == attempt.lease <= c.lastLease

IssueTicket(c, attempt) ==
  [c EXCEPT !.pending = 0, !.owner = 0, !.ticket = attempt, !.lastLease = attempt.lease]

CloseTicket(c) == [c EXCEPT !.ticket = None]
=============================================================================
