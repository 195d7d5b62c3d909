-------------------------- MODULE HandRuntimeProofs --------------------------
(***************************************************************************)
(* The safety of the equipped mirror's runtime, for any number of sources, *)
(* events, equipped objects and resizes, as long as no size changes while  *)
(* a picture is held (the recorded counterexample).  The three properties  *)
(* of the run rest on one invariant: runtime and store agree on what is    *)
(* current, held, reserved and leased (Good), and the schedule of fences,  *)
(* captures and first-person calls decides which of it may exist (Live).   *)
(***************************************************************************)
EXTENDS HandRuntime, FiniteSetTheorems, TLAPS

-----------------------------------------------------------------------------
(* Types *)

Causes == {"none", "sourceAdvanced", "targetReallocated", "loadInvalidated",
           "outerFirstPersonDark", "successorAttempt"}
Pics == [source : Nat, role : Roles, target : Nat, owner : Owners \cup {0},
         lease : Nat, load : Nat]
Receipts == [retired : Pics, cause : Causes]
Phases == {"uninitialized", "ready", "quarantined"}
Stores == [phase : Phases, targets : [Roles -> Nat], source : Nat, load : Nat, lease : Nat,
           current : Pics, active : Pics, retired : Receipts]
Coordinators == [phase : Phases, pending : Nat, owner : Owners \cup {0}, ticket : Pics,
                 lastSource : Nat, lastLease : Nat]
Runtimes == [store : Stores, coordinator : Coordinators, targets : [Roles -> Nat],
             ready : BOOLEAN, pending : Nat, grant : Nat, current : Pics, held : Receipts,
             expiry : Nat, validated : Nat, presented : Nat, slots : [Roles -> Pics],
             cursor : Nat, load : Nat, visible : Owners \cup {0}, resumeFence : Nat,
             enabled : BOOLEAN, faulted : BOOLEAN, loading : BOOLEAN, menu : BOOLEAN,
             inventory : BOOLEAN, resume : BOOLEAN, equip : BOOLEAN, continuity : BOOLEAN]

LEMMA NoneFact ==
  /\ None \in Pics /\ None.source = 0 /\ None.role \in Roles
  /\ NoReceipt \in Receipts /\ NoReceipt.retired = None /\ NoReceipt.cause = "none"
  BY DEF None, NoReceipt, Pics, Receipts, Causes, Roles

LEMMA ReceiptFact ==
  ASSUME NEW p \in Pics, NEW c \in Causes \ {"none"}
  PROVE  /\ Receipt(p, c) \in Receipts
         /\ p = None => Receipt(p, c) = NoReceipt
         /\ p # None => /\ Receipt(p, c) # NoReceipt
                        /\ Receipt(p, c).retired = p /\ Receipt(p, c).cause = c
  BY NoneFact DEF Receipt, Receipts

LEMMA EmptyTyped ==
  /\ EmptyStore \in Stores /\ EmptyCoordinator \in Coordinators
  /\ \A c \in BOOLEAN : InitialRuntime(c) \in Runtimes
<1>1. /\ [r \in Roles |-> 0] \in [Roles -> Nat] /\ [r \in Roles |-> None] \in [Roles -> Pics]
      /\ 0 \in Nat /\ 1 \in Nat /\ 0 \in Owners \cup {0}
  BY NoneFact
<1>2. EmptyStore \in Stores
  BY <1>1, NoneFact DEF EmptyStore, Stores, Phases
<1>3. EmptyCoordinator \in Coordinators
  BY <1>1, NoneFact DEF EmptyCoordinator, Coordinators, Phases
<1> QED
  BY <1>1, <1>2, <1>3, NoneFact DEF InitialRuntime, Runtimes

-----------------------------------------------------------------------------
(* Runtime and store agree *)

\* A picture is in its target, of this load, and not drawn over.
Kept(p, x, phys, content) ==
  /\ p.load = x.load /\ phys[p.role] = p.target /\ content[p.role] = p.source
  /\ p.source # 0 /\ p.lease # 0

Agrees(x, phys, content) ==
  /\ x.store.phase = "ready" /\ x.coordinator.phase = "ready"
  /\ x.store.targets = x.targets /\ x.store.load = x.load /\ x.store.lease = x.cursor
  /\ x.store.current = x.current /\ x.store.retired = x.held
  /\ x.coordinator.ticket = x.store.active /\ x.coordinator.pending = x.pending
  /\ x.coordinator.lastLease <= x.cursor
  /\ Coherent(x.store)
  /\ x.grant = IF x.pending # 0 THEN x.cursor + 1 ELSE 0
  /\ x.pending # 0 => /\ x.current = None /\ x.store.active = None
                      /\ x.store.source = x.pending /\ phys = x.targets
  /\ x.current # None => Kept(x.current, x, phys, content) /\ x.slots[x.current.role] = x.current
  /\ x.held # NoReceipt =>
       /\ Kept(x.held.retired, x, phys, content)
       /\ x.held.retired # None /\ x.held.cause = "sourceAdvanced"
       /\ x.held.retired.source < x.store.source
       /\ x.slots[x.held.retired.role] = x.held.retired
       /\ x.current # None => x.presented = 0
  /\ x.expiry # 0 =>
       /\ x.held # NoReceipt /\ x.continuity /\ x.expiry = x.store.source
       /\ x.expiry > x.held.retired.source /\ x.expiry - x.held.retired.source <= MaxMiss
  /\ x.store.active # None =>
       Kept(x.store.active, x, phys, content) /\ x.current = None /\ x.pending = 0

\* Before the first reservation there is nothing.
Blank(x) ==
  /\ x.store = EmptyStore /\ x.coordinator = EmptyCoordinator
  /\ x.pending = 0 /\ x.grant = 0 /\ x.current = None /\ x.held = NoReceipt /\ x.expiry = 0

Good(x, phys, content) ==
  /\ x \in Runtimes
  /\ IF x.ready THEN Agrees(x, phys, content) ELSE Blank(x)

\* What a helper leaves alone.
Same(x, y) ==
  /\ y.ready = x.ready /\ y.load = x.load /\ y.targets = x.targets /\ y.visible = x.visible
  /\ y.enabled = x.enabled /\ y.faulted = x.faulted /\ y.loading = x.loading
  /\ y.menu = x.menu /\ y.inventory = x.inventory /\ y.equip = x.equip /\ y.continuity = x.continuity
  /\ y.coordinator.lastSource = x.coordinator.lastSource

\* Flags alone change: the pictures, the leases and the load stay.
LEMMA FlagsGood ==
  ASSUME NEW x, NEW y \in Runtimes, NEW phys, NEW content, Good(x, phys, content),
         y.store = x.store, y.coordinator = x.coordinator, y.targets = x.targets,
         y.ready = x.ready, y.pending = x.pending, y.grant = x.grant, y.current = x.current,
         y.held = x.held, y.expiry = x.expiry, y.presented = x.presented, y.slots = x.slots,
         y.cursor = x.cursor, y.load = x.load, y.continuity = x.continuity
  PROVE  Good(y, phys, content)
  BY DEF Good, Agrees, Blank, Kept

-----------------------------------------------------------------------------
(* Releases *)

\* y is x once the receipt's picture is released and its role is free.
Released(x, receipt, y) ==
  /\ y \in Runtimes /\ y.store \in Stores /\ y.store = ReleaseRetired(x.store)
  /\ y.slots = [x.slots EXCEPT ![receipt.retired.role] = None]
  /\ x.current # None /\ x.current.role = receipt.retired.role =>
       y.current = None /\ y.presented = 0
  /\ ~(x.current # None /\ x.current.role = receipt.retired.role) =>
       y.current = x.current /\ y.presented = x.presented
  /\ Same(x, y) /\ y.coordinator = x.coordinator
  /\ y.pending = x.pending /\ y.grant = x.grant /\ y.cursor = x.cursor
  /\ y.held = x.held /\ y.expiry = x.expiry /\ y.validated = x.validated

LEMMA ReleaseFact ==
  ASSUME NEW x \in Runtimes, NEW receipt, NEW t, receipt # NoReceipt,
         Unbound(receipt.retired, t), Coherent(x.store), x.store.retired = receipt
  PROVE  LET r == ReleaseRetirement(x, receipt, t)
         IN r.ok /\ Released(x, receipt, r.h)
<1> DEFINE role == receipt.retired.role
           own == x.current # None /\ x.current.role = role
           s == [x.store EXCEPT !.retired = NoReceipt]
           slots == [x.slots EXCEPT ![role] = None]
           current == IF own THEN None ELSE x.current
           presented == IF own THEN 0 ELSE x.presented
           y == [x EXCEPT !.store = s, !.slots = slots, !.current = current, !.presented = presented]
<1>1. x.store \in Stores /\ x.slots \in [Roles -> Pics]
  BY DEF Runtimes
<1>2. s \in Stores
  BY <1>1, NoneFact DEF Stores
<1>3. slots \in [Roles -> Pics] /\ current \in Pics /\ presented \in Nat
  BY <1>1, NoneFact DEF Runtimes
<1>4. ReleaseRetirement(x, receipt, t) = Ok(ClearNativeRole([x EXCEPT !.store = ReleaseRetired(@)], role))
  BY DEF ReleaseRetirement, CanReleaseRetired
<1>5. ClearNativeRole([x EXCEPT !.store = ReleaseRetired(@)], role) = y
  BY <1>1 DEF ClearNativeRole, ReleaseRetired, Runtimes
<1> HIDE DEF s, slots, current, presented
<1>6. /\ y \in Runtimes /\ y.store = s /\ y.slots = slots /\ y.current = current
      /\ y.presented = presented /\ Same(x, y) /\ y.coordinator = x.coordinator
      /\ y.pending = x.pending /\ y.grant = x.grant /\ y.cursor = x.cursor
      /\ y.held = x.held /\ y.expiry = x.expiry /\ y.validated = x.validated
  BY <1>2, <1>3 DEF Runtimes, Same
<1> HIDE DEF y
<1>7. ReleaseRetirement(x, receipt, t) = [ok |-> TRUE, h |-> y]
  BY <1>4, <1>5 DEF Ok
<1> QED
  BY <1>2, <1>6, <1>7 DEF s, slots, current, presented, ReleaseRetired, Released

LEMMA GoodFlags ==
  ASSUME NEW x, NEW phys, NEW content, Good(x, phys, content)
  PROVE  /\ x \in Runtimes /\ x.store \in Stores /\ x.coordinator \in Coordinators
         /\ x.held # NoReceipt => x.ready
         /\ x.store.active # None => x.ready
         /\ x.store.active # None => x.pending = 0 /\ x.current = None
  BY DEF Good, Runtimes, Blank, Agrees, EmptyStore

\* Dropping the retired picture keeps a store coherent.
LEMMA CoherentReleased ==
  ASSUME NEW s \in Stores, Coherent(s)
  PROVE  Coherent(ReleaseRetired(s))
<1> DEFINE c == [s EXCEPT !.retired = NoReceipt]
<1>1. /\ c.phase = s.phase /\ c.current = s.current /\ c.active = s.active
      /\ c.targets = s.targets /\ c.source = s.source /\ c.retired.retired = None
  BY NoneFact DEF Stores
<1> HIDE DEF c
<1>2. Coherent(c)
  BY <1>1 DEF Coherent, Ready
<1> QED
  BY <1>2 DEF c, ReleaseRetired

LEMMA ReleaseHeldFact ==
  ASSUME NEW x, NEW phys, NEW content, NEW t, Good(x, phys, content),
         x.held # NoReceipt => Unbound(x.held.retired, t)
  PROVE  LET r == ReleaseHeldPredecessor(x, t) IN
         /\ r.ok /\ Good(r.h, phys, content) /\ Same(x, r.h)
         /\ r.h.held = NoReceipt /\ r.h.expiry = 0 /\ r.h.current = x.current
         /\ r.h.presented = x.presented /\ r.h.pending = x.pending /\ r.h.cursor = x.cursor
         /\ r.h.store.active = x.store.active /\ r.h.store.source = x.store.source
<1> DEFINE b == [x EXCEPT !.held = NoReceipt, !.expiry = 0, !.validated = 0]
           r == ReleaseRetirement(b, x.held, t)
<1>1. x \in Runtimes /\ x.store \in Stores
  BY GoodFlags
<1>2. /\ b \in Runtimes /\ b.store = x.store /\ b.coordinator = x.coordinator /\ b.targets = x.targets
      /\ b.ready = x.ready /\ b.pending = x.pending /\ b.grant = x.grant /\ b.current = x.current
      /\ b.held = NoReceipt /\ b.expiry = 0 /\ b.presented = x.presented /\ b.slots = x.slots
      /\ b.cursor = x.cursor /\ b.load = x.load /\ b.continuity = x.continuity /\ Same(x, b)
  BY ZenonT(60), <1>1, NoneFact DEF Runtimes, Same
<1>3. ReleaseHeldPredecessor(x, t) = r
  BY DEF ReleaseHeldPredecessor
<1> HIDE DEF b
<1>4. CASE x.held = NoReceipt
  <2>1. r = [ok |-> TRUE, h |-> b]
    BY <1>4 DEF ReleaseRetirement, Ok
  <2>2. Good(b, phys, content)
    BY <1>2, <1>4 DEF Good, Agrees, Blank, Kept
  <2> QED
    BY <1>2, <1>3, <2>1, <2>2
<1>5. CASE x.held # NoReceipt
  <2> DEFINE role == x.held.retired.role
             y == r.h
  <2>1. x.ready /\ Agrees(x, phys, content)
    BY <1>5, GoodFlags DEF Good
  <2>2. Coherent(x.store) /\ x.store.retired = x.held /\ x.store.current = x.current
    BY <2>1 DEF Agrees
  <2>3. x.current # None => x.current.role # role
    <3>1. x.current # None => x.current.source = x.store.source
      BY <2>2 DEF Coherent
    <3>2. x.held.retired # None /\ x.held.retired.source < x.store.source
      BY <1>5, <2>1 DEF Agrees
    <3>3. x.store.source \in Nat
      BY <1>1 DEF Stores
    <3>4. x.current # None => x.current # x.held.retired
      BY <3>1, <3>2, <3>3
    <3> QED
      BY <2>2, <3>2, <3>4 DEF Coherent
  <2>4. /\ r.ok /\ y \in Runtimes /\ y.store = ReleaseRetired(x.store)
        /\ y.slots = [x.slots EXCEPT ![role] = None]
        /\ y.current = x.current /\ y.presented = x.presented /\ Same(b, y)
        /\ y.coordinator = x.coordinator /\ y.pending = x.pending /\ y.grant = x.grant
        /\ y.cursor = x.cursor /\ y.held = NoReceipt /\ y.expiry = 0
    <3>1. r.ok /\ Released(b, x.held, y)
      BY <1>2, <1>5, <2>2, ReleaseFact
    <3> HIDE DEF y
    <3> QED
      BY <1>2, <2>3, <3>1 DEF Released
  <2> HIDE DEF y
  <2>5. /\ y.store.phase = x.store.phase /\ y.store.targets = x.store.targets
        /\ y.store.load = x.store.load /\ y.store.lease = x.store.lease
        /\ y.store.current = x.store.current /\ y.store.retired = NoReceipt
        /\ y.store.active = x.store.active /\ y.store.source = x.store.source
    BY <1>1, <2>4 DEF Stores, ReleaseRetired
  <2>6. Coherent(y.store)
    BY <1>1, <2>2, <2>4, CoherentReleased
  <2>7. Same(x, y)
    BY <1>2, <2>4 DEF Same
  <2>8. x.current # None => y.slots[x.current.role] = x.slots[x.current.role]
    BY <1>1, <2>3, <2>4 DEF Runtimes
  <2>9. Agrees(y, phys, content)
    BY <2>1, <2>4, <2>5, <2>6, <2>7, <2>8 DEF Agrees, Kept, Same
  <2>10. Good(y, phys, content)
    BY <2>1, <2>4, <2>7, <2>9 DEF Good, Same
  <2> QED
    BY <1>3, <2>4, <2>5, <2>7, <2>10 DEF y
<1> QED
  BY <1>4, <1>5

-----------------------------------------------------------------------------
(* Leases and reservations *)

LEMMA BurnFact ==
  ASSUME NEW x, NEW phys, NEW content, Good(x, phys, content), x.pending = 0,
         x.store.active = None, x.held # NoReceipt => x.current = None
  PROVE  LET r == BurnUnusedOwnerGrant(x, x.cursor + 1) IN
         /\ r.ok /\ Good(r.h, phys, content) /\ Same(x, r.h)
         /\ r.h.held = x.held /\ r.h.expiry = x.expiry /\ r.h.current = x.current
         /\ r.h.validated = x.validated /\ r.h.slots = x.slots
         /\ r.h.presented = x.presented /\ r.h.pending = 0
         /\ r.h.store.active = None /\ r.h.store.source = x.store.source
<1> DEFINE lease == x.cursor + 1
           s == IF x.ready THEN [x.store EXCEPT !.lease = x.store.lease + 1] ELSE x.store
           y == [x EXCEPT !.cursor = lease, !.store = s]
<1>1. x \in Runtimes /\ x.store \in Stores /\ x.cursor \in Nat
  BY GoodFlags DEF Runtimes
<1>2. lease \in Nat /\ s \in Stores
  BY <1>1 DEF Stores
<1>3. x.ready => CanBurnUnusedOwnerLease(x.store, lease, HeldSourceAdvancedPredecessorValid(x))
  BY DEF Good, Agrees, CanBurnUnusedOwnerLease, HeldSourceAdvancedPredecessorValid
<1>4. BurnUnusedOwnerGrant(x, lease) = Ok([x EXCEPT !.cursor = lease,
                    !.store = IF x.ready THEN BurnUnusedOwnerLease(@) ELSE @])
  BY <1>3 DEF BurnUnusedOwnerGrant
<1>5. BurnUnusedOwnerGrant(x, lease) = [ok |-> TRUE, h |-> y]
  BY <1>1, <1>4 DEF Ok, BurnUnusedOwnerLease, Runtimes, Stores
<1>6. /\ x.ready => s.lease = x.store.lease + 1
      /\ ~x.ready => s = x.store
      /\ s.phase = x.store.phase /\ s.targets = x.store.targets /\ s.source = x.store.source
      /\ s.load = x.store.load /\ s.current = x.store.current /\ s.active = x.store.active
      /\ s.retired = x.store.retired
  BY <1>1 DEF Stores
<1> HIDE DEF s
<1>7. /\ y \in Runtimes /\ y.cursor = lease /\ y.store = s /\ Same(x, y)
      /\ y.coordinator = x.coordinator /\ y.pending = x.pending /\ y.grant = x.grant
      /\ y.current = x.current /\ y.held = x.held /\ y.expiry = x.expiry
      /\ y.validated = x.validated /\ y.presented = x.presented /\ y.slots = x.slots
  BY ZenonT(60), <1>1, <1>2 DEF Runtimes, Same
<1> HIDE DEF y
<1>8. Coherent(x.store) => Coherent(s)
  BY <1>6 DEF Coherent, Ready
<1>9. Good(y, phys, content)
  <2>1. CASE x.ready
    <3>1. Agrees(x, phys, content)
      BY <2>1 DEF Good
    <3>2. x.cursor <= lease /\ x.coordinator.lastLease \in Nat
      BY <1>1 DEF Runtimes, Coordinators
    <3>3. y.coordinator.lastLease <= lease
      BY <1>1, <1>7, <3>1, <3>2 DEF Agrees
    <3>4. Agrees(y, phys, content)
      BY <1>6, <1>7, <1>8, <2>1, <3>1, <3>3 DEF Agrees, Kept, Same
    <3> QED
      BY <1>7, <2>1, <3>4 DEF Good, Same
  <2>2. CASE ~x.ready
    BY <1>6, <1>7, <2>2 DEF Good, Blank, Same
  <2> QED
    BY <2>1, <2>2
<1> QED
  BY <1>5, <1>6, <1>7, <1>9

Cancelled(x) ==
  [x EXCEPT !.coordinator = CancelFenceReservation(@), !.pending = 0, !.grant = 0]

LEMMA CancelledFact ==
  ASSUME NEW x, NEW phys, NEW content, Good(x, phys, content), x.pending # 0
  PROVE  LET y == Cancelled(x) IN
         /\ CanCancel(x.coordinator, x.pending) /\ x.grant = x.cursor + 1
         /\ x.current = None /\ x.store.active = None
         /\ Good(y, phys, content) /\ Same(x, y)
         /\ y.held = x.held /\ y.expiry = x.expiry /\ y.current = x.current
         /\ y.validated = x.validated /\ y.slots = x.slots /\ y.cursor = x.cursor
         /\ y.presented = x.presented /\ y.pending = 0 /\ y.store = x.store
<1> DEFINE c == [x.coordinator EXCEPT !.pending = 0, !.owner = 0]
           y == [x EXCEPT !.coordinator = c, !.pending = 0, !.grant = 0]
<1>1. x \in Runtimes /\ x.coordinator \in Coordinators
  BY GoodFlags
<1>2. x.ready /\ Agrees(x, phys, content)
  BY DEF Good, Blank
<1>3. CanCancel(x.coordinator, x.pending) /\ x.grant = x.cursor + 1
      /\ x.current = None /\ x.store.active = None
  BY <1>2 DEF Agrees, CanCancel
<1>4. /\ c \in Coordinators /\ c.phase = x.coordinator.phase /\ c.ticket = x.coordinator.ticket
      /\ c.pending = 0 /\ c.lastSource = x.coordinator.lastSource
      /\ c.lastLease = x.coordinator.lastLease
  BY <1>1 DEF Coordinators
<1>5. Cancelled(x) = y
  BY <1>1 DEF Cancelled, CancelFenceReservation, Runtimes
<1> HIDE DEF c
<1>6. /\ y \in Runtimes /\ y.coordinator = c /\ y.pending = 0 /\ y.grant = 0 /\ Same(x, y)
      /\ y.store = x.store /\ y.held = x.held /\ y.expiry = x.expiry /\ y.current = x.current
      /\ y.validated = x.validated /\ y.slots = x.slots /\ y.cursor = x.cursor
      /\ y.presented = x.presented
  BY ZenonT(60), <1>1, <1>4 DEF Runtimes, Same
<1> HIDE DEF y
<1>7. Agrees(y, phys, content)
  BY <1>2, <1>4, <1>6 DEF Agrees, Kept, Same
<1>8. Good(y, phys, content)
  BY <1>2, <1>6, <1>7 DEF Good, Same
<1> QED
  BY <1>3, <1>5, <1>6, <1>8

LEMMA CancelFact ==
  ASSUME NEW x, NEW phys, NEW content, Good(x, phys, content), x.store.active = None
  PROVE  LET r == CancelAbandoned(x) IN
         /\ r.ok /\ Good(r.h, phys, content) /\ Same(x, r.h)
         /\ r.h.held = x.held /\ r.h.expiry = x.expiry /\ r.h.current = x.current
         /\ r.h.validated = x.validated /\ r.h.slots = x.slots
         /\ r.h.presented = x.presented /\ r.h.pending = 0
         /\ r.h.store.active = None /\ r.h.store.source = x.store.source
<1>1. CASE x.pending # 0
  <2> DEFINE y == Cancelled(x)
             r == BurnUnusedOwnerGrant(y, y.cursor + 1)
  <2>1. /\ CanCancel(x.coordinator, x.pending) /\ x.grant = x.cursor + 1
        /\ x.current = None /\ x.store.active = None
        /\ Good(y, phys, content) /\ Same(x, y)
        /\ y.held = x.held /\ y.expiry = x.expiry /\ y.current = x.current
        /\ y.validated = x.validated /\ y.slots = x.slots /\ y.cursor = x.cursor
        /\ y.presented = x.presented /\ y.pending = 0 /\ y.store = x.store
    BY <1>1, CancelledFact
  <2>2. CancelAbandoned(x) = r
    BY <1>1, <2>1 DEF CancelAbandoned, Cancelled
  <2> HIDE DEF y
  <2>3. /\ r.ok /\ Good(r.h, phys, content) /\ Same(y, r.h)
        /\ r.h.held = y.held /\ r.h.expiry = y.expiry /\ r.h.current = y.current
        /\ r.h.validated = y.validated /\ r.h.slots = y.slots
        /\ r.h.presented = y.presented /\ r.h.pending = 0
        /\ r.h.store.active = None /\ r.h.store.source = y.store.source
    BY <2>1, BurnFact
  <2> HIDE DEF r
  <2>4. Same(x, r.h)
    BY <2>1, <2>3 DEF Same
  <2> QED
    BY <2>1, <2>2, <2>3, <2>4
<1>2. CASE x.pending = 0
  <2>1. x.coordinator.pending = 0 /\ x.grant = 0
    BY <1>2 DEF Good, Agrees, Blank, EmptyCoordinator
  <2>2. CancelAbandoned(x) = [ok |-> TRUE, h |-> x]
    BY <1>2, <2>1 DEF CancelAbandoned, Ok
  <2>3. Same(x, x)
    BY DEF Same
  <2> QED
    BY <1>2, <2>2, <2>3
<1> QED
  BY <1>1, <1>2

-----------------------------------------------------------------------------
(* A source is advanced *)

\* Where a hold comes from: it is extended, or the picture the pane shows.
HeldFrom(x, y) ==
  y.expiry # 0 =>
    \/ x.expiry # 0 /\ y.held = x.held
    \/ x.current # None /\ x.current.lease = x.presented /\ y.held.retired = x.current

\* What holds once the source is the store's.
Advanced(x, y, next) ==
  /\ Same(x, y) /\ y.current = None /\ y.pending = 0 /\ y.store.active = None
  /\ y.ready => y.store.source = next
  /\ y.held # NoReceipt /\ y.expiry = 0 =>
       fp.active /\ ~fp.returned /\ HeldPredecessorMatchesStaged(y, fp.staged)
  /\ HeldFrom(x, y)

\* The store of a source that is left: the current picture is retired.
LEMMA AdvancedStore ==
  ASSUME NEW s \in Stores, Coherent(s), s.active = None, NEW next \in Nat,
         s.current # None => s.retired = NoReceipt
  PROVE  LET c == OnSourceAdvanced(s, next)
             receipt == Receipt(s.current, "sourceAdvanced")
         IN /\ CanForceInvalidate(s) /\ c \in Stores /\ Coherent(c) /\ receipt \in Receipts
            /\ c.phase = s.phase /\ c.targets = s.targets /\ c.load = s.load /\ c.lease = s.lease
            /\ c.source = next /\ c.current = None /\ c.active = None
            /\ c.retired = (IF s.current = None THEN s.retired ELSE receipt)
<1> DEFINE receipt == Receipt(s.current, "sourceAdvanced")
           retired == IF s.current = None THEN s.retired ELSE receipt
           c == [s EXCEPT !.current = None, !.active = None, !.retired = retired, !.source = next]
<1>1. s.current \in Pics /\ s.retired \in Receipts
  BY DEF Stores
<1>2. receipt \in Receipts /\ retired \in Receipts
  BY <1>1, ReceiptFact DEF Causes
<1>3. OnSourceAdvanced(s, next) = c
  BY DEF OnSourceAdvanced, ForceInvalidate, Stores
<1> HIDE DEF retired
<1>4. /\ c \in Stores /\ c.phase = s.phase /\ c.targets = s.targets /\ c.load = s.load
      /\ c.lease = s.lease /\ c.source = next /\ c.current = None /\ c.active = None
      /\ c.retired = retired
  BY <1>2, NoneFact DEF Stores
<1> HIDE DEF c
<1>5. Coherent(c)
  BY <1>4 DEF Coherent, Ready
<1>6. CanForceInvalidate(s)
  BY DEF CanForceInvalidate
<1> QED
  BY <1>2, <1>3, <1>4, <1>5, <1>6 DEF retired

LEMMA AdvanceToFact ==
  ASSUME NEW x, NEW phys, NEW content, Good(x, phys, content), x.ready,
         x.pending = 0, x.store.active = None, x.enabled, ~x.faulted,
         NEW next \in Nat, x.store.source < next, NEW extend \in BOOLEAN,
         extend => /\ x.held # NoReceipt /\ x.current = None /\ x.expiry # 0
                   /\ next - x.held.retired.source <= MaxMiss,
         ~extend => x.held = NoReceipt
  PROVE  LET r == AdvanceTo(x, next, extend, phys) IN
         r.ok /\ Good(r.h, phys, content) /\ Advanced(x, r.h, next)
<1> DEFINE receipt == Receipt(x.store.current, "sourceAdvanced")
           c == OnSourceAdvanced(x.store, next)
           a == [x EXCEPT !.store = c]
           a0 == [x EXCEPT !.store = OnSourceAdvanced(@, next)]
           retired == x.current
<1>1. x \in Runtimes /\ x.store \in Stores /\ x.store.source \in Nat /\ x.current \in Pics
  BY GoodFlags DEF Runtimes, Stores
<1>2. Agrees(x, phys, content) /\ Coherent(x.store) /\ x.store.current = x.current
      /\ x.store.retired = x.held
  BY DEF Good, Agrees
<1>3. /\ CanForceInvalidate(x.store) /\ c \in Stores /\ Coherent(c) /\ receipt \in Receipts
      /\ c.phase = x.store.phase /\ c.targets = x.store.targets /\ c.load = x.store.load
      /\ c.lease = x.store.lease /\ c.source = next /\ c.current = None /\ c.active = None
      /\ c.retired = (IF x.current = None THEN x.held ELSE receipt)
  BY <1>1, <1>2, AdvancedStore
<1>4. /\ x.current = None => receipt = NoReceipt
      /\ x.current # None => receipt # NoReceipt /\ receipt.retired = x.current
                             /\ receipt.cause = "sourceAdvanced"
  BY <1>1, <1>2, ReceiptFact DEF Causes
<1>5. a0 = a
  BY <1>1 DEF Runtimes
<1> HIDE DEF receipt, c
<1>6. /\ a \in Runtimes /\ a.store = c /\ Same(x, a) /\ a.coordinator = x.coordinator
      /\ a.pending = x.pending /\ a.grant = x.grant /\ a.current = x.current
      /\ a.held = x.held /\ a.expiry = x.expiry /\ a.presented = x.presented
      /\ a.slots = x.slots /\ a.cursor = x.cursor
  BY <1>1, <1>3 DEF Runtimes, Same
<1> HIDE DEF a, a0
<1>7. x.store.source < next /\ next # 0 /\ next > x.store.source /\ ~(next <= x.store.source)
  BY <1>1
\* What the picture that is current until now keeps under a hold.
<1>8. ASSUME x.current # None
      PROVE  /\ Kept(x.current, x, phys, content) /\ x.slots[x.current.role] = x.current
             /\ x.current.source = x.store.source /\ x.held = NoReceipt /\ x.expiry = 0
  <2>1. ~extend /\ x.held = NoReceipt
    BY <1>8
  <2> QED
    BY <1>2, <1>8, <2>1 DEF Agrees, Coherent
<1>9. CASE extend
  <2> DEFINE y == [a EXCEPT !.expiry = next, !.validated = 0]
  <2>1. AdvanceTo(x, next, extend, phys) = [ok |-> TRUE, h |-> y]
    <3>1. AdvanceTo(x, next, extend, phys) = Ok([a0 EXCEPT !.expiry = next, !.validated = 0])
      BY <1>3, <1>4, <1>7, <1>9 DEF AdvanceTo, receipt, a0
    <3> QED
      BY <3>1, <1>5 DEF Ok
  <2>2. /\ y \in Runtimes /\ y.store = c /\ y.coordinator = a.coordinator /\ y.pending = a.pending
        /\ y.grant = a.grant /\ y.current = a.current /\ y.held = a.held /\ y.expiry = next
        /\ y.presented = a.presented /\ y.slots = a.slots /\ y.cursor = a.cursor /\ Same(a, y)
    BY ZenonT(60), <1>6 DEF Runtimes, Same
  <2> HIDE DEF y
  <2>3. Same(x, y)
    BY <1>6, <2>2 DEF Same
  <2>4. x.held # NoReceipt /\ x.expiry # 0 /\ x.current = None /\ next - x.held.retired.source <= MaxMiss
        /\ x.held.retired.source < x.store.source /\ x.held.retired.source \in Nat
    BY <1>1, <1>2, <1>9 DEF Agrees, Runtimes, Receipts, Pics
  <2>5. x.held.retired.source < next /\ next > x.held.retired.source
    BY <1>1, <2>4
  <2>6. Agrees(y, phys, content)
    BY <1>2, <1>3, <1>6, <1>7, <2>2, <2>3, <2>4, <2>5 DEF Agrees, Kept, Same
  <2>7. Good(y, phys, content)
    BY <2>2, <2>3, <2>6 DEF Good, Same
  <2>8. Advanced(x, y, next)
    BY <1>3, <1>6, <1>7, <2>2, <2>3, <2>4 DEF Advanced, HeldFrom
  <2> QED
    BY <2>1, <2>7, <2>8
<1>10. CASE ~extend
  <2> DEFINE clean == CanHoldCleanMissContinuityPredecessor(a, next, receipt, phys)
             ordered == CanHoldSourceAdvancedPredecessor(a, next, receipt, phys)
  <2>1. AdvanceTo(x, next, extend, phys) =
          IF clean THEN Ok(Hold(a, receipt, next))
          ELSE IF ordered THEN Ok(Hold(a, receipt, 0))
          ELSE ReleaseRetirement(a, receipt, phys)
    BY <1>3, <1>5, <1>7, <1>10 DEF AdvanceTo, receipt, a0
  <2>2. clean \/ ordered => receipt # NoReceipt /\ x.current # None
    BY <1>4 DEF CanHoldCleanMissContinuityPredecessor, CanHoldSourceAdvancedPredecessor, CanHold
  <2>3. ASSUME NEW expiry \in {0, next}, x.current # None,
               expiry # 0 => /\ x.continuity /\ x.current.lease = x.presented
                             /\ x.current.source + 1 = next,
               expiry = 0 => /\ fp.active /\ ~fp.returned
                             /\ PublicationMatchesVisibleSurface(x.current, fp.staged)
        PROVE  LET r == Ok(Hold(a, receipt, expiry)) IN
               r.ok /\ Good(r.h, phys, content) /\ Advanced(x, r.h, next)
    <3> DEFINE y == [a EXCEPT !.held = receipt, !.expiry = expiry, !.validated = 0,
                              !.current = None, !.presented = 0]
    <3>1. Hold(a, receipt, expiry) = y
      BY DEF Hold
    <3>2. /\ y \in Runtimes /\ y.store = c /\ y.coordinator = x.coordinator
          /\ y.pending = x.pending /\ y.grant = x.grant /\ y.current = None
          /\ y.held = receipt /\ y.expiry = expiry /\ y.presented = 0
          /\ y.slots = x.slots /\ y.cursor = x.cursor /\ Same(a, y)
      BY ZenonT(60), <1>3, <1>6, <2>3, NoneFact DEF Runtimes, Same
    <3> HIDE DEF y
    <3>3. Same(x, y)
      BY <1>6, <3>2 DEF Same
    <3>4. /\ receipt # NoReceipt /\ receipt.retired = x.current /\ receipt.cause = "sourceAdvanced"
          /\ x.current.source < next /\ c.retired = receipt
      BY <1>3, <1>4, <1>8, <2>3
    <3>5. Kept(receipt.retired, y, phys, content)
      BY <1>8, <2>3, <3>3, <3>4 DEF Kept, Same
    <3>6. expiry # 0 => /\ expiry = next /\ next > x.current.source
                        /\ next - x.current.source <= MaxMiss
      <4>1. x.current.source \in Nat
        BY <1>1 DEF Pics
      <4>2. x.current.source + 1 = next => next - x.current.source = 1 /\ next > x.current.source
        BY <4>1
      <4>3. 1 <= MaxMiss
        BY HandConstants
      <4> QED
        BY <2>3, <4>2, <4>3
    <3>7. Agrees(y, phys, content)
      BY <1>2, <1>3, <1>8, <2>3, <3>2, <3>3, <3>4, <3>5, <3>6 DEF Agrees, Same
    <3>8. Good(y, phys, content)
      BY <3>2, <3>3, <3>7 DEF Good, Same
    <3>9. expiry = 0 => HeldPredecessorMatchesStaged(y, fp.staged)
      BY <1>8, <2>3, <3>2, <3>4 DEF HeldPredecessorMatchesStaged
    <3>10. Advanced(x, y, next)
      BY <1>3, <2>3, <3>2, <3>3, <3>4, <3>9 DEF Advanced, HeldFrom
    <3> QED
      BY <3>1, <3>8, <3>10 DEF Ok
  <2>4. CASE clean
    <3>1. x.current # None /\ x.continuity /\ x.current.lease = x.presented /\ x.current.source + 1 = next
      BY <1>4, <1>6, <2>2, <2>4 DEF CanHoldCleanMissContinuityPredecessor, CleanMissEffective, Same
    <3> QED
      BY <1>7, <2>1, <2>3, <2>4, <3>1
  <2>5. CASE ~clean /\ ordered
    <3>1. x.current # None /\ fp.active /\ ~fp.returned /\ PublicationMatchesVisibleSurface(x.current, fp.staged)
      BY <1>4, <2>2, <2>5 DEF CanHoldSourceAdvancedPredecessor
    <3> QED
      BY <2>1, <2>3, <2>5, <3>1
  <2>6. CASE ~clean /\ ~ordered
    <3> DEFINE r == ReleaseRetirement(a, receipt, phys)
               y == r.h
    <3>1. CASE x.current = None
      <4>1. r = [ok |-> TRUE, h |-> a]
        BY <1>4, <3>1 DEF ReleaseRetirement, Ok
      <4>2. x.held = NoReceipt /\ c.retired = NoReceipt
        BY <1>3, <1>10, <3>1
      <4>6. x.expiry = 0
        BY <1>2, <4>2 DEF Agrees
      <4>3. Agrees(a, phys, content)
        BY <1>2, <1>3, <1>6, <3>1, <4>2, <4>6 DEF Agrees, Same
      <4>4. Good(a, phys, content)
        BY <1>6, <4>3 DEF Good, Same
      <4>5. Advanced(x, a, next)
        BY <1>3, <1>6, <3>1, <4>2, <4>6 DEF Advanced, HeldFrom
      <4> QED
        BY <2>1, <2>6, <4>1, <4>4, <4>5
    <3>2. CASE x.current # None
      <4> DEFINE role == x.current.role
      <4>1. receipt # NoReceipt /\ receipt.retired = x.current /\ c.retired = receipt
            /\ x.held = NoReceipt /\ x.expiry = 0
        BY <1>3, <1>4, <1>8, <3>2
      <4>2. Unbound(receipt.retired, phys)
        BY <1>1, <1>8, <3>2, <4>1 DEF Unbound, Kept, Pics
      <4>3. /\ r.ok /\ y \in Runtimes /\ y.store \in Stores
            /\ y.store = ReleaseRetired(c)
            /\ y.current = None /\ Same(a, y) /\ y.coordinator = x.coordinator
            /\ y.pending = x.pending /\ y.grant = x.grant /\ y.cursor = x.cursor
            /\ y.held = NoReceipt /\ y.expiry = 0
        <5>1. r.ok /\ Released(a, receipt, y)
          <6>1. Coherent(a.store) /\ a.store.retired = receipt /\ a \in Runtimes
            BY <1>3, <1>6, <4>1
          <6> QED
            BY <4>1, <4>2, <6>1, ReleaseFact
        <5> HIDE DEF y
        <5> QED
          BY <1>6, <3>2, <4>1, <5>1 DEF Released
      <4> HIDE DEF y
      <4>4. /\ y.store.phase = c.phase /\ y.store.targets = c.targets /\ y.store.load = c.load
            /\ y.store.lease = c.lease /\ y.store.current = None /\ y.store.retired = NoReceipt
            /\ y.store.active = None /\ y.store.source = next
        BY <1>3, <4>3 DEF Stores, ReleaseRetired
      <4>5. Coherent(y.store)
        BY <1>3, <4>3, CoherentReleased
      <4>6. Same(x, y)
        BY <1>6, <4>3 DEF Same
      <4>7. Agrees(y, phys, content)
        BY <1>2, <1>3, <4>3, <4>4, <4>5, <4>6 DEF Agrees, Same
      <4>8. Good(y, phys, content) /\ Advanced(x, y, next)
        BY <4>3, <4>4, <4>6, <4>7 DEF Good, Same, Advanced, HeldFrom
      <4> QED
        BY <2>1, <2>6, <4>3, <4>8 DEF y
    <3> QED
      BY <3>1, <3>2
  <2> QED
    BY <2>4, <2>5, <2>6
<1> QED
  BY <1>9, <1>10

LEMMA AdvanceFact ==
  ASSUME NEW x, NEW phys, NEW content, Good(x, phys, content),
         x.store.active = None, x.enabled, ~x.faulted, NEW next \in Nat,
         x.ready => x.store.source < next,
         x.held # NoReceipt => x.expiry # 0
  PROVE  LET r == AdvanceStoreSource(x, next, phys) IN
         r.ok /\ Good(r.h, phys, content) /\ Advanced(x, r.h, next)
<1>1. x \in Runtimes /\ x.store \in Stores /\ x.store.source \in Nat
  BY GoodFlags DEF Stores
<1>2. CASE ~x.ready
  <2>1. AdvanceStoreSource(x, next, phys) = [ok |-> TRUE, h |-> x]
    BY <1>2 DEF AdvanceStoreSource, Ok
  <2>2. Advanced(x, x, next)
    BY <1>2 DEF Advanced, Same, HeldFrom, Good, Blank
  <2> QED
    BY <2>1, <2>2
<1>3. CASE x.ready
  <2> DEFINE holding == x.held # NoReceipt
             pinned == holding /\ (~CleanMissContinuityHoldValid(x) \/ next <= x.expiry)
             extend == holding /\ x.current = None /\ CanExtendConsecutiveCleanMiss(x, next)
             first == IF holding /\ ~extend THEN ReleaseHeldPredecessor(x, phys) ELSE Ok(x)
             second == CancelAbandoned(first.h)
             third == AdvanceTo(second.h, next, extend, phys)
  <2>1. Agrees(x, phys, content)
    BY <1>3 DEF Good
  <2>2. Ready(x.store) /\ x.store.source # next /\ x.coordinator.ticket = None
    BY <1>1, <1>3, <2>1 DEF Agrees, Ready
  <2>3. ~pinned
    <3>1. holding => /\ x.expiry # 0 /\ x.continuity /\ x.expiry = x.store.source
                     /\ x.expiry > x.held.retired.source
                     /\ x.expiry - x.held.retired.source <= MaxMiss
                     /\ x.held.cause = "sourceAdvanced"
                     /\ x.slots[x.held.retired.role] = x.held.retired
      BY <2>1 DEF Agrees
    <3>2. holding => CleanMissContinuityHoldValid(x)
      BY <1>3, <3>1 DEF CleanMissContinuityHoldValid, CleanMissEffective, HeldSourceAdvancedPredecessorValid
    <3>3. holding => ~(next <= x.expiry)
      BY <1>1, <1>3, <3>1
    <3> QED
      BY <3>2, <3>3
  <2>4. AdvanceStoreSource(x, next, phys)
          = Then(Then(first, CancelAbandoned), LAMBDA y : AdvanceTo(y, next, extend, phys))
    BY <1>3, <2>2, <2>3 DEF AdvanceStoreSource
  <2>5. /\ extend \in BOOLEAN
        /\ extend => /\ x.held # NoReceipt /\ x.current = None
                     /\ next - x.held.retired.source <= MaxMiss
    BY DEF CanExtendConsecutiveCleanMiss
  <2> HIDE DEF extend, pinned
  <2>6. /\ first.ok /\ Good(first.h, phys, content) /\ Same(x, first.h)
        /\ extend => first.h.held = x.held /\ first.h.expiry = x.expiry
        /\ ~extend => first.h.held = NoReceipt /\ first.h.expiry = 0
        /\ first.h.current = x.current /\ first.h.presented = x.presented
        /\ first.h.store.active = None /\ first.h.store.source = x.store.source
    <3>1. CASE holding /\ ~extend
      <4>1. Unbound(x.held.retired, phys)
        BY <2>1, <3>1, GoodFlags DEF Agrees, Kept, Unbound, Runtimes, Receipts, Pics
      <4>2. first = ReleaseHeldPredecessor(x, phys)
        BY <3>1
      <4> HIDE DEF first
      <4> QED
        BY <3>1, <4>1, <4>2, ReleaseHeldFact
    <3>2. CASE ~(holding /\ ~extend)
      <4>1. first = [ok |-> TRUE, h |-> x]
        BY <3>2 DEF Ok
      <4> HIDE DEF first
      <4>2. ~extend => x.held = NoReceipt /\ x.expiry = 0
        BY <2>1, <3>2 DEF Agrees
      <4> QED
        BY <4>1, <4>2 DEF Same
    <3> QED
      BY <3>1, <3>2
  <2> HIDE DEF first, holding
  <2>7. /\ second.ok /\ Good(second.h, phys, content) /\ Same(first.h, second.h)
        /\ second.h.held = first.h.held /\ second.h.expiry = first.h.expiry
        /\ second.h.current = first.h.current /\ second.h.presented = first.h.presented
        /\ second.h.pending = 0 /\ second.h.store.active = None
        /\ second.h.store.source = first.h.store.source
    BY <2>6, CancelFact
  <2>8. Then(first, CancelAbandoned) = second
    BY <2>6 DEF Then
  <2> HIDE DEF second
  <2>9. third.ok /\ Good(third.h, phys, content) /\ Advanced(second.h, third.h, next)
    <3>1. /\ second.h.ready /\ second.h.enabled /\ ~second.h.faulted
          /\ second.h.store.source < next
      BY <1>3, <2>6, <2>7 DEF Same
    <3>2. /\ extend => /\ second.h.held # NoReceipt /\ second.h.current = None
                       /\ second.h.expiry # 0
                       /\ next - second.h.held.retired.source <= MaxMiss
          /\ ~extend => second.h.held = NoReceipt
      BY <2>5, <2>6, <2>7
    <3> QED
      BY <2>5, <2>7, <3>1, <3>2, AdvanceToFact
  <2>10. Then(second, LAMBDA y : AdvanceTo(y, next, extend, phys)) = third
    BY <2>7 DEF Then
  <2> HIDE DEF third
  <2>11. Same(x, third.h)
    BY <2>6, <2>7, <2>9 DEF Same, Advanced
  <2>12. HeldFrom(x, third.h)
    <3>1. second.h.expiry # 0 => x.expiry # 0 /\ second.h.held = x.held
      BY <2>6, <2>7
    <3>2. second.h.current = x.current /\ second.h.presented = x.presented
      BY <2>6, <2>7
    <3> QED
      BY <2>9, <3>1, <3>2 DEF Advanced, HeldFrom
  <2>13. Advanced(x, third.h, next)
    BY <2>9, <2>11, <2>12 DEF Advanced
  <2> QED
    BY <2>4, <2>8, <2>9, <2>10, <2>13
<1> QED
  BY <1>2, <1>3

-----------------------------------------------------------------------------
(* New targets, and the reservation *)

\* With no picture, the targets and what they hold are of no concern.
Bare(x) ==
  /\ x.current = None /\ x.held = NoReceipt /\ x.pending = 0 /\ x.store.active = None

LEMMA BareGood ==
  ASSUME NEW x, NEW phys, NEW content, NEW phys2, NEW content2,
         Good(x, phys, content), Bare(x)
  PROVE  Good(x, phys2, content2)
  BY DEF Good, Agrees, Bare

LEMMA RetargetedFact ==
  ASSUME NEW x, NEW phys, NEW content, Good(x, phys, content), x.ready, Bare(x),
         NEW physical \in [Roles -> Nat]
  PROVE  LET r == Retargeted(x, physical) IN
         /\ r.ok /\ Good(r.h, phys, content) /\ Bare(r.h) /\ r.h.ready
         /\ r.h.expiry = 0 /\ r.h.targets = physical
         /\ r.h.store.source = x.store.source /\ r.h.coordinator = x.coordinator
         /\ r.h.enabled = x.enabled /\ r.h.faulted = x.faulted /\ r.h.loading = x.loading
         /\ r.h.continuity = x.continuity
<1> DEFINE load == x.load + 1
           empty == [r \in Roles |-> None]
           s == [x.store EXCEPT !.load = load, !.targets = physical,
                                !.current = None, !.active = None, !.retired = x.store.retired]
           y == [x EXCEPT !.store = s, !.load = load, !.targets = physical, !.current = None,
                          !.presented = 0, !.slots = empty]
<1>1. x \in Runtimes /\ x.store \in Stores /\ x.load \in Nat /\ Agrees(x, phys, content)
  BY GoodFlags DEF Runtimes, Good
<1>2. /\ CanForceInvalidate(x.store) /\ x.store.current = None /\ x.store.retired = NoReceipt
      /\ x.store.active = None /\ Coherent(x.store)
  BY <1>1 DEF Agrees, Bare, CanForceInvalidate
<1>3. Receipt(x.store.current, "targetReallocated") = NoReceipt
  BY <1>2 DEF Receipt
<1>4. load \in Nat /\ empty \in [Roles -> Pics]
  BY <1>1, NoneFact
<1>5. Retarget(x.store, physical, x.load + 1) = s
  BY <1>1, <1>2 DEF Retarget, ForceInvalidate, Stores
<1> DEFINE n == [x EXCEPT !.store = s]
<1>6. [x EXCEPT !.store = Retarget(@, physical, x.load + 1)] = n
  BY <1>1, <1>5 DEF Runtimes
<1>7. Retargeted(x, physical)
        = Then(Ok(n), LAMBDA z : Ok([z EXCEPT !.load = @ + 1, !.targets = physical, !.current = None,
                                       !.presented = 0, !.slots = [r \in Roles |-> None]]))
  BY <1>2, <1>3, <1>6 DEF Retargeted, ReleaseRetirement
<1>8. Retargeted(x, physical)
        = Ok([n EXCEPT !.load = @ + 1, !.targets = physical, !.current = None,
                       !.presented = 0, !.slots = [r \in Roles |-> None]])
  BY <1>7 DEF Then, Ok
<1>9. s \in Stores /\ s.load = load /\ s.targets = physical /\ s.phase = x.store.phase
      /\ s.lease = x.store.lease /\ s.source = x.store.source /\ s.current = None
      /\ s.active = None /\ s.retired = NoReceipt
  BY <1>1, <1>2, <1>4, NoneFact DEF Stores
<1> HIDE DEF s
<1>10. [n EXCEPT !.load = @ + 1, !.targets = physical, !.current = None,
                 !.presented = 0, !.slots = [r \in Roles |-> None]] = y
  BY <1>1 DEF Runtimes
<1> HIDE DEF n, load, empty
<1>11. /\ y \in Runtimes /\ y.store = s /\ y.load = load /\ y.targets = physical
       /\ y.current = None /\ y.presented = 0 /\ y.slots = empty /\ y.coordinator = x.coordinator
       /\ y.ready = x.ready /\ y.pending = x.pending /\ y.grant = x.grant /\ y.held = x.held
       /\ y.expiry = x.expiry /\ y.cursor = x.cursor /\ y.enabled = x.enabled
       /\ y.faulted = x.faulted /\ y.loading = x.loading /\ y.continuity = x.continuity
  BY ZenonT(60), <1>1, <1>4, <1>9, NoneFact DEF Runtimes
<1> HIDE DEF y
<1>12. Coherent(s)
  BY <1>2, <1>9, NoneFact DEF Coherent, Ready
<1>13. Agrees(y, phys, content)
  BY <1>1, <1>9, <1>11, <1>12 DEF Agrees, Bare
<1>14. y.expiry = 0
  BY <1>1, <1>11 DEF Agrees, Bare
<1>15. Good(y, phys, content) /\ Bare(y)
  BY <1>9, <1>11, <1>13 DEF Good, Bare
<1>16. Retargeted(x, physical) = [ok |-> TRUE, h |-> y]
  BY <1>8, <1>10 DEF Ok
<1>17. /\ y.ready /\ y.expiry = 0 /\ y.targets = physical
       /\ y.store.source = x.store.source /\ y.coordinator = x.coordinator
       /\ y.enabled = x.enabled /\ y.faulted = x.faulted /\ y.loading = x.loading
       /\ y.continuity = x.continuity
  BY <1>9, <1>11, <1>14
<1> QED
  BY <1>15, <1>16, <1>17

\* The store and the coordinator come into being at the first reservation.
Initialized(x, physical, next) ==
  [x EXCEPT !.store = Initialize(@, physical, next, x.load, x.cursor),
            !.coordinator.phase = "ready", !.targets = physical, !.ready = TRUE]

LEMMA InitializeFact ==
  ASSUME NEW x, NEW phys, NEW content, Good(x, phys, content), ~x.ready,
         NEW physical \in [Roles -> Nat], NEW next \in Nat
  PROVE  LET y == Initialized(x, physical, next)
         IN /\ Good(y, phys, content) /\ Bare(y) /\ y.ready /\ y.expiry = 0
            /\ y.targets = physical /\ y.store.source = next /\ y.coordinator.lastSource = 0
            /\ y.enabled = x.enabled /\ y.faulted = x.faulted /\ y.loading = x.loading
            /\ y.continuity = x.continuity
<1> DEFINE s == [EmptyStore EXCEPT !.phase = "ready", !.targets = physical, !.source = next,
                                   !.load = x.load, !.lease = x.cursor]
           c == [EmptyCoordinator EXCEPT !.phase = "ready"]
           y == [x EXCEPT !.store = s, !.coordinator = c, !.targets = physical, !.ready = TRUE]
<1>1. x \in Runtimes /\ x.load \in Nat /\ x.cursor \in Nat /\ Blank(x)
  BY GoodFlags DEF Runtimes, Good
<1>2. Initialized(x, physical, next) = y
  BY <1>1 DEF Initialized, Initialize, Blank, Runtimes
<1>3. /\ s \in Stores /\ s.phase = "ready" /\ s.targets = physical /\ s.source = next
      /\ s.load = x.load /\ s.lease = x.cursor /\ s.current = None /\ s.active = None
      /\ s.retired = NoReceipt
  BY <1>1, EmptyTyped DEF Stores, Phases, EmptyStore
<1>4. /\ c \in Coordinators /\ c.phase = "ready" /\ c.ticket = None /\ c.pending = 0
      /\ c.lastSource = 0 /\ c.lastLease = 0
  BY EmptyTyped DEF Coordinators, Phases, EmptyCoordinator
<1> HIDE DEF s, c
<1>5. /\ y \in Runtimes /\ y.store = s /\ y.coordinator = c /\ y.targets = physical /\ y.ready
      /\ y.pending = 0 /\ y.grant = 0 /\ y.current = None /\ y.held = NoReceipt /\ y.expiry = 0
      /\ y.cursor = x.cursor /\ y.load = x.load /\ y.enabled = x.enabled
      /\ y.faulted = x.faulted /\ y.loading = x.loading /\ y.continuity = x.continuity
  BY <1>1, <1>3, <1>4 DEF Runtimes, Blank
<1> HIDE DEF y
<1>6. Coherent(s)
  BY <1>3, NoneFact DEF Coherent, Ready
<1>7. Agrees(y, phys, content)
  BY <1>1, <1>3, <1>4, <1>5, <1>6 DEF Agrees
<1>8. Good(y, phys, content) /\ Bare(y)
  BY <1>3, <1>5, <1>7 DEF Good, Bare
<1> QED
  BY <1>2, <1>3, <1>4, <1>5, <1>8

LEMMA ReserveFact ==
  ASSUME NEW x, NEW content, Good(x, x.targets, content), x.ready,
         x.pending = 0, x.current = None, x.store.active = None,
         source \in Nat, source # 0, x.store.source = source,
         x.coordinator.lastSource < source, engine.equipped \in Owners
  PROVE  LET y == Reserve(x) IN
         /\ Good(y, x.targets, content) /\ y.current = None /\ y.store = x.store
         /\ y.held = x.held /\ y.expiry = x.expiry /\ y.coordinator.lastSource = source
         /\ y.enabled = x.enabled /\ y.faulted = x.faulted /\ y.loading = x.loading
<1> DEFINE grant == x.cursor + 1
           c == [x.coordinator EXCEPT !.lastSource = source, !.pending = source,
                                      !.owner = engine.equipped]
           y == [x EXCEPT !.coordinator = c, !.pending = source, !.grant = grant,
                          !.visible = engine.equipped]
<1>1. x \in Runtimes /\ x.coordinator \in Coordinators /\ x.cursor \in Nat
      /\ Agrees(x, x.targets, content)
  BY GoodFlags DEF Runtimes, Good
<1>2. ~ReserveFails(x.coordinator, source)
  <2>1. x.coordinator.lastSource \in Nat
    BY <1>1 DEF Coordinators
  <2> QED
    BY <1>1, <2>1 DEF ReserveFails, Agrees
<1>3. Reserve(x) = y
  BY <1>1, <1>2 DEF Reserve, ReserveAtFence, Runtimes
<1>4. /\ c \in Coordinators /\ c.phase = x.coordinator.phase /\ c.ticket = x.coordinator.ticket
      /\ c.pending = source /\ c.lastSource = source /\ c.lastLease = x.coordinator.lastLease
  BY <1>1 DEF Coordinators
<1>5. grant \in Nat
  BY <1>1
<1> HIDE DEF c, grant
<1>6. /\ y \in Runtimes /\ y.coordinator = c /\ y.pending = source /\ y.grant = grant
      /\ y.store = x.store /\ y.targets = x.targets /\ y.ready = x.ready
      /\ y.current = x.current /\ y.held = x.held /\ y.expiry = x.expiry
      /\ y.presented = x.presented /\ y.slots = x.slots /\ y.cursor = x.cursor
      /\ y.load = x.load /\ y.continuity = x.continuity
      /\ y.enabled = x.enabled /\ y.faulted = x.faulted /\ y.loading = x.loading
  BY <1>1, <1>4, <1>5 DEF Runtimes
<1> HIDE DEF y
<1>7. Agrees(y, x.targets, content)
  BY <1>1, <1>4, <1>6 DEF Agrees, Kept, grant
<1>8. Good(y, x.targets, content)
  BY <1>6, <1>7 DEF Good
<1> QED
  BY <1>3, <1>4, <1>6, <1>8

-----------------------------------------------------------------------------
(* The capture *)

\* One of the two roles is always free for the next capture.
LEMMA FreeRoleFact ==
  ASSUME NEW s \in Stores, s.current = None, s.active = None
  PROVE  LET role == CHOOSE r \in FreeRoles(s) : \A q \in FreeRoles(s) : r <= q
         IN role \in Roles /\ (s.retired.retired # None => role # s.retired.retired.role)
<1> DEFINE p == s.retired.retired
           role == CHOOSE r \in FreeRoles(s) : \A q \in FreeRoles(s) : r <= q
<1>1. FreeRoles(s) = Roles \ {p0.role : p0 \in {p} \ {None}}
  BY DEF FreeRoles, TakenRoles
<1>2. \E r \in FreeRoles(s) : \A q \in FreeRoles(s) : r <= q
  BY <1>1 DEF Roles
<1>3. role \in FreeRoles(s)
  BY <1>2
<1> HIDE DEF role
<1>4. role \in Roles /\ role \notin {p0.role : p0 \in {p} \ {None}}
  BY <1>1, <1>3
<1>5. p # None => p.role \in {p0.role : p0 \in {p} \ {None}}
  OBVIOUS
<1>6. p # None => role # p.role
  BY <1>4, <1>5
<1> QED
  BY <1>4, <1>6 DEF role

\* y is x once the capture of the reserved source has its ticket.
Begun(x, begun, y) ==
  /\ begun.active.role \in Roles /\ y.store = begun /\ begun.active # None
  /\ y.current = None /\ y.held = x.held /\ y.expiry = x.expiry /\ y.slots = x.slots
  /\ begun.source = x.store.source /\ Same(x, y)

LEMMA BeginFact ==
  ASSUME NEW x, NEW phys, NEW content, Good(x, phys, content), x.pending = source,
         source \in Nat, source # 0, NEW owner \in Owners, content \in [Roles -> Nat]
  PROVE  LET begun == Begin(x.store, owner)
             y == Ticketed(x, begun, NoReceipt)
         IN /\ ~BeginFails(x.store) /\ x.store.current = None
            /\ Begun(x, begun, y)
            /\ Good(y, phys, [content EXCEPT ![begun.active.role] = source])
<1> DEFINE role == CHOOSE r \in FreeRoles(x.store) : \A q \in FreeRoles(x.store) : r <= q
           attempt == [source |-> x.store.source, role |-> role, target |-> x.store.targets[role],
                       owner |-> owner, lease |-> x.store.lease + 1, load |-> x.store.load]
           lease == x.store.lease + 1
           s == [x.store EXCEPT !.lease = lease, !.active = attempt, !.current = None,
                                !.retired = x.store.retired]
           c == [x.coordinator EXCEPT !.pending = 0, !.owner = 0, !.ticket = attempt,
                                      !.lastLease = attempt.lease]
           y == [x EXCEPT !.store = s, !.pending = 0, !.coordinator = c, !.grant = 0,
                          !.cursor = attempt.lease]
           drawn == [content EXCEPT ![role] = source]
<1>1. /\ x \in Runtimes /\ x.store \in Stores /\ x.coordinator \in Coordinators
      /\ x.cursor \in Nat /\ x.ready /\ Agrees(x, phys, content)
  BY GoodFlags DEF Runtimes, Good, Blank
<1>2. /\ x.store.current = None /\ x.store.active = None /\ x.current = None
      /\ x.grant = x.cursor + 1 /\ x.store.lease = x.cursor /\ x.store.source = source
      /\ phys = x.targets /\ x.store.targets = x.targets /\ x.store.load = x.load
      /\ Coherent(x.store) /\ x.store.retired = x.held /\ x.coordinator.lastLease <= x.cursor
  BY <1>1 DEF Agrees
<1>3. ~BeginFails(x.store)
  BY <1>2 DEF BeginFails
<1>4. role \in Roles /\ (x.held.retired # None => role # x.held.retired.role)
  BY <1>1, <1>2, FreeRoleFact
<1> HIDE DEF role
<1>5. lease \in Nat /\ lease # 0 /\ lease = x.cursor + 1
  BY <1>1, <1>2
<1> HIDE DEF lease
<1>6. x.store.targets[role] \in Nat /\ x.store.load \in Nat /\ x.store.source \in Nat
      /\ x.store.targets \in [Roles -> Nat]
  BY <1>1, <1>4 DEF Stores
<1>7. /\ attempt \in Pics /\ attempt.source = source /\ attempt.role = role
      /\ attempt.target = x.targets[role] /\ attempt.lease = lease /\ attempt.load = x.load
      /\ attempt # None
  <2>1. attempt \in Pics /\ attempt.source = source /\ attempt.role = role
        /\ attempt.target = x.targets[role] /\ attempt.lease = lease /\ attempt.load = x.load
    BY <1>2, <1>4, <1>5, <1>6 DEF Pics, lease
  <2> QED
    BY <2>1, NoneFact
<1>8. Begin(x.store, owner) = s
  BY <1>1, <1>2 DEF Begin, role, lease, Stores
<1> HIDE DEF attempt
<1>9. /\ s \in Stores /\ s.phase = x.store.phase /\ s.targets = x.store.targets
      /\ s.source = x.store.source /\ s.load = x.store.load /\ s.lease = lease
      /\ s.current = None /\ s.active = attempt /\ s.retired = x.store.retired
  BY <1>1, <1>5, <1>7, NoneFact DEF Stores
<1>10. /\ c \in Coordinators /\ c.phase = x.coordinator.phase /\ c.pending = 0
       /\ c.ticket = attempt /\ c.lastSource = x.coordinator.lastSource /\ c.lastLease = lease
  BY <1>1, <1>5, <1>7 DEF Coordinators
<1>11. ~TicketFails(x.coordinator, attempt)
  <2>1. x.coordinator.lastLease \in Nat
    BY <1>1 DEF Coordinators
  <2> QED
    BY <1>1, <1>2, <1>5, <1>7, <2>1 DEF TicketFails
<1>12. Ticketed(x, s, NoReceipt) = y
  <2> DEFINE t == [x EXCEPT !.store = s, !.pending = 0, !.coordinator = c]
  <2>1. [x EXCEPT !.store = s, !.pending = 0, !.coordinator = IssueTicket(@, s.active)] = t
    BY <1>1, <1>9 DEF IssueTicket, Runtimes
  <2>2. ReleaseRetirement(t, NoReceipt, engine.physical) = [ok |-> TRUE, h |-> t]
    BY DEF ReleaseRetirement, Ok
  <2>3. [t EXCEPT !.grant = 0, !.cursor = attempt.lease] = y
    BY <1>1 DEF Runtimes
  <2>4. x.grant = attempt.lease /\ attempt.lease = x.cursor + 1
    BY <1>2, <1>5, <1>7
  <2>5. s.active = attempt
    BY <1>9
  <2> HIDE DEF t, y, s, c
  <2>6. /\ ~TicketFails(x.coordinator, s.active) /\ s.active.lease = x.grant
        /\ s.active.lease = x.cursor + 1 /\ [t EXCEPT !.grant = 0, !.cursor = s.active.lease] = y
    BY <1>11, <2>3, <2>4, <2>5
  <2> DEFINE released ==
        ReleaseRetirement([x EXCEPT !.store = s, !.pending = 0, !.coordinator = IssueTicket(@, s.active)],
                          NoReceipt, engine.physical)
  <2>7. released.ok /\ released.h = t
    BY <2>1, <2>2
  <2>8. Ticketed(x, s, NoReceipt) = [released.h EXCEPT !.grant = 0, !.cursor = s.active.lease]
    BY <2>6, <2>7 DEF Ticketed
  <2> HIDE DEF released
  <2> QED
    BY <2>6, <2>7, <2>8
<1> HIDE DEF s, c
<1>13. /\ y \in Runtimes /\ y.store = s /\ y.coordinator = c /\ y.pending = 0 /\ y.grant = 0
       /\ y.cursor = lease /\ y.targets = x.targets /\ y.ready = x.ready /\ y.current = x.current
       /\ y.held = x.held /\ y.expiry = x.expiry /\ y.presented = x.presented
       /\ y.slots = x.slots /\ y.load = x.load /\ y.continuity = x.continuity
  BY ZenonT(60), <1>1, <1>5, <1>7, <1>9, <1>10 DEF Runtimes
<1>14. Same(x, y)
  <2>1. /\ y.visible = x.visible /\ y.enabled = x.enabled /\ y.faulted = x.faulted
        /\ y.loading = x.loading /\ y.menu = x.menu /\ y.inventory = x.inventory
        /\ y.equip = x.equip
    BY <1>1 DEF Runtimes
  <2> HIDE DEF y
  <2> QED
    BY <1>10, <1>13, <2>1 DEF Same
<1> HIDE DEF y
<1>15. drawn[role] = source /\ \A r \in Roles : r # role => drawn[r] = content[r]
  BY <1>4
<1> HIDE DEF drawn
<1>16. Coherent(s)
  BY <1>2, <1>4, <1>7, <1>9 DEF Coherent, Ready
<1>17. Kept(s.active, y, phys, drawn)
  BY <1>2, <1>5, <1>7, <1>9, <1>13, <1>15 DEF Kept
<1>18. x.held # NoReceipt => Kept(x.held.retired, y, phys, drawn)
  <2>1. x.held.retired.role \in Roles
    BY <1>1 DEF Runtimes, Receipts, Pics
  <2> QED
    BY <1>1, <1>4, <1>13, <1>15, <2>1 DEF Kept, Agrees
<1>19. lease <= lease
  BY <1>5
<1>20. Agrees(y, phys, drawn)
  BY <1>1, <1>2, <1>9, <1>10, <1>13, <1>16, <1>17, <1>18, <1>19 DEF Agrees
<1>21. Good(y, phys, drawn)
  BY <1>1, <1>13, <1>20 DEF Good
<1>22. Begun(x, s, y)
  BY <1>2, <1>4, <1>7, <1>9, <1>13, <1>14 DEF Begun
<1> QED
  BY <1>2, <1>3, <1>7, <1>8, <1>9, <1>12, <1>21, <1>22 DEF drawn

\* y is x once its ticket is closed.
Closed(x, y) ==
  /\ y.store.active = None /\ y.store.source = x.store.source
  /\ y.pending = 0 /\ y.held = x.held /\ y.expiry = x.expiry /\ Same(x, y)

LEMMA AbortFact ==
  ASSUME NEW x, NEW phys, NEW content, Good(x, phys, content), x.store.active # None
  PROVE  LET y == Aborted(x)
         IN Good(y, phys, content) /\ Closed(x, y) /\ y.current = None
<1> DEFINE s == [x.store EXCEPT !.active = None]
           c == [x.coordinator EXCEPT !.ticket = None]
           y == [x EXCEPT !.store = s, !.coordinator = c]
<1>1. /\ x \in Runtimes /\ x.store \in Stores /\ x.coordinator \in Coordinators
      /\ x.ready /\ Agrees(x, phys, content) /\ x.current = None /\ x.pending = 0
  BY GoodFlags DEF Good
<1>2. Aborted(x) = y
  BY <1>1 DEF Aborted, Abort, CloseTicket, Agrees, Runtimes
<1>3. /\ s \in Stores /\ s.phase = x.store.phase /\ s.targets = x.store.targets
      /\ s.source = x.store.source /\ s.load = x.store.load /\ s.lease = x.store.lease
      /\ s.current = x.store.current /\ s.active = None /\ s.retired = x.store.retired
  BY <1>1, NoneFact DEF Stores
<1>4. /\ c \in Coordinators /\ c.phase = x.coordinator.phase /\ c.ticket = None
      /\ c.pending = x.coordinator.pending /\ c.lastSource = x.coordinator.lastSource
      /\ c.lastLease = x.coordinator.lastLease
  BY <1>1, NoneFact DEF Coordinators
<1> HIDE DEF s, c
<1>5. /\ y \in Runtimes /\ y.store = s /\ y.coordinator = c /\ y.targets = x.targets
      /\ y.ready = x.ready /\ y.pending = x.pending /\ y.grant = x.grant /\ y.current = x.current
      /\ y.held = x.held /\ y.expiry = x.expiry /\ y.presented = x.presented /\ y.slots = x.slots
      /\ y.cursor = x.cursor /\ y.load = x.load /\ y.continuity = x.continuity /\ Same(x, y)
  BY <1>1, <1>3, <1>4 DEF Runtimes, Same
<1> HIDE DEF y
<1>6. Coherent(s)
  BY <1>1, <1>3 DEF Agrees, Coherent, Ready
<1>7. Agrees(y, phys, content)
  BY <1>1, <1>3, <1>4, <1>5, <1>6 DEF Agrees, Kept
<1>8. Good(y, phys, content)
  BY <1>1, <1>5, <1>7 DEF Good
<1>9. Closed(x, y)
  BY <1>1, <1>3, <1>5 DEF Closed
<1> QED
  BY <1>1, <1>2, <1>5, <1>8, <1>9

LEMMA PublishFact ==
  ASSUME NEW x, NEW phys, NEW content, Good(x, phys, content), x.store.active # None,
         FinalFirstPersonDeliveryPending
  PROVE  LET y == Published(x)
         IN Good(y, phys, content) /\ Closed(x, y) /\ y.current # None /\ y.presented = 0
<1> DEFINE p == x.store.active
           s == [x.store EXCEPT !.current = p, !.active = None]
           c == [x.coordinator EXCEPT !.ticket = None]
           slots == [x.slots EXCEPT ![p.role] = p]
           y == [x EXCEPT !.store = s, !.coordinator = c, !.slots = slots,
                          !.current = p, !.presented = 0]
<1>1. /\ x \in Runtimes /\ x.store \in Stores /\ x.coordinator \in Coordinators
      /\ x.ready /\ Agrees(x, phys, content) /\ x.current = None /\ x.pending = 0
      /\ x.slots \in [Roles -> Pics]
  BY GoodFlags DEF Good, Runtimes
<1>2. p \in Pics /\ p.role \in Roles /\ p # None
  BY <1>1 DEF Stores, Pics
<1>3. Published(x) = y
  BY <1>1 DEF Published, Complete, CloseTicket, Agrees, Runtimes
<1>4. Coherent(x.store) /\ x.store.current = None /\ x.store.retired = x.held
  BY <1>1 DEF Agrees
<1> HIDE DEF p
<1>5. /\ s \in Stores /\ s.phase = x.store.phase /\ s.targets = x.store.targets
      /\ s.source = x.store.source /\ s.load = x.store.load /\ s.lease = x.store.lease
      /\ s.current = p /\ s.active = None /\ s.retired = x.store.retired
  BY <1>1, <1>2, NoneFact DEF Stores
<1>6. /\ c \in Coordinators /\ c.phase = x.coordinator.phase /\ c.ticket = None
      /\ c.pending = x.coordinator.pending /\ c.lastSource = x.coordinator.lastSource
      /\ c.lastLease = x.coordinator.lastLease
  BY <1>1, NoneFact DEF Coordinators
<1>7. slots \in [Roles -> Pics] /\ slots[p.role] = p
      /\ \A r \in Roles : r # p.role => slots[r] = x.slots[r]
  BY <1>1, <1>2
<1> HIDE DEF s, c, slots
<1>8. /\ y \in Runtimes /\ y.store = s /\ y.coordinator = c /\ y.targets = x.targets
      /\ y.ready = x.ready /\ y.pending = x.pending /\ y.grant = x.grant /\ y.current = p
      /\ y.held = x.held /\ y.expiry = x.expiry /\ y.presented = 0 /\ y.slots = slots
      /\ y.cursor = x.cursor /\ y.load = x.load /\ y.continuity = x.continuity /\ Same(x, y)
  BY ZenonT(60), <1>1, <1>2, <1>5, <1>6, <1>7 DEF Runtimes, Same
<1> HIDE DEF y
<1>9. Coherent(s)
  BY <1>2, <1>4, <1>5 DEF Coherent, Ready, p
<1>10. Kept(p, x, phys, content)
  BY <1>1, <1>2 DEF Agrees, p
<1>11. x.held # NoReceipt => slots[x.held.retired.role] = x.held.retired
  <2>1. x.held.retired.role \in Roles /\ x.held.retired.source \in Nat
    BY <1>1 DEF Runtimes, Receipts, Pics
  <2>2. x.held # NoReceipt => x.held.retired.source # x.store.source /\ x.held.retired # None
                              /\ x.slots[x.held.retired.role] = x.held.retired
    BY <1>1, <2>1 DEF Agrees, Stores
  <2>3. p.source = x.store.source
    BY <1>2, <1>4 DEF Coherent, p
  <2>4. x.held # NoReceipt => x.held.retired.role # p.role
    BY <1>2, <1>4, <2>2, <2>3 DEF Coherent, p
  <2> QED
    BY <1>7, <2>1, <2>2, <2>4
<1>12. Agrees(y, phys, content)
  BY <1>1, <1>5, <1>6, <1>7, <1>8, <1>9, <1>10, <1>11 DEF Agrees, Kept
<1>13. Good(y, phys, content)
  BY <1>1, <1>8, <1>12 DEF Good
<1>14. Closed(x, y)
  BY <1>1, <1>5, <1>8 DEF Closed
<1> QED
  BY <1>2, <1>3, <1>8, <1>13, <1>14

-----------------------------------------------------------------------------
(* The end of a load *)

\* y is x under the next load generation, with the flags of a new load.
LoadedFrom(x, y) ==
  /\ y \in Runtimes /\ y.store = x.store /\ y.coordinator = x.coordinator
  /\ y.targets = x.targets /\ y.ready = x.ready /\ y.pending = x.pending
  /\ y.grant = x.grant /\ y.current = None /\ y.held = x.held /\ y.expiry = x.expiry
  /\ y.cursor = x.cursor /\ y.load = x.load + 1 /\ y.faulted = x.faulted
  /\ y.enabled /\ ~y.loading

\* y is x but for the flags of a lifecycle and what was last presented.
SameBooks(x, y) ==
  /\ y \in Runtimes /\ y.store = x.store /\ y.coordinator = x.coordinator
  /\ y.targets = x.targets /\ y.ready = x.ready /\ y.pending = x.pending
  /\ y.grant = x.grant /\ y.held = x.held /\ y.expiry = x.expiry
  /\ y.cursor = x.cursor /\ y.faulted = x.faulted

LEMMA ReloadedFact ==
  ASSUME NEW x \in Runtimes
  PROVE  LoadedFrom(x, Reloaded(x))
<1> DEFINE load == x.load + 1
           a1 == [x EXCEPT !.load = load]
           a  == [a1 EXCEPT !.current = None]
           b  == [a EXCEPT !.presented = 0]
           b1 == [b EXCEPT !.visible = 0]
           c  == [b1 EXCEPT !.resumeFence = 0]
           c1 == [c EXCEPT !.menu = FALSE]
           d  == [c1 EXCEPT !.inventory = FALSE]
           d1 == [d EXCEPT !.resume = FALSE]
           e  == [d1 EXCEPT !.equip = FALSE]
           e1 == [e EXCEPT !.enabled = TRUE]
           y  == [e1 EXCEPT !.loading = FALSE]
<1>1. load \in Nat /\ load = x.load + 1 /\ 0 \in Owners \cup {0}
  BY DEF Runtimes
<1>2. Reloaded(x) = y
  BY DEF Reloaded, Runtimes
<1> HIDE DEF load
<1>3. /\ SameBooks(x, a1)
      /\ a1.load = load
  BY <1>1, NoneFact DEF Runtimes, SameBooks
<1> HIDE DEF a1
<1>4. /\ SameBooks(a1, a)
      /\ a.load = load /\ a.current = None
  BY <1>1, <1>3, NoneFact DEF Runtimes, SameBooks
<1> HIDE DEF a
<1>5. /\ SameBooks(a, b)
      /\ b.load = a.load /\ b.current = a.current
  BY <1>1, <1>4, NoneFact DEF Runtimes, SameBooks
<1> HIDE DEF b
<1>6. /\ SameBooks(b, b1)
      /\ b1.load = b.load /\ b1.current = b.current
  BY <1>1, <1>5, NoneFact DEF Runtimes, SameBooks
<1> HIDE DEF b1
<1>7. /\ SameBooks(b1, c)
      /\ c.load = b1.load /\ c.current = b1.current
  BY <1>1, <1>6, NoneFact DEF Runtimes, SameBooks
<1> HIDE DEF c
<1>8. /\ SameBooks(c, c1)
      /\ c1.load = c.load /\ c1.current = c.current
  BY ZenonT(60), <1>1, <1>7, NoneFact DEF Runtimes, SameBooks
<1> HIDE DEF c1
<1>9. /\ SameBooks(c1, d)
      /\ d.load = c1.load /\ d.current = c1.current
  BY ZenonT(60), <1>1, <1>8, NoneFact DEF Runtimes, SameBooks
<1> HIDE DEF d
<1>10. /\ SameBooks(d, d1)
      /\ d1.load = d.load /\ d1.current = d.current
  BY ZenonT(60), <1>1, <1>9, NoneFact DEF Runtimes, SameBooks
<1> HIDE DEF d1
<1>11. /\ SameBooks(d1, e)
      /\ e.load = d1.load /\ e.current = d1.current
  BY ZenonT(60), <1>1, <1>10, NoneFact DEF Runtimes, SameBooks
<1> HIDE DEF e
<1>12. /\ SameBooks(e, e1)
      /\ e1.load = e.load /\ e1.current = e.current /\ e1.enabled = TRUE
  BY ZenonT(60), <1>1, <1>11, NoneFact DEF Runtimes, SameBooks
<1> HIDE DEF e1
<1>13. /\ SameBooks(e1, y)
      /\ y.load = e1.load /\ y.current = e1.current
      /\ y.enabled = e1.enabled /\ y.loading = FALSE
  BY ZenonT(60), <1>1, <1>12, NoneFact DEF Runtimes, SameBooks
<1> HIDE DEF y
<1> QED
  BY <1>1, <1>2, <1>3, <1>4, <1>5, <1>6, <1>7, <1>8, <1>9, <1>10, <1>11, <1>12, <1>13 DEF SameBooks, LoadedFrom

\* Nothing is left of the load before, and the flags start anew.
LEMMA LoadFact ==
  ASSUME NEW x, NEW content, Good(x, engine.physical, content), x.store.active = None
  PROVE  LET r == ReadyToLoad(x)
             y == Reloaded(r.h)
         IN /\ r.ok /\ Good(y, engine.physical, content) /\ Bare(y) /\ y.expiry = 0
            /\ y.enabled /\ ~y.loading /\ y.faulted = x.faulted
            /\ y.store.source = x.store.source
            /\ y.coordinator.lastSource = x.coordinator.lastSource
<1> DEFINE phys == engine.physical
<1>1. CASE ~x.ready
  <2> DEFINE y == Reloaded(x)
  <2>1. x \in Runtimes /\ Blank(x)
    BY <1>1, GoodFlags DEF Good
  <2>2. ReadyToLoad(x) = [ok |-> TRUE, h |-> x]
    BY <1>1 DEF ReadyToLoad, Ok
  <2>5. LoadedFrom(x, y)
    BY <2>1, ReloadedFact
  <2> HIDE DEF y
  <2>6. Good(y, phys, content) /\ Bare(y) /\ y.expiry = 0
    BY <1>1, <2>1, <2>5 DEF Good, Blank, Bare, LoadedFrom
  <2> QED
    BY <2>2, <2>5, <2>6 DEF y, LoadedFrom
<1>2. CASE x.ready
  <2> DEFINE first == CancelAbandoned(x)
             second == ReleaseHeldPredecessor(first.h, phys)
             third == LoadInvalidated(second.h)
             z == second.h
  <2>1. Agrees(x, phys, content) /\ Ready(x.store) /\ x.coordinator.ticket = None
    BY <1>2 DEF Good, Agrees, Ready
  <2>2. ReadyToLoad(x) = Then(Then(first, LAMBDA y : ReleaseHeldPredecessor(y, phys)), LoadInvalidated)
    BY <1>2, <2>1 DEF ReadyToLoad
  <2>3. /\ first.ok /\ Good(first.h, phys, content) /\ Same(x, first.h)
        /\ first.h.held = x.held /\ first.h.pending = 0
        /\ first.h.store.active = None /\ first.h.store.source = x.store.source
    BY CancelFact
  <2>4. Then(first, LAMBDA y : ReleaseHeldPredecessor(y, phys)) = second
    BY <2>3 DEF Then
  <2> HIDE DEF first
  <2>5. first.h.held # NoReceipt => Unbound(first.h.held.retired, phys)
    BY <2>1, <2>3, GoodFlags DEF Agrees, Kept, Unbound, Runtimes, Receipts, Pics
  <2>6. /\ second.ok /\ Good(z, phys, content) /\ Same(first.h, z)
        /\ z.held = NoReceipt /\ z.expiry = 0 /\ z.pending = 0
        /\ z.store.active = None /\ z.store.source = x.store.source
    BY <2>3, <2>5, ReleaseHeldFact
  <2>7. Then(second, LoadInvalidated) = third /\ third = LoadInvalidated(z)
    BY <2>6 DEF Then
  <2> HIDE DEF second, third
  <2>8. z \in Runtimes /\ z.store \in Stores /\ z.ready /\ Agrees(z, phys, content)
        /\ z.load \in Nat /\ z.current \in Pics /\ z.faulted = x.faulted
        /\ z.coordinator.lastSource = x.coordinator.lastSource
    BY <1>2, <2>3, <2>6, GoodFlags DEF Good, Runtimes, Same
  <2> HIDE DEF z
  <2> DEFINE load == z.load + 1
             receipt == Receipt(z.store.current, "loadInvalidated")
             retired == IF z.store.current = None THEN z.store.retired ELSE receipt
             s == [z.store EXCEPT !.current = None, !.active = None, !.retired = retired,
                                  !.load = load]
             n == [z EXCEPT !.store = s]
             n0 == [z EXCEPT !.store = OnLoadInvalidated(@, z.load + 1)]
             rel == ReleaseRetirement(n, receipt, phys)
             empty == [r \in Roles |-> None]
             y == rel.h
             e == [y EXCEPT !.slots = empty]
  <2>9. load \in Nat /\ empty \in [Roles -> Pics]
    BY <2>8, NoneFact
  <2>10. /\ z.store.current = z.current /\ z.store.retired = NoReceipt /\ Coherent(z.store)
         /\ CanForceInvalidate(z.store)
    BY <2>6, <2>8 DEF Agrees, CanForceInvalidate
  <2>11. /\ receipt \in Receipts /\ retired \in Receipts /\ retired = receipt
         /\ z.current = None => receipt = NoReceipt
         /\ z.current # None => receipt # NoReceipt /\ receipt.retired = z.current
    BY <2>8, <2>10, NoneFact, ReceiptFact DEF Causes
  <2>12. n0 = n
    <3>1. OnLoadInvalidated(z.store, z.load + 1) = s
      BY <2>8 DEF OnLoadInvalidated, ForceInvalidate, Stores
    <3> HIDE DEF s
    <3> QED
      BY <2>8, <3>1 DEF Runtimes
  <2>13. third = Then(rel, LAMBDA y0 : Ok([y0 EXCEPT !.slots = [r \in Roles |-> None]]))
    BY <2>7, <2>10, <2>12 DEF LoadInvalidated
  <2> HIDE DEF receipt, retired, load, n0
  <2>14. /\ s \in Stores /\ s.phase = z.store.phase /\ s.targets = z.store.targets
         /\ s.source = z.store.source /\ s.load = load /\ s.lease = z.store.lease
         /\ s.current = None /\ s.active = None /\ s.retired = receipt
    BY <2>8, <2>9, <2>11, NoneFact DEF Stores
  <2> HIDE DEF s
  <2>15. Coherent(s)
    BY <2>10, <2>14 DEF Coherent, Ready
  <2>16. /\ n \in Runtimes /\ n.store = s /\ n.coordinator = z.coordinator /\ n.targets = z.targets
         /\ n.ready = z.ready /\ n.pending = z.pending /\ n.grant = z.grant
         /\ n.current = z.current /\ n.held = z.held /\ n.expiry = z.expiry
         /\ n.cursor = z.cursor /\ n.load = z.load /\ n.faulted = z.faulted
    BY <2>8, <2>14 DEF Runtimes
  <2> HIDE DEF n
  \* The picture that is current is released, whatever its role.
  <2>17. /\ rel.ok /\ y \in Runtimes /\ y.store \in Stores
         /\ y.store.phase = s.phase /\ y.store.targets = s.targets /\ y.store.source = s.source
         /\ y.store.load = load /\ y.store.lease = s.lease /\ y.store.current = None
         /\ y.store.active = None /\ y.store.retired = NoReceipt /\ Coherent(y.store)
         /\ y.coordinator = n.coordinator /\ y.targets = n.targets /\ y.ready = n.ready
         /\ y.pending = n.pending /\ y.grant = n.grant /\ y.held = n.held
         /\ y.expiry = n.expiry /\ y.cursor = n.cursor /\ y.load = n.load
         /\ y.faulted = n.faulted
    <3>1. CASE z.current = None
      <4>1. rel = [ok |-> TRUE, h |-> n]
        BY <2>11, <3>1 DEF ReleaseRetirement, Ok
      <4> HIDE DEF rel
      <4> QED
        BY <2>11, <2>14, <2>15, <2>16, <3>1, <4>1
    <3>2. CASE z.current # None
      <4>1. Unbound(receipt.retired, phys)
        BY <2>8, <2>11, <3>2 DEF Unbound, Agrees, Kept, Pics
      <4>2. rel.ok /\ Released(n, receipt, y)
        BY <2>11, <2>14, <2>15, <2>16, <3>2, <4>1, ReleaseFact
      <4> HIDE DEF rel, y
      <4>3. y.store = ReleaseRetired(s) /\ y.store \in Stores
        BY <2>16, <4>2 DEF Released
      <4>4. Coherent(y.store)
        BY <2>14, <2>15, <4>3, CoherentReleased
      <4>5. /\ y.store.phase = s.phase /\ y.store.targets = s.targets /\ y.store.source = s.source
            /\ y.store.load = load /\ y.store.lease = s.lease /\ y.store.current = None
            /\ y.store.active = None /\ y.store.retired = NoReceipt
        BY <2>14, <4>3 DEF Stores, ReleaseRetired
      <4> QED
        BY <4>2, <4>3, <4>4, <4>5 DEF Released, Same
    <3> QED
      BY <3>1, <3>2
  <2>18. third = [ok |-> TRUE, h |-> e]
    BY <2>13, <2>17 DEF Then, Ok
  <2> HIDE DEF rel, y, empty
  <2>19. /\ e \in Runtimes /\ e.store = y.store /\ e.coordinator = y.coordinator
         /\ e.targets = y.targets /\ e.ready = y.ready /\ e.pending = y.pending
         /\ e.grant = y.grant /\ e.held = y.held /\ e.expiry = y.expiry /\ e.cursor = y.cursor
         /\ e.load = y.load /\ e.faulted = y.faulted
    BY <2>9, <2>17 DEF Runtimes
  <2> HIDE DEF e
  <2> DEFINE w == Reloaded(e)
  <2>21. LoadedFrom(e, w)
    BY <2>19, ReloadedFact
  <2> HIDE DEF w
  <2>22. /\ w.store = y.store /\ w.coordinator = z.coordinator /\ w.targets = z.targets
         /\ w.ready /\ w.pending = 0 /\ w.grant = z.grant /\ w.held = NoReceipt /\ w.expiry = 0
         /\ w.cursor = z.cursor /\ w.faulted = x.faulted
    BY <2>6, <2>8, <2>16, <2>17, <2>19, <2>21 DEF LoadedFrom
  <2>27. w \in Runtimes /\ w.current = None /\ w.load = load /\ w.enabled /\ ~w.loading
    BY <2>16, <2>17, <2>19, <2>21 DEF LoadedFrom, load
  <2>23. Agrees(w, phys, content)
    BY <2>6, <2>8, <2>14, <2>17, <2>22, <2>27 DEF Agrees
  <2>24. Good(w, phys, content) /\ Bare(w)
    BY <2>17, <2>22, <2>23, <2>27 DEF Good, Bare
  <2>25. w.store.source = x.store.source /\ w.coordinator.lastSource = x.coordinator.lastSource
    BY <2>6, <2>8, <2>14, <2>17, <2>22
  <2>26. ReadyToLoad(x) = [ok |-> TRUE, h |-> e]
    BY <2>2, <2>4, <2>7, <2>18
  <2> QED
    BY <2>22, <2>24, <2>25, <2>26, <2>27 DEF w
<1> QED
  BY <1>1, <1>2

-----------------------------------------------------------------------------
(* A first-person call returns *)

Quiet(x, y) ==
  /\ Same(x, y) /\ y.pending = x.pending
  /\ y.store.active = None /\ y.store.source = x.store.source

\* What the held picture becomes: given up, or kept and shown on.
HoldResolved(x, drew, y) ==
  /\ Quiet(x, y) /\ y.current = x.current /\ y.presented = x.presented
  /\ y.held = NoReceipt => y.expiry = 0
  /\ y.held # NoReceipt =>
       /\ y.held = x.held /\ y.expiry # 0 /\ y.current = None
       /\ x.expiry = 0 => drew = x.held.retired

LEMMA ResolveHeldFact ==
  ASSUME NEW x, NEW content, Good(x, engine.physical, content), x.store.active = None,
         NEW surface, NEW drew, NEW replayed, x.enabled, ~x.faulted,
         x.held # NoReceipt /\ x.expiry = 0 =>
           PublicationMatchesVisibleSurface(x.held.retired, surface)
  PROVE  LET r == ResolveHeld(x, surface, drew, replayed)
         IN r.ok /\ Good(r.h, engine.physical, content) /\ HoldResolved(x, drew, r.h)
<1> DEFINE phys == engine.physical
           r == ResolveHeld(x, surface, drew, replayed)
           promotes == x.expiry = 0 /\ TryPromote(x, surface, drew)
           validates == /\ x.expiry # 0 /\ x.current = None
                        /\ replayed \/ CleanMissContinuityMatches(x, surface)
<1>1. x \in Runtimes /\ x.store \in Stores /\ x.expiry \in Nat /\ x.store.source \in Nat
  BY GoodFlags DEF Runtimes, Stores
<1>2. CASE x.held = NoReceipt
  <2>1. r = [ok |-> TRUE, h |-> x]
    BY <1>2 DEF ResolveHeld, Ok
  <2>2. x.expiry = 0
    BY <1>2 DEF Good, Agrees, Blank
  <2>3. HoldResolved(x, drew, x)
    BY <1>2, <2>2 DEF HoldResolved, Quiet, Same
  <2> QED
    BY <2>1, <2>3
<1>3. CASE x.held # NoReceipt
  <2>1. x.ready /\ Agrees(x, phys, content)
    BY <1>3, GoodFlags DEF Good
  <2>2. x.held.cause = "sourceAdvanced" /\ x.slots[x.held.retired.role] = x.held.retired
    BY <1>3, <2>1 DEF Agrees
  <2>3. ~(x.expiry = 0 /\ ~HeldPredecessorMatchesStaged(x, surface))
    BY <1>3, <2>2 DEF HeldPredecessorMatchesStaged
  <2>4. r = IF promotes THEN Ok([x EXCEPT !.expiry = x.store.source, !.validated = 0])
            ELSE IF validates THEN Ok([x EXCEPT !.validated = x.expiry])
            ELSE ReleaseHeldPredecessor(x, phys)
    BY <1>3, <2>3 DEF ResolveHeld
  <2>5. CASE promotes
    <3> DEFINE expiry == x.store.source
               y == [x EXCEPT !.expiry = expiry, !.validated = 0]
    <3>1. r = [ok |-> TRUE, h |-> y]
      BY <2>4, <2>5 DEF Ok
    <3>2. PublicationMatchesVisibleSurface(x.held.retired, surface) /\ surface.source + 1 = expiry
      BY <1>3, <2>5 DEF TryPromote
    <3>3. /\ x.held.retired.source \in Nat /\ x.held.retired.source + 1 = expiry
          /\ x.continuity /\ x.current = None /\ drew = x.held.retired
      BY <1>1, <2>5, <3>2 DEF TryPromote, CleanMissEffective, PublicationMatchesVisibleSurface,
                               Runtimes, Receipts, Pics
    <3>4. /\ expiry # 0 /\ expiry > x.held.retired.source
          /\ expiry - x.held.retired.source <= MaxMiss
      BY <1>1, <3>3, HandConstants
    <3>5. expiry \in Nat /\ expiry = x.store.source
      BY <1>1
    <3> HIDE DEF expiry
    <3>6. /\ y \in Runtimes /\ y.store = x.store /\ y.coordinator = x.coordinator
          /\ y.targets = x.targets /\ y.ready = x.ready /\ y.pending = x.pending
          /\ y.grant = x.grant /\ y.current = x.current /\ y.held = x.held /\ y.expiry = expiry
          /\ y.presented = x.presented /\ y.slots = x.slots /\ y.cursor = x.cursor
          /\ y.load = x.load /\ y.continuity = x.continuity /\ Same(x, y)
      BY <1>1, <3>5 DEF Runtimes, Same
    <3> HIDE DEF y
    <3>7. Agrees(y, phys, content)
      BY <1>3, <2>1, <3>3, <3>4, <3>5, <3>6 DEF Agrees, Kept
    <3>8. Good(y, phys, content)
      BY <2>1, <3>6, <3>7 DEF Good
    <3>9. HoldResolved(x, drew, y)
      BY <1>3, <3>3, <3>4, <3>6 DEF HoldResolved, Quiet
    <3> QED
      BY <3>1, <3>8, <3>9
  <2>6. CASE ~promotes /\ validates
    <3> DEFINE y == [x EXCEPT !.validated = x.expiry]
    <3>1. r = [ok |-> TRUE, h |-> y]
      BY <2>4, <2>6 DEF Ok
    <3>2. /\ y \in Runtimes /\ y.store = x.store /\ y.coordinator = x.coordinator
          /\ y.targets = x.targets /\ y.ready = x.ready /\ y.pending = x.pending
          /\ y.grant = x.grant /\ y.current = x.current /\ y.held = x.held /\ y.expiry = x.expiry
          /\ y.presented = x.presented /\ y.slots = x.slots /\ y.cursor = x.cursor
          /\ y.load = x.load /\ y.continuity = x.continuity /\ Same(x, y)
      BY <1>1 DEF Runtimes, Same
    <3> HIDE DEF y
    <3>3. Good(y, phys, content)
      BY <3>2, FlagsGood
    <3>4. HoldResolved(x, drew, y)
      BY <1>3, <2>6, <3>2 DEF HoldResolved, Quiet
    <3> QED
      BY <3>1, <3>3, <3>4
  <2>7. CASE ~promotes /\ ~validates
    <3>1. r = ReleaseHeldPredecessor(x, phys)
      BY <2>4, <2>7
    <3>2. Unbound(x.held.retired, phys)
      BY <1>3, <2>1, GoodFlags DEF Agrees, Kept, Unbound, Runtimes, Receipts, Pics
    <3> HIDE DEF r
    <3>3. /\ r.ok /\ Good(r.h, phys, content) /\ Same(x, r.h)
          /\ r.h.held = NoReceipt /\ r.h.expiry = 0 /\ r.h.current = x.current
          /\ r.h.presented = x.presented /\ r.h.pending = x.pending
          /\ r.h.store.active = x.store.active /\ r.h.store.source = x.store.source
      BY <3>1, <3>2, ReleaseHeldFact
    <3>4. HoldResolved(x, drew, r.h)
      BY <3>3 DEF HoldResolved, Quiet
    <3> QED
      BY <3>3, <3>4 DEF r
  <2> QED
    BY <2>5, <2>6, <2>7
<1> QED
  BY <1>2, <1>3

\* What the current picture becomes: presented, kept for the next call, or dark.
CurrentResolved(x, drew, y) ==
  /\ Quiet(x, y) /\ y.held = x.held /\ y.expiry = x.expiry
  /\ y.current # None =>
       /\ y.current = x.current
       /\ y.presented = x.presented \/ drew = x.current

LEMMA ResolveCurrentFact ==
  ASSUME NEW x, NEW content, Good(x, engine.physical, content), x.store.active = None,
         NEW surface, NEW drew, x.held # NoReceipt => x.current = None
  PROVE  LET r == ResolveCurrent(x, surface, drew)
         IN r.ok /\ Good(r.h, engine.physical, content) /\ CurrentResolved(x, drew, r.h)
<1> DEFINE phys == engine.physical
           r == ResolveCurrent(x, surface, drew)
           presents == CleanMissEffective(x) /\ drew = x.current
           waits == surface # NoSurface /\ surface.source + 1 = x.current.source
<1>1. x \in Runtimes /\ x.store \in Stores /\ x.current \in Pics
  BY GoodFlags DEF Runtimes
<1>2. ASSUME r = Ok(x)
      PROVE  r.ok /\ Good(r.h, phys, content) /\ CurrentResolved(x, drew, r.h)
  <2>1. r = [ok |-> TRUE, h |-> x]
    BY <1>2 DEF Ok
  <2>2. CurrentResolved(x, drew, x)
    BY DEF CurrentResolved, Quiet, Same
  <2> HIDE DEF r
  <2> QED
    BY <2>1, <2>2
<1>3. CASE x.current = None
  BY <1>2, <1>3 DEF ResolveCurrent
<1>4. CASE x.current # None
  <2>1. x.ready /\ Agrees(x, phys, content) /\ x.held = NoReceipt
    BY <1>4 DEF Good, Blank
  <2>2. /\ x.store.current = x.current /\ x.store.retired = NoReceipt /\ Coherent(x.store)
        /\ x.current.source = x.store.source /\ Kept(x.current, x, phys, content)
        /\ x.pending = 0 /\ x.expiry = 0
    BY <1>4, <2>1 DEF Agrees, Coherent
  <2>3. CanRetireDark(x.store, x.current.source)
    BY <1>4, <2>2 DEF CanRetireDark
  <2>4. r = IF presents THEN Ok([x EXCEPT !.presented = x.current.lease])
            ELSE IF waits THEN Ok(x)
            ELSE ReleaseRetirement([x EXCEPT !.store = RetireDark(@)],
                                   RetireDark(x.store).retired, phys)
    BY <1>4, <2>3 DEF ResolveCurrent
  <2>5. CASE presents
    <3> DEFINE lease == x.current.lease
               y == [x EXCEPT !.presented = lease]
    <3>1. r = [ok |-> TRUE, h |-> y]
      BY <2>4, <2>5 DEF Ok
    <3>2. lease \in Nat
      BY <1>1 DEF Pics
    <3> HIDE DEF lease
    <3>3. /\ y \in Runtimes /\ y.store = x.store /\ y.coordinator = x.coordinator
          /\ y.targets = x.targets /\ y.ready = x.ready /\ y.pending = x.pending
          /\ y.grant = x.grant /\ y.current = x.current /\ y.held = x.held /\ y.expiry = x.expiry
          /\ y.slots = x.slots /\ y.cursor = x.cursor
          /\ y.load = x.load /\ y.continuity = x.continuity /\ Same(x, y)
      BY <1>1, <3>2 DEF Runtimes, Same
    <3> HIDE DEF y
    <3>4. Agrees(y, phys, content)
      BY <2>1, <3>3 DEF Agrees, Kept
    <3>5. Good(y, phys, content)
      BY <2>1, <3>3, <3>4 DEF Good
    <3>6. CurrentResolved(x, drew, y)
      BY <2>5, <3>3 DEF CurrentResolved, Quiet
    <3> QED
      BY <3>1, <3>5, <3>6
  <2>6. CASE ~presents /\ waits
    <3>1. r = Ok(x)
      BY <2>4, <2>6
    <3> QED
      BY <1>2, <3>1
  <2>7. CASE ~presents /\ ~waits
    <3> DEFINE receipt == Receipt(x.store.current, "outerFirstPersonDark")
               s == [x.store EXCEPT !.current = None, !.retired = receipt]
               n == [x EXCEPT !.store = s]
               rel == ReleaseRetirement(n, receipt, phys)
               y == rel.h
    <3>1. receipt \in Receipts /\ receipt # NoReceipt /\ receipt.retired = x.current
      BY <1>1, <1>4, <2>2, ReceiptFact DEF Causes
    <3>2. RetireDark(x.store) = s
      BY DEF RetireDark
    <3> HIDE DEF receipt
    <3>3. /\ s \in Stores /\ s.phase = x.store.phase /\ s.targets = x.store.targets
          /\ s.source = x.store.source /\ s.load = x.store.load /\ s.lease = x.store.lease
          /\ s.current = None /\ s.active = x.store.active /\ s.retired = receipt
      BY <1>1, <3>1, NoneFact DEF Stores
    <3> HIDE DEF s
    <3>4. [x EXCEPT !.store = RetireDark(@)] = n
      BY <1>1, <3>2 DEF Runtimes
    <3>5. /\ n \in Runtimes /\ n.store = s /\ n.coordinator = x.coordinator
          /\ n.pending = x.pending /\ n.grant = x.grant /\ n.current = x.current
          /\ n.held = x.held /\ n.expiry = x.expiry /\ n.cursor = x.cursor /\ Same(x, n)
      BY <1>1, <3>3 DEF Runtimes, Same
    <3> HIDE DEF n
    <3>6. r = rel
      BY <2>4, <2>7, <3>2, <3>3, <3>4
    <3>7. Unbound(receipt.retired, phys)
      BY <1>1, <2>2, <3>1 DEF Unbound, Kept, Pics
    <3>8. Coherent(s)
      BY <2>2, <3>1, <3>3 DEF Coherent, Ready
    <3>9. rel.ok /\ Released(n, receipt, y)
      BY <3>1, <3>3, <3>5, <3>7, <3>8, ReleaseFact
    <3> HIDE DEF rel, y
    <3>10. /\ y \in Runtimes /\ y.store = ReleaseRetired(s) /\ y.store \in Stores
           /\ y.current = None /\ y.held = NoReceipt /\ y.expiry = 0
           /\ y.coordinator = x.coordinator /\ y.pending = x.pending /\ y.grant = x.grant
           /\ y.cursor = x.cursor /\ Same(n, y)
      BY <1>4, <2>1, <2>2, <3>1, <3>5, <3>9 DEF Released
    <3>11. /\ y.store.phase = s.phase /\ y.store.targets = s.targets /\ y.store.load = s.load
           /\ y.store.lease = s.lease /\ y.store.current = None /\ y.store.retired = NoReceipt
           /\ y.store.active = None /\ y.store.source = x.store.source
      BY <3>3, <3>10 DEF Stores, ReleaseRetired
    <3>12. Coherent(y.store)
      BY <3>3, <3>8, <3>10, CoherentReleased
    <3>13. Same(x, y)
      BY <3>5, <3>10 DEF Same
    <3>14. Agrees(y, phys, content)
      BY <2>1, <2>2, <3>3, <3>10, <3>11, <3>12, <3>13 DEF Agrees, Same
    <3>15. Good(y, phys, content)
      BY <2>1, <3>10, <3>13, <3>14 DEF Good, Same
    <3>16. CurrentResolved(x, drew, y)
      BY <2>1, <2>2, <3>10, <3>11, <3>13 DEF CurrentResolved, Quiet
    <3> QED
      BY <3>6, <3>9, <3>15, <3>16 DEF y
  <2> QED
    BY <2>5, <2>6, <2>7
<1> QED
  BY <1>3, <1>4

-----------------------------------------------------------------------------
(* The schedule *)

Surface == [source : Nat, owner : Owners \cup {0}]
FpTyped ==
  fp \in [call : {"none", "inside", "returned"}, active : BOOLEAN, returned : BOOLEAN,
          suppressed : BOOLEAN, counted : BOOLEAN, staged : Surface, entry : Nat,
          fenced : BOOLEAN]
Engines == [physical : [Roles -> Nat], made : Nat, stale : SUBSET Roles,
            content : [Roles -> Nat], equipped : Owners]
ScheduleTyped ==
  /\ FpTyped /\ frame \in Frames /\ source \in Nat /\ engine \in Engines
  /\ shown \in [picture : Pics, at : Nat, owner : Owners \cup {0}]

\* Only the first-person call that encloses the fence may keep an ordering hold.
OrderingHold(x) ==
  x.held # NoReceipt /\ x.expiry = 0 /\ IsEnabled(x) =>
    /\ fp.call = "inside" /\ fp.active /\ ~fp.returned /\ fp.fenced
    /\ PublicationMatchesVisibleSurface(x.held.retired, fp.staged)

\* What may exist at each point of the source.
AtFrame(x) ==
  /\ x.store.source <= source /\ x.coordinator.lastSource <= source
  /\ frame = "selected" =>
       /\ x.coordinator.lastSource < source /\ x.pending = 0 /\ x.current = None
       /\ source # 0 /\ (x.ready => x.store.source = source)
  /\ frame # "captured" => x.store.active = None
  /\ frame = "captured" => x.store.active # None

\* What a first-person call knows of itself.
Call(x) ==
  /\ fp.call = "none" => fp = OutsideCall
  /\ fp.call = "inside" => ~fp.returned /\ (fp.active \/ fp.suppressed \/ ~IsEnabled(x))
  /\ fp.call = "returned" => ~fp.active \/ fp.returned \/ ~IsEnabled(x)

Live(x) ==
  /\ Good(x, engine.physical, engine.content)
  /\ x.enabled = ~x.loading /\ OrderingHold(x) /\ AtFrame(x) /\ Call(x)

Over(x) == native /\ x.current = None /\ x.held = NoReceipt /\ x.expiry = 0

ShownWas(x) ==
  /\ x.expiry # 0 => x.held.retired = shown.picture
  /\ x.current # None /\ x.presented = x.current.lease => shown.picture = x.current

ShownFits ==
  shown.picture # None =>
    shown.at - shown.picture.source \in 0 .. MaxMiss /\ shown.owner = shown.picture.owner

HandInv ==
  /\ ScheduleTyped /\ ShownFits /\ ShownWas(h)
  /\ frame = "captured" /\ ~h.faulted => FinalFirstPersonDeliveryPending
  /\ IF h.faulted THEN Over(h) ELSE Live(h)

LEMMA LiveFact ==
  ASSUME HandInv, ~h.faulted
  PROVE  /\ h \in Runtimes /\ h.store \in Stores /\ h.coordinator \in Coordinators
         /\ Good(h, engine.physical, engine.content)
         /\ ScheduleTyped /\ ShownFits /\ ShownWas(h) /\ OrderingHold(h) /\ AtFrame(h) /\ Call(h)
         /\ h.enabled = ~h.loading /\ source \in Nat /\ engine.equipped \in Owners
         /\ engine.physical \in [Roles -> Nat] /\ engine.content \in [Roles -> Nat]
         /\ h.held # NoReceipt => Unbound(h.held.retired, engine.physical)
         /\ frame = "captured" => FinalFirstPersonDeliveryPending
<1>1. Live(h) /\ ScheduleTyped /\ ShownFits /\ ShownWas(h)
      /\ (frame = "captured" => FinalFirstPersonDeliveryPending)
  BY DEF HandInv
<1>2. Good(h, engine.physical, engine.content)
  BY <1>1 DEF Live
<1>3. h \in Runtimes /\ h.store \in Stores /\ h.coordinator \in Coordinators
  BY <1>2, GoodFlags
<1>4. h.held # NoReceipt => Unbound(h.held.retired, engine.physical)
  BY <1>2, <1>3, GoodFlags DEF Good, Agrees, Kept, Unbound, Runtimes, Receipts, Pics
<1> QED
  BY <1>1, <1>2, <1>3, <1>4 DEF Live, ScheduleTyped, Engines

LEMMA HandInvInit == Init => HandInv
<1> SUFFICES ASSUME Init PROVE HandInv
  OBVIOUS
<1>1. PICK continuity \in BOOLEAN : h = InitialRuntime(continuity)
  BY DEF Init
<1>2. PICK owner \in Owners :
        engine = [physical |-> [r \in Roles |-> 0], made |-> 0, stale |-> Roles,
                  content |-> [r \in Roles |-> 0], equipped |-> owner]
  BY DEF Init
<1>3. /\ fp = OutsideCall /\ frame = "idle" /\ source = 0
      /\ shown = [picture |-> None, at |-> 0, owner |-> 0]
  BY DEF Init
<1>4. ScheduleTyped
  BY <1>2, <1>3, NoneFact DEF ScheduleTyped, FpTyped, Surface, OutsideCall, NoSurface, Frames, Engines
<1>5. h \in Runtimes
  BY <1>1, EmptyTyped
<1>6. /\ h.store = EmptyStore /\ h.coordinator = EmptyCoordinator /\ h.pending = 0 /\ h.grant = 0
      /\ h.current = None /\ h.held = NoReceipt /\ h.expiry = 0 /\ ~h.ready /\ ~h.faulted
      /\ h.enabled /\ ~h.loading
  BY <1>1 DEF InitialRuntime
<1>7. Good(h, engine.physical, engine.content)
  BY <1>5, <1>6 DEF Good, Blank
<1>8. EmptyStore.source = 0 /\ EmptyStore.active = None /\ EmptyCoordinator.lastSource = 0
  BY DEF EmptyStore, EmptyCoordinator
<1>9. OrderingHold(h) /\ AtFrame(h) /\ Call(h)
  BY <1>3, <1>6, <1>8 DEF OrderingHold, AtFrame, Call, OutsideCall
<1>10. ShownFits /\ ShownWas(h)
  BY <1>3, <1>6 DEF ShownFits, ShownWas
<1> QED
  BY <1>3, <1>4, <1>6, <1>7, <1>9, <1>10 DEF HandInv, Live

\* Flags and equipment change, at no cost to any picture.
LEMMA FlagStep ==
  ASSUME HandInv, ~h.faulted, h' \in Runtimes,
         h'.store = h.store, h'.coordinator = h.coordinator, h'.targets = h.targets,
         h'.ready = h.ready, h'.pending = h.pending, h'.grant = h.grant,
         h'.current = h.current, h'.held = h.held, h'.expiry = h.expiry,
         h'.presented = h.presented, h'.slots = h.slots, h'.cursor = h.cursor,
         h'.load = h.load, h'.continuity = h.continuity,
         ~h'.faulted, h'.enabled = ~h'.loading, IsEnabled(h') => IsEnabled(h),
         UNCHANGED <<fp, source, shown>>, engine' \in Engines,
         engine'.physical = engine.physical, engine'.content = engine.content,
         frame' \in Frames,
         frame' = frame \/ (frame \notin {"captured"} /\ frame' \notin {"selected", "captured"})
  PROVE  HandInv'
<1>1. Good(h', engine'.physical, engine'.content)
  BY LiveFact, FlagsGood
<1>2. ScheduleTyped' /\ ShownFits' /\ ShownWas(h)'
  BY LiveFact DEF ScheduleTyped, FpTyped, ShownFits, ShownWas
<1>3. OrderingHold(h)' /\ AtFrame(h)' /\ Call(h)'
  BY LiveFact DEF OrderingHold, AtFrame, Call
<1>4. frame' = "captured" => FinalFirstPersonDeliveryPending'
  <2>1. frame' = "captured" => FinalFirstPersonDeliveryPending
    BY LiveFact
  <2> QED
    BY <2>1 DEF FinalFirstPersonDeliveryPending, HeldPredecessorMatchesStaged
<1> QED
  BY <1>1, <1>2, <1>3, <1>4 DEF HandInv, Live

LEMMA MenuStep == ASSUME HandInv, OnInventoryMenuOpenChanged PROVE HandInv'
<1>1. h \in Runtimes /\ ~h.faulted /\ ScheduleTyped /\ h.enabled = ~h.loading
  BY LiveFact DEF OnInventoryMenuOpenChanged, Happens
<1>2. /\ h' \in Runtimes
      /\ h'.store = h.store /\ h'.coordinator = h.coordinator /\ h'.targets = h.targets
      /\ h'.ready = h.ready /\ h'.pending = h.pending /\ h'.grant = h.grant
      /\ h'.current = h.current /\ h'.held = h.held /\ h'.expiry = h.expiry
      /\ h'.presented = h.presented /\ h'.slots = h.slots /\ h'.cursor = h.cursor
      /\ h'.load = h.load /\ h'.continuity = h.continuity
      /\ h'.faulted = h.faulted /\ h'.enabled = h.enabled /\ h'.loading = h.loading
  <2> DEFINE a == [h EXCEPT !.menu = FALSE, !.inventory = TRUE, !.resume = TRUE]
             b == [h EXCEPT !.menu = TRUE, !.inventory = TRUE, !.resume = FALSE]
  <2>1. CASE h.menu
    <3>1. h' = a
      BY <2>1 DEF OnInventoryMenuOpenChanged
    <3> QED
      BY <1>1, <3>1 DEF Runtimes
  <2>2. CASE ~h.menu
    <3>1. h' = b
      BY <2>2 DEF OnInventoryMenuOpenChanged
    <3> QED
      BY <1>1, <3>1 DEF Runtimes
  <2> QED
    BY <2>1, <2>2
<1>3. UNCHANGED <<fp, source, shown, engine, frame>>
  BY DEF OnInventoryMenuOpenChanged, Happens
<1> QED
  BY <1>1, <1>2, <1>3, FlagStep DEF IsEnabled, ScheduleTyped

LEMMA EquipWakeStep == ASSUME HandInv, OnPlayerEquipWake PROVE HandInv'
<1>1. h \in Runtimes /\ ~h.faulted /\ ScheduleTyped /\ h.enabled = ~h.loading
  BY LiveFact DEF OnPlayerEquipWake, Happens
<1>2. /\ h' \in Runtimes
      /\ h'.store = h.store /\ h'.coordinator = h.coordinator /\ h'.targets = h.targets
      /\ h'.ready = h.ready /\ h'.pending = h.pending /\ h'.grant = h.grant
      /\ h'.current = h.current /\ h'.held = h.held /\ h'.expiry = h.expiry
      /\ h'.presented = h.presented /\ h'.slots = h.slots /\ h'.cursor = h.cursor
      /\ h'.load = h.load /\ h'.continuity = h.continuity
      /\ h'.faulted = h.faulted /\ h'.enabled = h.enabled /\ h'.loading = h.loading
  BY <1>1 DEF OnPlayerEquipWake, Runtimes
<1>3. UNCHANGED <<fp, source, shown, engine, frame>>
  BY DEF OnPlayerEquipWake, Happens
<1> QED
  BY <1>1, <1>2, <1>3, FlagStep DEF IsEnabled, ScheduleTyped

LEMMA PreLoadStep == ASSUME HandInv, OnPreLoadGame PROVE HandInv'
<1>1. h \in Runtimes /\ ~h.faulted /\ ScheduleTyped
  BY LiveFact DEF OnPreLoadGame, Happens
<1>2. /\ h' \in Runtimes
      /\ h'.store = h.store /\ h'.coordinator = h.coordinator /\ h'.targets = h.targets
      /\ h'.ready = h.ready /\ h'.pending = h.pending /\ h'.grant = h.grant
      /\ h'.current = h.current /\ h'.held = h.held /\ h'.expiry = h.expiry
      /\ h'.presented = h.presented /\ h'.slots = h.slots /\ h'.cursor = h.cursor
      /\ h'.load = h.load /\ h'.continuity = h.continuity
      /\ h'.faulted = h.faulted /\ ~h'.enabled /\ h'.loading
  BY <1>1 DEF OnPreLoadGame, Runtimes
<1>3. UNCHANGED <<fp, source, shown, engine>>
  BY DEF OnPreLoadGame, Happens
<1>4. /\ frame' \in Frames
      /\ frame' = frame \/ (frame \notin {"captured"} /\ frame' \notin {"selected", "captured"})
  BY <1>1 DEF OnPreLoadGame, ScheduleTyped, Frames
<1>5. ~IsEnabled(h') /\ h'.enabled = ~h'.loading
  <2>1. h'.enabled \in BOOLEAN /\ h'.loading \in BOOLEAN
    BY <1>2 DEF Runtimes
  <2> QED
    BY <1>2, <2>1 DEF IsEnabled
<1>6. engine' \in Engines
  BY <1>1, <1>3 DEF ScheduleTyped
<1> QED
  BY <1>1, <1>2, <1>3, <1>4, <1>5, <1>6, FlagStep

\* Steps that leave the runtime as it is.
LEMMA IdleStep ==
  ASSUME HandInv, PlayerEquips \/ PlayerResizes \/ DropFenceSelection \/ NothingDeferred
  PROVE  HandInv'
<1>1. ~h.faulted /\ UNCHANGED <<h, fp, source, shown>>
  BY DEF PlayerEquips, PlayerResizes, DropFenceSelection, NothingDeferred, Happens
<1>2. h \in Runtimes /\ ScheduleTyped /\ engine \in Engines /\ h.enabled = ~h.loading
  BY <1>1, LiveFact DEF ScheduleTyped
<1>3. /\ engine' \in Engines /\ engine'.physical = engine.physical
      /\ engine'.content = engine.content
  <2>1. CASE PlayerEquips
    <3>1. PICK owner \in Owners : engine' = [engine EXCEPT !.equipped = owner]
      BY <2>1 DEF PlayerEquips
    <3> QED
      BY <1>2, <3>1 DEF Engines
  <2>2. CASE PlayerResizes
    BY <1>2, <2>2 DEF PlayerResizes, Engines
  <2>3. CASE DropFenceSelection \/ NothingDeferred
    BY <1>2, <2>3 DEF DropFenceSelection, NothingDeferred
  <2> QED
    BY <2>1, <2>2, <2>3
<1>4. /\ frame' \in Frames
      /\ frame' = frame \/ (frame \notin {"captured"} /\ frame' \notin {"selected", "captured"})
  BY <1>2 DEF PlayerEquips, PlayerResizes, DropFenceSelection, NothingDeferred, ScheduleTyped, Frames
<1> QED
  BY <1>1, <1>2, <1>3, <1>4, FlagStep

-----------------------------------------------------------------------------
(* The fence *)

LEMMA FenceFact ==
  ASSUME HandInv, FenceRuns
  PROVE  /\ ~h.faulted /\ FpTyped' /\ source' \in Nat /\ source' = source + 1
         /\ source' # 0 /\ source < source'
         /\ fp'.call = fp.call /\ fp'.active = fp.active /\ fp'.returned = fp.returned
         /\ fp'.suppressed = fp.suppressed /\ fp'.staged = fp.staged
         /\ fp.call = "inside" => fp'.fenced
         /\ fp.call = "none" => fp' = OutsideCall /\ fp = OutsideCall
         /\ fp.call # "returned" /\ h.store.active = None
         /\ IsEnabled(h) /\ h.held # NoReceipt => h.expiry # 0
         /\ UNCHANGED <<engine, shown>>
<1> DEFINE inside == fp.call = "inside"
<1>1. ~h.faulted /\ frame # "captured" /\ source' = source + 1 /\ UNCHANGED <<engine, shown>>
      /\ fp' = [fp EXCEPT !.fenced = inside]
      /\ (fp.call = "none" \/ (fp.call = "inside" /\ ~fp.fenced))
  BY DEF FenceRuns
<1>2. FpTyped /\ source \in Nat /\ AtFrame(h) /\ OrderingHold(h) /\ Call(h)
  BY <1>1, LiveFact DEF ScheduleTyped
<1>3. source' \in Nat /\ source' # 0 /\ source < source'
  BY <1>1, <1>2
<1>4. inside \in BOOLEAN /\ (fp.call = "inside" => inside = TRUE) /\ (fp.call = "none" => inside = FALSE)
  OBVIOUS
<1> HIDE DEF inside
<1>5. /\ FpTyped'
      /\ fp'.call = fp.call /\ fp'.active = fp.active /\ fp'.returned = fp.returned
      /\ fp'.suppressed = fp.suppressed /\ fp'.staged = fp.staged /\ fp'.fenced = inside
  BY <1>1, <1>2, <1>4 DEF FpTyped
<1>6. fp.call = "none" => fp' = OutsideCall /\ fp = OutsideCall
  <2> SUFFICES ASSUME fp.call = "none" PROVE fp' = OutsideCall /\ fp = OutsideCall
    OBVIOUS
  <2>1. fp = OutsideCall /\ fp' = [fp EXCEPT !.fenced = FALSE]
    BY <1>1, <1>2, <1>4 DEF Call
  <2>2. fp.fenced = FALSE
    BY <2>1 DEF OutsideCall
  <2>3. fp' = fp
    BY <1>2, <2>1, <2>2 DEF FpTyped
  <2> QED
    BY <2>1, <2>3
<1>7. h.store.active = None
  BY <1>1, <1>2 DEF AtFrame
<1>8. IsEnabled(h) /\ h.held # NoReceipt => h.expiry # 0
  BY <1>1, <1>2 DEF OrderingHold
<1> QED
  BY <1>1, <1>3, <1>4, <1>5, <1>6, <1>7, <1>8

\* A fence that evaluates nothing.
LEMMA PassedFence ==
  ASSUME HandInv, FenceRuns, frame' = "fenced", h' \in Runtimes,
         h'.store = h.store, h'.coordinator = h.coordinator, h'.targets = h.targets,
         h'.ready = h.ready, h'.pending = h.pending, h'.grant = h.grant,
         h'.current = h.current, h'.held = h.held, h'.expiry = h.expiry,
         h'.presented = h.presented, h'.slots = h.slots, h'.cursor = h.cursor,
         h'.load = h.load, h'.continuity = h.continuity,
         h'.faulted = h.faulted, h'.enabled = h.enabled, h'.loading = h.loading
  PROVE  HandInv'
<1>1. Good(h', engine'.physical, engine'.content)
  BY FenceFact, LiveFact, FlagsGood
<1>2. ScheduleTyped' /\ ShownFits' /\ ShownWas(h)'
  BY FenceFact, LiveFact DEF ScheduleTyped, Frames, ShownFits, ShownWas
<1>3. h'.enabled = ~h'.loading /\ ~h'.faulted
  BY FenceFact, LiveFact
<1>4. OrderingHold(h)' /\ Call(h)'
  BY FenceFact, LiveFact DEF OrderingHold, Call, IsEnabled
<1>5. AtFrame(h)'
  <2>1. h.store.source \in Nat /\ h.coordinator.lastSource \in Nat
    BY FenceFact, LiveFact DEF Stores, Coordinators
  <2>2. h.store.source <= source' /\ h.coordinator.lastSource <= source'
    BY <2>1, FenceFact, LiveFact DEF AtFrame
  <2> QED
    BY <2>2, FenceFact DEF AtFrame
<1> QED
  BY <1>1, <1>2, <1>3, <1>4, <1>5 DEF HandInv, Live

LEMMA FenceDeclinesStep == ASSUME HandInv, FenceDeclines PROVE HandInv'
<1>1. FenceRuns /\ frame' = "fenced" /\ h' = h
  BY DEF FenceDeclines
<1>2. h \in Runtimes
  BY <1>1, FenceFact, LiveFact
<1> QED
  BY <1>1, <1>2, PassedFence

LEMMA FenceResumesStep == ASSUME HandInv, FenceResumesInventory PROVE HandInv'
<1>1. FenceRuns /\ frame' = "fenced" /\ h' = [h EXCEPT !.resume = FALSE, !.resumeFence = source']
  BY DEF FenceResumesInventory
<1>2. h \in Runtimes /\ source' \in Nat
  BY <1>1, FenceFact, LiveFact
<1>3. /\ h' \in Runtimes
      /\ h'.store = h.store /\ h'.coordinator = h.coordinator /\ h'.targets = h.targets
      /\ h'.ready = h.ready /\ h'.pending = h.pending /\ h'.grant = h.grant
      /\ h'.current = h.current /\ h'.held = h.held /\ h'.expiry = h.expiry
      /\ h'.presented = h.presented /\ h'.slots = h.slots /\ h'.cursor = h.cursor
      /\ h'.load = h.load /\ h'.continuity = h.continuity
      /\ h'.faulted = h.faulted /\ h'.enabled = h.enabled /\ h'.loading = h.loading
  BY <1>1, <1>2 DEF Runtimes
<1> QED
  BY <1>1, <1>3, PassedFence

\* An equip event gives up the hold at most.
Woken(x, y) ==
  /\ y.enabled = x.enabled /\ y.faulted = x.faulted /\ y.loading = x.loading
  /\ y.coordinator.lastSource = x.coordinator.lastSource
  /\ y.store.source = x.store.source /\ y.store.active = x.store.active
  /\ y.current = x.current /\ y.presented = x.presented /\ y.ready = x.ready
  /\ \/ y.held = x.held /\ y.expiry = x.expiry
     \/ y.held = NoReceipt /\ y.expiry = 0

LEMMA WakeFact ==
  ASSUME NEW x, NEW content, Good(x, engine.physical, content),
         x.held # NoReceipt => Unbound(x.held.retired, engine.physical)
  PROVE  LET r == Wake(x) IN r.ok /\ Good(r.h, engine.physical, content) /\ Woken(x, r.h)
<1> DEFINE r == Wake(x)
<1>1. CASE ~x.equip
  <2>1. r = [ok |-> TRUE, h |-> x]
    BY <1>1 DEF Wake, Ok
  <2>2. Woken(x, x)
    BY DEF Woken
  <2> HIDE DEF r
  <2>3. r.ok /\ Good(r.h, engine.physical, content) /\ Woken(x, r.h)
    BY <2>1, <2>2
  <2> QED
    BY <2>3 DEF r
<1>2. CASE x.equip
  <2> DEFINE y == [x EXCEPT !.equip = FALSE]
  <2>1. r = ReleaseHeldPredecessor(y, engine.physical)
    BY <1>2 DEF Wake
  <2>2. x \in Runtimes
    BY GoodFlags
  <2>3. /\ y \in Runtimes /\ y.store = x.store /\ y.coordinator = x.coordinator
        /\ y.targets = x.targets /\ y.ready = x.ready /\ y.pending = x.pending
        /\ y.grant = x.grant /\ y.current = x.current /\ y.held = x.held /\ y.expiry = x.expiry
        /\ y.presented = x.presented /\ y.slots = x.slots /\ y.cursor = x.cursor
        /\ y.load = x.load /\ y.continuity = x.continuity /\ y.enabled = x.enabled
        /\ y.faulted = x.faulted /\ y.loading = x.loading
    BY <2>2 DEF Runtimes
  <2> HIDE DEF y, r
  <2>4. Good(y, engine.physical, content)
    BY <2>3, FlagsGood
  <2>5. /\ r.ok /\ Good(r.h, engine.physical, content) /\ Same(y, r.h)
        /\ r.h.held = NoReceipt /\ r.h.expiry = 0 /\ r.h.current = y.current
        /\ r.h.presented = y.presented
        /\ r.h.store.active = y.store.active /\ r.h.store.source = y.store.source
    BY <2>1, <2>3, <2>4, ReleaseHeldFact
  <2>6. Woken(x, r.h)
    BY <2>3, <2>5 DEF Woken, Same
  <2> QED
    BY <2>5, <2>6 DEF r
<1> QED
  BY <1>1, <1>2

\* y is the runtime once the fence of the source has an owner.
Selected(y, next) ==
  /\ y.enabled = h.enabled /\ ~y.faulted /\ y.loading = h.loading
  /\ y.coordinator.lastSource = h.coordinator.lastSource
  /\ y.current = None /\ y.pending = 0 /\ y.store.active = None
  /\ y.ready => y.store.source = next
  /\ ~y.ready => y.store.source = 0
  /\ y.held # NoReceipt /\ y.expiry = 0 =>
       fp.active /\ ~fp.returned /\ PublicationMatchesVisibleSurface(y.held.retired, fp.staged)
  /\ HeldFrom(h, y)

LEMMA SelectFact ==
  ASSUME HandInv, FenceRuns, ~Barred, NEW next \in Nat, source < next
  PROVE  LET d == EvaluateFenceOwner(next)
         IN d.ok /\ Good(d.h, engine.physical, engine.content) /\ Selected(d.h, next)
<1> DEFINE phys == engine.physical
           content == engine.content
           x == [h EXCEPT !.inventory = FALSE, !.resumeFence = 0]
           w == Wake(x)
           a == AdvanceStoreSource(w.h, next, phys)
           seen == IF h.equip /\ h.visible # engine.equipped THEN 0 ELSE h.visible
           y == [a.h EXCEPT !.visible = seen]
<1>1. /\ h \in Runtimes /\ ~h.faulted /\ Good(h, phys, content) /\ h.store.active = None
      /\ h.held # NoReceipt => Unbound(h.held.retired, phys)
      /\ h.store.source <= source /\ source \in Nat /\ h.store.source \in Nat
  BY FenceFact, LiveFact DEF AtFrame, Stores
<1>2. IsEnabled(h) /\ h.enabled /\ (h.held # NoReceipt => h.expiry # 0)
  BY FenceFact DEF Barred, IsEnabled
<1>3. /\ x \in Runtimes /\ x.store = h.store /\ x.coordinator = h.coordinator
      /\ x.targets = h.targets /\ x.ready = h.ready /\ x.pending = h.pending
      /\ x.grant = h.grant /\ x.current = h.current /\ x.held = h.held /\ x.expiry = h.expiry
      /\ x.presented = h.presented /\ x.slots = h.slots /\ x.cursor = h.cursor
      /\ x.load = h.load /\ x.continuity = h.continuity /\ x.enabled = h.enabled
      /\ x.faulted = h.faulted /\ x.loading = h.loading
  BY <1>1 DEF Runtimes
<1>4. EvaluateFenceOwner(next)
        = Then(Then(w, LAMBDA z : AdvanceStoreSource(z, next, phys)),
               LAMBDA z : Ok([z EXCEPT !.visible = seen]))
  BY DEF EvaluateFenceOwner
<1>5. seen \in Owners \cup {0}
  BY <1>1 DEF Runtimes
<1> HIDE DEF x, seen
<1>6. Good(x, phys, content)
  BY <1>1, <1>3, FlagsGood
<1>7. w.ok /\ Good(w.h, phys, content) /\ Woken(x, w.h)
  BY <1>1, <1>3, <1>6, WakeFact
<1>8. Then(w, LAMBDA z : AdvanceStoreSource(z, next, phys)) = a
  BY <1>7 DEF Then
<1> HIDE DEF w
<1>9. a.ok /\ Good(a.h, phys, content) /\ Advanced(w.h, a.h, next)
  <2>1. /\ w.h.store.active = None /\ w.h.enabled /\ ~w.h.faulted
        /\ w.h.store.source < next /\ (w.h.held # NoReceipt => w.h.expiry # 0)
    BY <1>1, <1>2, <1>3, <1>7 DEF Woken
  <2> QED
    BY <1>7, <2>1, AdvanceFact
<1>10. Then(a, LAMBDA z : Ok([z EXCEPT !.visible = seen])) = [ok |-> TRUE, h |-> y]
  BY <1>9 DEF Then, Ok
<1> HIDE DEF a
<1>11. a.h \in Runtimes
  BY <1>9, GoodFlags
<1>12. /\ y \in Runtimes /\ y.store = a.h.store /\ y.coordinator = a.h.coordinator
       /\ y.targets = a.h.targets /\ y.ready = a.h.ready /\ y.pending = a.h.pending
       /\ y.grant = a.h.grant /\ y.current = a.h.current /\ y.held = a.h.held
       /\ y.expiry = a.h.expiry /\ y.presented = a.h.presented /\ y.slots = a.h.slots
       /\ y.cursor = a.h.cursor /\ y.load = a.h.load /\ y.continuity = a.h.continuity
       /\ y.enabled = a.h.enabled /\ y.faulted = a.h.faulted /\ y.loading = a.h.loading
  BY <1>5, <1>11 DEF Runtimes
<1> HIDE DEF y
<1>13. Good(y, phys, content)
  BY <1>9, <1>12, FlagsGood
<1>14. HeldFrom(h, y)
  <2>1. HeldFrom(w.h, a.h)
    BY <1>9 DEF Advanced
  <2> QED
    BY <1>3, <1>7, <1>12, <2>1 DEF HeldFrom, Woken
<1>15. ~y.ready => y.store.source = 0
  BY <1>13 DEF Good, Blank, EmptyStore
<1>16. Selected(y, next)
  <2>1. /\ y.enabled = h.enabled /\ ~y.faulted /\ y.loading = h.loading
        /\ y.coordinator.lastSource = h.coordinator.lastSource
    BY <1>1, <1>3, <1>7, <1>9, <1>12 DEF Woken, Advanced, Same
  <2>2. /\ y.current = None /\ y.pending = 0 /\ y.store.active = None
        /\ y.ready => y.store.source = next
        /\ y.held # NoReceipt /\ y.expiry = 0 =>
             fp.active /\ ~fp.returned /\ PublicationMatchesVisibleSurface(y.held.retired, fp.staged)
    BY <1>9, <1>12 DEF Advanced, HeldPredecessorMatchesStaged
  <2> QED
    BY <1>14, <1>15, <2>1, <2>2 DEF Selected
<1> QED
  BY <1>4, <1>8, <1>10, <1>13, <1>16

LEMMA FenceSelectsStep == ASSUME HandInv, FenceSelects PROVE HandInv'
<1> DEFINE d == EvaluateFenceOwner(source')
           y == d.h
<1>1. FenceRuns /\ ~Barred
  BY DEF FenceSelects
<1>2. source' \in Nat /\ source < source'
  BY <1>1, FenceFact
<1>3. d.ok /\ Good(y, engine.physical, engine.content) /\ Selected(y, source')
  BY <1>1, <1>2, SelectFact
<1>4. \/ h' = y /\ frame' = "selected"
      \/ h' = [y EXCEPT !.visible = 0] /\ frame' = "fenced"
  BY <1>3 DEF FenceSelects
<1> HIDE DEF d, y
<1>5. y \in Runtimes
  BY <1>3, GoodFlags
<1>6. /\ h' \in Runtimes /\ h'.store = y.store /\ h'.coordinator = y.coordinator
      /\ h'.targets = y.targets /\ h'.ready = y.ready /\ h'.pending = y.pending
      /\ h'.grant = y.grant /\ h'.current = y.current /\ h'.held = y.held
      /\ h'.expiry = y.expiry /\ h'.presented = y.presented /\ h'.slots = y.slots
      /\ h'.cursor = y.cursor /\ h'.load = y.load /\ h'.continuity = y.continuity
      /\ h'.enabled = y.enabled /\ h'.faulted = y.faulted /\ h'.loading = y.loading
  BY <1>4, <1>5 DEF Runtimes
<1>7. Good(h', engine'.physical, engine'.content)
  BY <1>1, <1>3, <1>6, FenceFact, FlagsGood
<1>8. /\ h'.enabled = h.enabled /\ ~h'.faulted /\ h'.loading = h.loading
      /\ h'.coordinator.lastSource = h.coordinator.lastSource
      /\ h'.current = None /\ h'.pending = 0 /\ h'.store.active = None
      /\ h'.ready => h'.store.source = source'
      /\ ~h'.ready => h'.store.source = 0
      /\ h'.held # NoReceipt /\ h'.expiry = 0 =>
           fp.active /\ ~fp.returned /\ PublicationMatchesVisibleSurface(h'.held.retired, fp.staged)
      /\ HeldFrom(h, h')
  BY <1>3, <1>6 DEF Selected, HeldFrom
<1>9. ScheduleTyped' /\ ShownFits' /\ frame' # "captured"
  BY <1>1, <1>4, FenceFact, LiveFact DEF ScheduleTyped, Frames, ShownFits
<1>10. ShownWas(h)'
  BY <1>1, <1>8, FenceFact, LiveFact DEF ShownWas, HeldFrom
<1>11. h'.enabled = ~h'.loading
  BY <1>1, <1>8, FenceFact, LiveFact
<1>12. Call(h)'
  BY <1>1, <1>8, FenceFact, LiveFact DEF Call, IsEnabled
<1>13. OrderingHold(h)'
  <2>1. fp.active => fp.call = "inside"
    BY <1>1, FenceFact, LiveFact DEF ScheduleTyped, FpTyped, OutsideCall
  <2> QED
    BY <1>1, <1>8, <2>1, FenceFact DEF OrderingHold
<1>14. AtFrame(h)'
  <2>1. h.coordinator.lastSource \in Nat /\ h.coordinator.lastSource < source'
        /\ source' # 0 /\ source' \in Nat
    BY <1>1, FenceFact, LiveFact DEF AtFrame, Coordinators
  <2>2. h'.store.source <= source'
    BY <1>8, <2>1
  <2> QED
    BY <1>8, <1>9, <2>1, <2>2 DEF AtFrame
<1> QED
  BY <1>7, <1>8, <1>9, <1>10, <1>11, <1>12, <1>13, <1>14 DEF HandInv, Live

LEMMA RecreatedFact ==
  ASSUME engine \in Engines, NEW roles \in SUBSET Roles
  PROVE  /\ Recreated(roles) \in Engines
         /\ roles = {} => /\ Recreated(roles).physical = engine.physical
                          /\ Recreated(roles).content = engine.content
<1> DEFINE made == engine.made + Cardinality(roles)
           stale == engine.stale \ roles
           physical == [r \in Roles |-> IF r \notin roles THEN engine.physical[r]
                                        ELSE engine.made + Cardinality(roles \cap (0 .. r))]
           content == [r \in Roles |-> IF r \in roles THEN 0 ELSE engine.content[r]]
           e == [engine EXCEPT !.made = made, !.stale = stale,
                               !.physical = physical, !.content = content]
<1>1. \A S \in SUBSET Roles : Cardinality(S) \in Nat
  <2>1. IsFiniteSet(Roles)
    <3>1. Roles = ({} \cup {0}) \cup {1}
      BY DEF Roles
    <3> QED
      BY <3>1, FS_EmptySet, FS_AddElement
  <2> QED
    BY <2>1, FS_Subset, FS_CardinalityType
<1>2. engine.made \in Nat /\ engine.physical \in [Roles -> Nat] /\ engine.content \in [Roles -> Nat]
  BY DEF Engines
<1>3. made \in Nat
  BY <1>1, <1>2
<1>4. physical \in [Roles -> Nat]
  <2>1. \A r \in Roles : Cardinality(roles \cap (0 .. r)) \in Nat
    BY <1>1
  <2> QED
    BY <1>2, <2>1
<1>5. content \in [Roles -> Nat]
  BY <1>2
<1>6. stale \in SUBSET Roles
  BY DEF Engines
<1>7. roles = {} => physical = engine.physical /\ content = engine.content
  BY <1>2
<1>8. Recreated(roles) = e
  BY DEF Recreated, Engines
<1> HIDE DEF made, stale, physical, content
<1>9. e \in Engines /\ e.physical = physical /\ e.content = content
  BY <1>3, <1>4, <1>5, <1>6 DEF Engines
<1> QED
  BY <1>7, <1>8, <1>9

\* Without a current picture, the fence's entry and the deferred stage end so.
LEMMA EntryStep ==
  ASSUME HandInv, ~h.faulted, frame' \in {"fenced", "between"},
         UNCHANGED <<fp, source, shown>>, engine' \in Engines,
         Good(h', engine'.physical, engine'.content), ~h'.faulted,
         h'.enabled = h.enabled, h'.loading = h.loading,
         h'.coordinator.lastSource <= source, h'.store.source <= source,
         h'.store.active = None, h'.current = None,
         \/ h'.held = h.held /\ h'.expiry = h.expiry
         \/ h'.held = NoReceipt /\ h'.expiry = 0
  PROVE  HandInv'
<1>1. ScheduleTyped' /\ ShownFits' /\ ShownWas(h)'
  BY LiveFact DEF ScheduleTyped, FpTyped, Frames, ShownFits, ShownWas
<1>2. OrderingHold(h)' /\ AtFrame(h)' /\ Call(h)' /\ h'.enabled = ~h'.loading
  BY LiveFact DEF OrderingHold, AtFrame, Call, IsEnabled
<1> QED
  BY <1>1, <1>2 DEF HandInv, Live

\* What an entry finds.
LEMMA EntryFact ==
  ASSUME HandInv, ~h.faulted, frame = "selected"
  PROVE  /\ h.pending = 0 /\ h.current = None /\ h.store.active = None /\ source # 0
         /\ h.coordinator.lastSource < source /\ h.store.source <= source
         /\ h.coordinator.lastSource <= source /\ (h.ready => h.store.source = source)
  BY LiveFact DEF AtFrame

LEMMA AbandonStep == ASSUME HandInv, AbandonFenceSelection PROVE HandInv'
<1> DEFINE r == BurnUnusedOwnerGrant(h, Lease)
<1>1. ~h.faulted /\ frame = "selected" /\ frame' = "fenced" /\ h' = OrFailStop(r)
      /\ UNCHANGED <<fp, source, shown, engine>>
  BY DEF AbandonFenceSelection
<1>2. r = BurnUnusedOwnerGrant(h, h.cursor + 1)
  BY DEF Lease
<1> HIDE DEF r
<1>3. /\ r.ok /\ Good(r.h, engine.physical, engine.content) /\ Same(h, r.h)
      /\ r.h.held = h.held /\ r.h.expiry = h.expiry /\ r.h.current = h.current
      /\ r.h.store.active = None /\ r.h.store.source = h.store.source
  BY <1>1, <1>2, LiveFact, EntryFact, BurnFact
<1>4. h' = r.h
  BY <1>1, <1>3 DEF OrFailStop
<1>5. engine' \in Engines
  BY <1>1, LiveFact DEF ScheduleTyped
<1> QED
  BY <1>1, <1>3, <1>4, <1>5, EntryFact, EntryStep DEF Same

LEMMA HalfwayStep == ASSUME HandInv, ~ResizeWhileHeld, EnsureFailsHalfway PROVE HandInv'
<1> DEFINE r == BurnUnusedOwnerGrant(h, Lease)
           e == Recreated({0})
<1>1. ~h.faulted /\ frame = "selected" /\ frame' = "fenced" /\ h' = OrFailStop(r)
      /\ engine' = e /\ MayRecreate({0}) /\ UNCHANGED <<fp, source, shown>>
  BY DEF EnsureFailsHalfway
<1>2. r = BurnUnusedOwnerGrant(h, h.cursor + 1)
  BY DEF Lease
<1>3. e \in Engines
  BY <1>1, LiveFact, RecreatedFact DEF ScheduleTyped, Roles
<1>4. Bare(h)
  BY <1>1, EntryFact DEF MayRecreate, Bare
<1> HIDE DEF r, e
<1>5. Good(h, e.physical, e.content)
  BY <1>1, <1>4, LiveFact, BareGood
<1>6. /\ r.ok /\ Good(r.h, e.physical, e.content) /\ Same(h, r.h)
      /\ r.h.held = h.held /\ r.h.expiry = h.expiry /\ r.h.current = h.current
      /\ r.h.store.active = None /\ r.h.store.source = h.store.source
  BY <1>1, <1>2, <1>5, EntryFact, BurnFact
<1>7. h' = r.h
  BY <1>1, <1>6 DEF OrFailStop
<1> QED
  BY <1>1, <1>3, <1>6, <1>7, EntryFact, EntryStep DEF Same

LEMMA AdvancedAlready ==
  ASSUME NEW x, NEW t, x.ready, Ready(x.store), x.store.source = source
  PROVE  AdvanceStoreSource(x, source, t) = [ok |-> TRUE, h |-> x]
  BY DEF AdvanceStoreSource, Ok

\* y reserves the source for the hand, with the targets that exist now.
Reserved(y, physical, content) ==
  /\ Good(y, physical, content) /\ ~y.faulted
  /\ y.enabled = h.enabled /\ y.loading = h.loading
  /\ y.coordinator.lastSource = source /\ y.store.source = source
  /\ y.store.active = None /\ y.current = None
  /\ \/ y.held = h.held /\ y.expiry = h.expiry
     \/ y.held = NoReceipt /\ y.expiry = 0

LEMMA ReservedFact ==
  ASSUME HandInv, ~h.faulted, frame = "selected",
         NEW physical \in [Roles -> Nat], NEW content, NEW x,
         Good(x, physical, content), x.ready, x.targets = physical, x.pending = 0,
         x.current = None, x.store.active = None, x.store.source = source,
         x.coordinator.lastSource < source, ~x.faulted,
         x.enabled = h.enabled, x.loading = h.loading,
         \/ x.held = h.held /\ x.expiry = h.expiry
         \/ x.held = NoReceipt /\ x.expiry = 0
  PROVE  Reserved(Reserve(x), physical, content)
<1> DEFINE y == Reserve(x)
<1>1. source \in Nat /\ source # 0 /\ engine.equipped \in Owners
  BY LiveFact, EntryFact
<1>2. Good(x, x.targets, content)
  OBVIOUS
<1>3. /\ Good(y, x.targets, content) /\ y.current = None /\ y.store = x.store
      /\ y.held = x.held /\ y.expiry = x.expiry /\ y.coordinator.lastSource = source
      /\ y.enabled = x.enabled /\ y.faulted = x.faulted /\ y.loading = x.loading
  BY <1>1, <1>2, ReserveFact
<1> HIDE DEF y
<1>4. Reserved(y, physical, content)
  BY <1>3 DEF Reserved
<1> QED
  BY <1>4 DEF y

LEMMA RetargetReserves ==
  ASSUME HandInv, ~h.faulted, frame = "selected", h.ready,
         NEW physical \in [Roles -> Nat], NEW content, Good(h, physical, content),
         h.held # NoReceipt => Unbound(h.held.retired, physical)
  PROVE  Reserved(RetargetAndReserve(physical), physical, content)
<1> DEFINE r == ReleaseHeldPredecessor(h, physical)
           t == Retargeted(r.h, physical)
           z == t.h
<1>1. CanRetarget(h)
  BY EntryFact DEF CanRetarget, Good, Agrees
<1>2. /\ r.ok /\ Good(r.h, physical, content) /\ Same(h, r.h)
      /\ r.h.held = NoReceipt /\ r.h.current = h.current /\ r.h.pending = h.pending
      /\ r.h.store.active = h.store.active /\ r.h.store.source = h.store.source
  BY ReleaseHeldFact
<1>3. RetargetAndReserve(physical)
        = ReserveWith(Then(Then(r, LAMBDA x : Retargeted(x, physical)),
                           LAMBDA x : AdvanceStoreSource(x, source, physical)))
  BY <1>1, <1>2 DEF RetargetAndReserve
<1>4. Then(r, LAMBDA x : Retargeted(x, physical)) = t
  BY <1>2 DEF Then
<1> HIDE DEF r
<1>5. Bare(r.h) /\ r.h.ready /\ r.h.store.source = source
  BY <1>2, EntryFact DEF Bare, Same
<1>6. /\ t.ok /\ Good(z, physical, content) /\ Bare(z) /\ z.ready /\ z.expiry = 0
      /\ z.targets = physical /\ z.store.source = r.h.store.source
      /\ z.coordinator = r.h.coordinator /\ z.enabled = r.h.enabled
      /\ z.faulted = r.h.faulted /\ z.loading = r.h.loading
  BY <1>2, <1>5, RetargetedFact
<1>7. Then(t, LAMBDA x : AdvanceStoreSource(x, source, physical)) = AdvanceStoreSource(z, source, physical)
  BY <1>6 DEF Then
<1> HIDE DEF t, z
<1>8. Ready(z.store)
  BY <1>6 DEF Good, Agrees, Ready
<1>9. AdvanceStoreSource(z, source, physical) = [ok |-> TRUE, h |-> z]
  BY <1>5, <1>6, <1>8, AdvancedAlready
<1>10. RetargetAndReserve(physical) = Reserve(z)
  BY <1>3, <1>4, <1>7, <1>9 DEF ReserveWith
<1>11. /\ z.coordinator.lastSource < source /\ z.store.source = source
       /\ ~z.faulted /\ z.enabled = h.enabled /\ z.loading = h.loading
  BY <1>2, <1>5, <1>6, EntryFact DEF Same
<1>12. z.pending = 0 /\ z.current = None /\ z.store.active = None /\ z.held = NoReceipt
  BY <1>6 DEF Bare
<1> QED
  BY <1>6, <1>10, <1>11, <1>12, ReservedFact

LEMMA ReserveStep == ASSUME HandInv, ~ResizeWhileHeld, ReserveHandAtFence PROVE HandInv'
<1> DEFINE physical == engine'.physical
           content == engine'.content
<1>1. ~h.faulted /\ frame = "selected" /\ frame' = "fenced" /\ MayRecreate(engine.stale)
      /\ engine' = Recreated(engine.stale) /\ UNCHANGED <<fp, source, shown>>
  BY DEF ReserveHandAtFence
<1>2. engine \in Engines /\ engine.stale \in SUBSET Roles
  BY <1>1, LiveFact DEF ScheduleTyped, Engines
<1>3. /\ engine' \in Engines /\ physical \in [Roles -> Nat]
      /\ engine.stale = {} => physical = engine.physical /\ content = engine.content
  BY <1>1, <1>2, RecreatedFact DEF Engines
<1>4. engine.stale # {} => h.held = NoReceipt
  BY <1>1 DEF MayRecreate
<1>5. Good(h, physical, content)
  <2>1. CASE engine.stale = {}
    BY <1>1, <1>3, <2>1, LiveFact
  <2>2. CASE engine.stale # {}
    <3>1. Bare(h)
      BY <1>1, <1>4, <2>2, EntryFact DEF Bare
    <3> QED
      BY <1>1, <3>1, LiveFact, BareGood
  <2> QED
    BY <2>1, <2>2
<1>6. h.held # NoReceipt => Unbound(h.held.retired, physical)
  BY <1>1, <1>3, <1>4, LiveFact
<1>7. /\ h.pending = 0 /\ h.current = None /\ h.store.active = None /\ source # 0
      /\ h.coordinator.lastSource < source /\ h.store.source <= source /\ source \in Nat
      /\ h.coordinator.lastSource <= source /\ (h.ready => h.store.source = source)
  BY <1>1, EntryFact, LiveFact
<1>8. h' = IF ~IsEnabled(h) THEN h
           ELSE IF Suspended(h)
           THEN OrFailStop(Then(ReleaseHeldPredecessor(h, physical),
                                LAMBDA x : BurnUnusedOwnerGrant(x, Lease)))
           ELSE IF ~h.ready THEN InitializeAndReserve(physical)
           ELSE IF h.targets # physical THEN RetargetAndReserve(physical)
           ELSE ReserveWith(AdvanceStoreSource(h, source, physical))
  BY DEF ReserveHandAtFence
<1> HIDE DEF physical, content
<1>9. ASSUME Reserved(h', physical, content) PROVE HandInv'
  <2>1. source <= source
    BY <1>7
  <2>2. /\ Good(h', engine'.physical, engine'.content) /\ ~h'.faulted
        /\ h'.enabled = h.enabled /\ h'.loading = h.loading
        /\ h'.coordinator.lastSource <= source /\ h'.store.source <= source
        /\ h'.store.active = None /\ h'.current = None
        /\ \/ h'.held = h.held /\ h'.expiry = h.expiry
           \/ h'.held = NoReceipt /\ h'.expiry = 0
    BY <1>9, <2>1 DEF Reserved, physical, content
  <2> QED
    BY <1>1, <1>3, <2>2, EntryStep
<1>10. CASE ~IsEnabled(h)
  <2>1. h' = h
    BY <1>8, <1>10
  <2> QED
    BY <1>1, <1>3, <1>5, <1>7, <2>1, EntryStep DEF physical, content
<1>11. CASE IsEnabled(h) /\ Suspended(h)
  <2> DEFINE r == ReleaseHeldPredecessor(h, physical)
             b == BurnUnusedOwnerGrant(r.h, r.h.cursor + 1)
  <2>1. /\ r.ok /\ Good(r.h, physical, content) /\ Same(h, r.h)
        /\ r.h.held = NoReceipt /\ r.h.expiry = 0 /\ r.h.current = h.current
        /\ r.h.pending = h.pending /\ r.h.cursor = h.cursor
        /\ r.h.store.active = h.store.active /\ r.h.store.source = h.store.source
    BY <1>5, <1>6, ReleaseHeldFact
  <2>2. Then(r, LAMBDA x : BurnUnusedOwnerGrant(x, Lease)) = b
    BY <2>1 DEF Then, Lease
  <2>3. h' = OrFailStop(b)
    BY <1>8, <1>11, <2>2
  <2> HIDE DEF r
  <2>4. /\ b.ok /\ Good(b.h, physical, content) /\ Same(r.h, b.h)
        /\ b.h.held = r.h.held /\ b.h.expiry = r.h.expiry /\ b.h.current = r.h.current
        /\ b.h.store.active = None /\ b.h.store.source = r.h.store.source
    BY <1>7, <2>1, BurnFact
  <2> HIDE DEF b
  <2>5. h' = b.h
    BY <2>3, <2>4 DEF OrFailStop
  <2>6. /\ Good(h', physical, content) /\ ~h'.faulted
        /\ h'.enabled = h.enabled /\ h'.loading = h.loading
        /\ h'.coordinator.lastSource <= source /\ h'.store.source <= source
        /\ h'.store.active = None /\ h'.current = None
        /\ h'.held = NoReceipt /\ h'.expiry = 0
    BY <1>1, <1>7, <2>1, <2>4, <2>5 DEF Same
  <2> QED
    BY <1>1, <1>3, <2>6, EntryStep DEF physical, content
<1>12. CASE IsEnabled(h) /\ ~Suspended(h) /\ ~h.ready
  <2> DEFINE y == Initialized(h, physical, source)
  <2>1. h' = Reserve(y)
    BY <1>8, <1>12 DEF InitializeAndReserve, Initialized
  <2>2. /\ Good(y, physical, content) /\ Bare(y) /\ y.ready /\ y.expiry = 0
        /\ y.targets = physical /\ y.store.source = source /\ y.coordinator.lastSource = 0
        /\ y.enabled = h.enabled /\ y.faulted = h.faulted /\ y.loading = h.loading
    BY <1>3, <1>5, <1>7, <1>12, InitializeFact
  <2> HIDE DEF y
  <2>3. y.coordinator.lastSource < source
    BY <1>7, <2>2
  <2>4. y.pending = 0 /\ y.current = None /\ y.store.active = None /\ y.held = NoReceipt
    BY <2>2 DEF Bare
  <2>5. Reserved(Reserve(y), physical, content)
    BY <1>1, <1>3, <2>2, <2>3, <2>4, ReservedFact
  <2> QED
    BY <1>9, <2>1, <2>5
<1>13. CASE IsEnabled(h) /\ ~Suspended(h) /\ h.ready /\ h.targets # physical
  <2>1. h' = RetargetAndReserve(physical)
    BY <1>8, <1>13
  <2>2. Reserved(RetargetAndReserve(physical), physical, content)
    BY <1>1, <1>3, <1>5, <1>6, <1>13, RetargetReserves
  <2> QED
    BY <1>9, <2>1, <2>2
<1>14. CASE IsEnabled(h) /\ ~Suspended(h) /\ h.ready /\ h.targets = physical
  <2>1. Ready(h.store)
    BY <1>5, <1>14 DEF Good, Agrees, Ready
  <2>2. AdvanceStoreSource(h, source, physical) = [ok |-> TRUE, h |-> h]
    BY <1>7, <1>14, <2>1, AdvancedAlready
  <2>3. h' = Reserve(h)
    BY <1>8, <1>14, <2>2 DEF ReserveWith
  <2>4. Reserved(Reserve(h), physical, content)
    BY <1>1, <1>3, <1>5, <1>7, <1>14, ReservedFact
  <2> QED
    BY <1>9, <2>3, <2>4
<1> QED
  BY <1>10, <1>11, <1>12, <1>13, <1>14

-----------------------------------------------------------------------------
(* The deferred stage *)

LEMMA RejectStep == ASSUME HandInv, DeferredRejects PROVE HandInv'
<1> DEFINE phys == engine.physical
           content == engine.content
           c == Cancelled(h)
           b == BurnUnusedOwnerGrant(c, c.cursor + 1)
           r == ReleaseHeldPredecessor(b.h, phys)
<1>1. /\ ~h.faulted /\ frame = "fenced" /\ frame' = "between" /\ h.pending = source /\ source # 0
      /\ UNCHANGED <<fp, source, shown, engine>>
  BY DEF DeferredRejects, HasPendingHandReservation
<1>2. /\ Good(h, phys, content) /\ (h.held # NoReceipt => Unbound(h.held.retired, phys))
      /\ h.store.source <= source /\ h.coordinator.lastSource <= source
  BY <1>1, LiveFact DEF AtFrame
<1>3. /\ CanCancel(h.coordinator, h.pending) /\ h.grant = h.cursor + 1
      /\ h.current = None /\ h.store.active = None
      /\ Good(c, phys, content) /\ Same(h, c)
      /\ c.held = h.held /\ c.expiry = h.expiry /\ c.current = h.current
      /\ c.cursor = h.cursor /\ c.pending = 0 /\ c.store = h.store
  BY <1>1, <1>2, CancelledFact
<1>4. CancelPendingHandReservation(h) = OrFailStop(b)
  BY <1>3 DEF CancelPendingHandReservation, Cancelled
<1> HIDE DEF c
<1>5. /\ b.ok /\ Good(b.h, phys, content) /\ Same(c, b.h)
      /\ b.h.held = c.held /\ b.h.expiry = c.expiry /\ b.h.current = c.current
      /\ b.h.store.active = None /\ b.h.store.source = c.store.source
  BY <1>3, BurnFact
<1> HIDE DEF b
<1>6. CancelPendingHandReservation(h) = b.h
  BY <1>4, <1>5 DEF OrFailStop
<1>7. h' = IF Suspended(h) THEN OrFailStop(r) ELSE b.h
  BY <1>6 DEF DeferredRejects
<1>8. /\ r.ok /\ Good(r.h, phys, content) /\ Same(b.h, r.h)
      /\ r.h.held = NoReceipt /\ r.h.expiry = 0 /\ r.h.current = b.h.current
      /\ r.h.store.active = b.h.store.active /\ r.h.store.source = b.h.store.source
  BY <1>2, <1>3, <1>5, ReleaseHeldFact
<1> HIDE DEF r
<1>9. engine' \in Engines
  BY <1>1, LiveFact DEF ScheduleTyped
<1>10. CASE Suspended(h)
  <2>1. h' = r.h
    BY <1>7, <1>8, <1>10 DEF OrFailStop
  <2>2. /\ Good(h', phys, content) /\ ~h'.faulted /\ h'.enabled = h.enabled
        /\ h'.loading = h.loading /\ h'.coordinator.lastSource <= source
        /\ h'.store.source <= source /\ h'.store.active = None /\ h'.current = None
        /\ h'.held = NoReceipt /\ h'.expiry = 0
    BY <1>1, <1>2, <1>3, <1>5, <1>8, <2>1 DEF Same
  <2> QED
    BY <1>1, <1>9, <2>2, EntryStep
<1>11. CASE ~Suspended(h)
  <2>1. h' = b.h
    BY <1>7, <1>11
  <2>2. /\ Good(h', phys, content) /\ ~h'.faulted /\ h'.enabled = h.enabled
        /\ h'.loading = h.loading /\ h'.coordinator.lastSource <= source
        /\ h'.store.source <= source /\ h'.store.active = None /\ h'.current = None
        /\ h'.held = h.held /\ h'.expiry = h.expiry
    BY <1>1, <1>2, <1>3, <1>5, <2>1 DEF Same
  <2> QED
    BY <1>1, <1>9, <2>2, EntryStep
<1> QED
  BY <1>10, <1>11

LEMMA BeginStep == ASSUME HandInv, BeginPostWorldCapture PROVE HandInv'
<1> DEFINE begun == Begin(h.store, h.coordinator.owner)
           y == Ticketed(h, begun, NoReceipt)
           role == begun.active.role
           drawn == [engine.content EXCEPT ![role] = source]
<1>1. /\ ~h.faulted /\ frame = "fenced" /\ frame' = "captured" /\ h.pending = source /\ source # 0
      /\ FinalFirstPersonDeliveryPending /\ engine.equipped = h.coordinator.owner
      /\ UNCHANGED <<fp, source, shown>>
  BY DEF BeginPostWorldCapture, HasPendingHandReservation
<1>2. /\ Good(h, engine.physical, engine.content) /\ source \in Nat
      /\ h.coordinator.owner \in Owners /\ engine.content \in [Roles -> Nat] /\ engine \in Engines
  BY <1>1, LiveFact DEF ScheduleTyped
<1>3. /\ ~BeginFails(h.store) /\ h.store.current = None
      /\ Begun(h, begun, y) /\ Good(y, engine.physical, drawn)
  BY <1>1, <1>2, BeginFact
<1>4. h' = y /\ engine' = [engine EXCEPT !.content[role] = source]
  BY <1>3 DEF BeginPostWorldCapture
<1> HIDE DEF begun, y
<1>5. role \in Roles
  BY <1>3 DEF Begun
<1>6. drawn \in [Roles -> Nat]
  BY <1>2, <1>5
<1>7. engine' = [engine EXCEPT !.content = drawn]
  BY <1>2, <1>4 DEF Engines
<1> HIDE DEF drawn, role
<1>8. engine' \in Engines /\ engine'.physical = engine.physical /\ engine'.content = drawn
  BY <1>2, <1>6, <1>7 DEF Engines
<1>9. Good(h', engine'.physical, engine'.content)
  BY <1>3, <1>4, <1>8
<1>10. /\ h'.enabled = h.enabled /\ h'.loading = h.loading /\ ~h'.faulted
       /\ h'.coordinator.lastSource = h.coordinator.lastSource
       /\ h'.store.source = h.store.source /\ h'.store.active # None /\ h'.current = None
       /\ h'.held = h.held /\ h'.expiry = h.expiry /\ h'.slots = h.slots
  BY <1>1, <1>3, <1>4 DEF Begun, Same
<1>11. ScheduleTyped' /\ ShownFits' /\ ShownWas(h)'
  BY <1>1, <1>8, <1>10, LiveFact DEF ScheduleTyped, FpTyped, Frames, ShownFits, ShownWas
<1>12. OrderingHold(h)' /\ AtFrame(h)' /\ Call(h)' /\ h'.enabled = ~h'.loading
  BY <1>1, <1>10, LiveFact DEF OrderingHold, AtFrame, Call, IsEnabled
<1>13. FinalFirstPersonDeliveryPending'
  BY <1>1, <1>10 DEF FinalFirstPersonDeliveryPending, HeldPredecessorMatchesStaged
<1> QED
  BY <1>9, <1>10, <1>11, <1>12, <1>13 DEF HandInv, Live

LEMMA FailFact ==
  ASSUME NEW x
  PROVE  /\ FailStop(x).faulted /\ FailStop(x).current = None
         /\ FailStop(x).held = NoReceipt /\ FailStop(x).expiry = 0
  BY DEF FailStop, InitialRuntime

\* Only what the engine caused is a fault.
LEMMA FaultStep ==
  ASSUME HandInv, ~h.faulted, NEW x, h' = FailStop(x), native',
         FpTyped', frame' \in Frames, UNCHANGED <<source, engine, shown>>
  PROVE  HandInv'
<1>1. h'.faulted /\ Over(h)' /\ ShownWas(h)'
  BY FailFact DEF Over, ShownWas
<1>2. ScheduleTyped' /\ ShownFits'
  BY LiveFact DEF ScheduleTyped, ShownFits
<1> QED
  BY <1>1, <1>2 DEF HandInv

LEMMA FinalizeStep ==
  ASSUME HandInv, NEW fault \in BOOLEAN, FinalizeAborts(fault)
  PROVE  HandInv'
<1> DEFINE y == Aborted(h)
<1>1. /\ ~h.faulted /\ frame = "captured" /\ frame' = "between" /\ native' = fault
      /\ h' = (IF fault THEN FailStop(y) ELSE y) /\ UNCHANGED <<fp, source, engine, shown>>
  BY DEF FinalizeAborts
<1>2. h.store.active # None /\ Good(h, engine.physical, engine.content)
      /\ h.store.source <= source /\ h.coordinator.lastSource <= source
  BY <1>1, LiveFact DEF AtFrame
<1>3. Good(y, engine.physical, engine.content) /\ Closed(h, y) /\ y.current = None
  BY <1>2, AbortFact
<1>4. ScheduleTyped
  BY <1>1, LiveFact
<1> HIDE DEF y
<1>5. CASE fault
  <2>1. FpTyped' /\ frame' \in Frames
    BY <1>1, <1>4 DEF ScheduleTyped, FpTyped, Frames
  <2> QED
    BY <1>1, <1>5, <2>1, FaultStep
<1>6. CASE ~fault
  <2>1. /\ Good(h', engine'.physical, engine'.content) /\ ~h'.faulted /\ engine' \in Engines
        /\ h'.enabled = h.enabled /\ h'.loading = h.loading
        /\ h'.coordinator.lastSource <= source /\ h'.store.source <= source
        /\ h'.store.active = None /\ h'.current = None
        /\ h'.held = h.held /\ h'.expiry = h.expiry
    BY <1>1, <1>2, <1>3, <1>4, <1>6 DEF Closed, Same, ScheduleTyped
  <2> QED
    BY <1>1, <2>1, EntryStep
<1> QED
  BY <1>5, <1>6

LEMMA CompleteStep == ASSUME HandInv, CompletePostWorldCapture PROVE HandInv'
<1> DEFINE y == Published(h)
<1>1. /\ ~h.faulted /\ frame = "captured" /\ frame' = "between" /\ ~Suspended(h)
      /\ h' = (IF IsEnabled(h) THEN y ELSE FailStop(Aborted(h)))
      /\ UNCHANGED <<fp, source, engine, shown>>
  BY DEF CompletePostWorldCapture
<1>2. /\ h.store.active # None /\ Good(h, engine.physical, engine.content)
      /\ h.store.source <= source /\ h.coordinator.lastSource <= source
      /\ FinalFirstPersonDeliveryPending /\ h.enabled = ~h.loading
  BY <1>1, LiveFact DEF AtFrame
<1>3. h' = y
  BY <1>1, <1>2 DEF Suspended, IsEnabled
<1>4. Good(y, engine.physical, engine.content) /\ Closed(h, y) /\ y.current # None /\ y.presented = 0
  BY <1>2, PublishFact
<1> HIDE DEF y
<1>5. y.current.lease # 0
  BY <1>4 DEF Good, Agrees, Blank, Kept
<1>6. /\ h'.enabled = h.enabled /\ h'.loading = h.loading /\ ~h'.faulted
      /\ h'.coordinator.lastSource = h.coordinator.lastSource
      /\ h'.store.source = h.store.source /\ h'.store.active = None
      /\ h'.held = h.held /\ h'.expiry = h.expiry /\ h'.presented # h'.current.lease
  BY <1>1, <1>3, <1>4, <1>5 DEF Closed, Same
<1>7. ScheduleTyped' /\ ShownFits' /\ ShownWas(h)'
  BY <1>1, <1>6, LiveFact DEF ScheduleTyped, FpTyped, Frames, ShownFits, ShownWas
<1>8. OrderingHold(h)' /\ AtFrame(h)' /\ Call(h)' /\ h'.enabled = ~h'.loading
  BY <1>1, <1>6, LiveFact DEF OrderingHold, AtFrame, Call, IsEnabled
<1> QED
  BY <1>1, <1>3, <1>4, <1>6, <1>7, <1>8 DEF HandInv, Live

LEMMA LoadStep == ASSUME HandInv, OnGameLoaded PROVE HandInv'
<1> DEFINE x == IF frame = "captured" THEN Aborted(h) ELSE h
           r == ReadyToLoad(x)
           y == Reloaded(r.h)
<1>1. /\ ~h.faulted /\ fp.call = "none" /\ frame # "selected" /\ frame' = "idle"
      /\ h' = (IF r.ok THEN y ELSE FailStop(r.h)) /\ UNCHANGED <<fp, source, engine, shown>>
  BY DEF OnGameLoaded
<1>2. /\ Good(h, engine.physical, engine.content) /\ AtFrame(h)
      /\ h.store.source <= source /\ h.coordinator.lastSource <= source
  BY <1>1, LiveFact DEF AtFrame
<1>3. /\ Good(x, engine.physical, engine.content) /\ x.store.active = None
      /\ x.store.source = h.store.source /\ x.faulted = h.faulted
      /\ x.coordinator.lastSource = h.coordinator.lastSource
  <2>1. CASE frame = "captured"
    <3>1. h.store.active # None
      BY <1>2, <2>1 DEF AtFrame
    <3>2. Good(Aborted(h), engine.physical, engine.content) /\ Closed(h, Aborted(h))
      BY <1>2, <3>1, AbortFact
    <3> QED
      BY <2>1, <3>2 DEF Closed, Same
  <2>2. CASE frame # "captured"
    BY <1>2, <2>2 DEF AtFrame
  <2> QED
    BY <2>1, <2>2
<1> HIDE DEF x
<1>4. /\ r.ok /\ Good(y, engine.physical, engine.content) /\ Bare(y) /\ y.expiry = 0
      /\ y.enabled /\ ~y.loading /\ y.faulted = x.faulted
      /\ y.store.source = x.store.source
      /\ y.coordinator.lastSource = x.coordinator.lastSource
  BY <1>3, LoadFact
<1> HIDE DEF r, y
<1>5. h' = y
  BY <1>1, <1>4
<1>6. h'.enabled = ~h'.loading
  <2>1. h' \in Runtimes
    BY <1>4, <1>5, GoodFlags
  <2>2. h'.enabled \in BOOLEAN /\ h'.loading \in BOOLEAN
    BY <2>1 DEF Runtimes
  <2> QED
    BY <1>4, <1>5, <2>2
<1>7. ScheduleTyped' /\ ShownFits' /\ ShownWas(h)'
  BY <1>1, <1>4, <1>5, LiveFact DEF ScheduleTyped, FpTyped, Frames, ShownFits, ShownWas, Bare
<1>8. AtFrame(h)'
  <2>1. h'.store.active = None
    BY <1>4, <1>5 DEF Bare
  <2> QED
    BY <1>1, <1>2, <1>3, <1>4, <1>5, <2>1 DEF AtFrame
<1>9. OrderingHold(h)'
  BY <1>4, <1>5 DEF OrderingHold, Bare
<1>10. Call(h)'
  BY <1>1, LiveFact DEF Call
<1> QED
  BY <1>1, <1>3, <1>4, <1>5, <1>6, <1>7, <1>8, <1>9, <1>10 DEF HandInv, Live

-----------------------------------------------------------------------------
(* First-person calls *)

\* What a first-person step must establish besides the runtime's own part.
LEMMA CallStep ==
  ASSUME HandInv, ~h.faulted, frame \notin {"selected", "captured"},
         UNCHANGED <<frame, source, engine>>, Good(h', engine.physical, engine.content),
         ~h'.faulted, h'.enabled = h.enabled, h'.loading = h.loading,
         h'.store.source = h.store.source, h'.store.active = None,
         h'.coordinator.lastSource = h.coordinator.lastSource,
         FpTyped', shown' \in [picture : Pics, at : Nat, owner : Owners \cup {0}],
         ShownFits', ShownWas(h)', OrderingHold(h)', Call(h)'
  PROVE  HandInv'
<1>1. ScheduleTyped'
  BY LiveFact DEF ScheduleTyped
<1>2. AtFrame(h)' /\ h'.enabled = ~h'.loading
  BY LiveFact DEF AtFrame
<1> QED
  BY <1>1, <1>2 DEF HandInv, Live

\* The same, with the hold given up.
LEMMA ReleaseStep ==
  ASSUME HandInv, ~h.faulted, frame \notin {"selected", "captured"},
         UNCHANGED <<frame, source, engine, shown>>,
         h' = OrFailStop(ReleaseHeldPredecessor(h, engine.physical)),
         FpTyped', \A x : IsEnabled(x) = IsEnabled(h) => Call(x)'
  PROVE  HandInv'
<1> DEFINE r == ReleaseHeldPredecessor(h, engine.physical)
<1>1. /\ r.ok /\ Good(r.h, engine.physical, engine.content) /\ Same(h, r.h)
      /\ r.h.held = NoReceipt /\ r.h.expiry = 0 /\ r.h.current = h.current
      /\ r.h.presented = h.presented
      /\ r.h.store.active = h.store.active /\ r.h.store.source = h.store.source
  BY LiveFact, ReleaseHeldFact
<1>2. h' = r.h
  BY <1>1 DEF OrFailStop
<1> HIDE DEF r
<1>3. h.store.active = None
  BY LiveFact DEF AtFrame
<1>4. /\ Good(h', engine.physical, engine.content) /\ ~h'.faulted
      /\ h'.enabled = h.enabled /\ h'.loading = h.loading
      /\ h'.store.source = h.store.source /\ h'.store.active = None
      /\ h'.coordinator.lastSource = h.coordinator.lastSource
      /\ h'.held = NoReceipt /\ h'.expiry = 0 /\ h'.current = h.current
      /\ h'.presented = h.presented
  BY <1>1, <1>2, <1>3 DEF Same
<1>5. shown' \in [picture : Pics, at : Nat, owner : Owners \cup {0}] /\ ShownFits' /\ ShownWas(h)'
  BY <1>4, LiveFact DEF ScheduleTyped, ShownFits, ShownWas
<1>6. IsEnabled(h') = IsEnabled(h)
  BY <1>4 DEF IsEnabled
<1>7. Call(h)'
  BY <1>6 DEF Call
<1>8. OrderingHold(h)'
  BY <1>4 DEF OrderingHold
<1> QED
  BY <1>4, <1>5, <1>7, <1>8, CallStep

LEMMA EnterStep == ASSUME HandInv, OnFirstPersonEnter PROVE HandInv'
<1>1. /\ ~h.faulted /\ frame \notin {"selected", "captured"} /\ fp.call = "none"
      /\ UNCHANGED <<frame, source, engine, shown>>
  BY DEF OnFirstPersonEnter, Drawing
<1>2. /\ ScheduleTyped /\ Good(h, engine.physical, engine.content) /\ AtFrame(h)
      /\ OrderingHold(h) /\ ShownFits /\ ShownWas(h) /\ source \in Nat
  BY <1>1, LiveFact
<1> DEFINE entry == IF frame = "idle" THEN 0 ELSE source
<1>3. entry \in Nat
  BY <1>2
<1>4. \/ ~IsEnabled(h) /\ fp' = [OutsideCall EXCEPT !.call = "inside"] /\ h' = h
      \/ /\ IsEnabled(h) /\ Suspended(h)
         /\ h' = OrFailStop(ReleaseHeldPredecessor(h, engine.physical))
         /\ fp' = [OutsideCall EXCEPT !.call = "inside", !.suppressed = TRUE]
      \/ /\ IsEnabled(h) /\ ~Suspended(h) /\ h' = h
         /\ fp' = [OutsideCall EXCEPT !.call = "inside", !.active = TRUE, !.entry = entry]
  BY DEF OnFirstPersonEnter
<1> HIDE DEF entry
<1>5. FpTyped' /\ fp'.call = "inside" /\ ~fp'.returned
      /\ (fp'.active \/ fp'.suppressed \/ (~IsEnabled(h) /\ h' = h))
  <2> DEFINE Calls == [call : {"none", "inside", "returned"}, active : BOOLEAN,
                       returned : BOOLEAN, suppressed : BOOLEAN, counted : BOOLEAN,
                       staged : Surface, entry : Nat, fenced : BOOLEAN]
  <2>1. OutsideCall \in Calls /\ OutsideCall.returned = FALSE
    BY DEF OutsideCall, Surface, NoSurface
  <2>2. fp' \in Calls /\ fp'.call = "inside" /\ fp'.returned = FALSE
    <3>1. CASE fp' = [OutsideCall EXCEPT !.call = "inside"]
      BY <2>1, <3>1
    <3>2. CASE fp' = [OutsideCall EXCEPT !.call = "inside", !.suppressed = TRUE]
      BY <2>1, <3>2
    <3>3. CASE fp' = [OutsideCall EXCEPT !.call = "inside", !.active = TRUE, !.entry = entry]
      BY <1>3, <2>1, <3>3
    <3> QED
      BY <1>4, <3>1, <3>2, <3>3
  <2>3. fp'.active \/ fp'.suppressed \/ (~IsEnabled(h) /\ h' = h)
    BY <1>4, <2>1
  <2> QED
    BY <2>2, <2>3 DEF FpTyped
<1>6. CASE h' = h
  <2>1. IsEnabled(h) /\ h.held # NoReceipt => h.expiry # 0
    BY <1>1, <1>2 DEF OrderingHold
  <2>2. OrderingHold(h)' /\ Call(h)'
    BY <1>5, <1>6, <2>1 DEF OrderingHold, Call
  <2>3. ShownFits' /\ ShownWas(h)' /\ shown' \in [picture : Pics, at : Nat, owner : Owners \cup {0}]
    BY <1>1, <1>2, <1>6 DEF ShownFits, ShownWas, ScheduleTyped
  <2>4. h.store.active = None
    BY <1>1, <1>2 DEF AtFrame
  <2> QED
    BY <1>1, <1>2, <1>5, <1>6, <2>2, <2>3, <2>4, CallStep
<1>7. CASE h' # h
  <2>1. h' = OrFailStop(ReleaseHeldPredecessor(h, engine.physical))
        /\ (fp'.active \/ fp'.suppressed)
    BY <1>4, <1>5, <1>7
  <2>2. \A x : IsEnabled(x) = IsEnabled(h) => Call(x)'
    BY <1>5, <2>1 DEF Call
  <2> QED
    BY <1>1, <1>5, <2>1, <2>2, ReleaseStep
<1> QED
  BY <1>6, <1>7

LEMMA DrawStep == ASSUME HandInv, OnGenericDrawReturnedNormally PROVE HandInv'
<1>1. /\ ~h.faulted /\ frame \notin {"selected", "captured"} /\ fp.call = "inside"
      /\ IsEnabled(h) /\ fp.active /\ ~fp.fenced
      /\ UNCHANGED <<h, frame, source, engine, shown>>
  BY DEF OnGenericDrawReturnedNormally, Drawing
<1>2. PICK surface \in {fp.staged, [source |-> source, owner |-> engine.equipped]} :
        fp' = [fp EXCEPT !.counted = TRUE, !.staged = surface]
  BY DEF OnGenericDrawReturnedNormally
<1>3. /\ ScheduleTyped /\ Good(h, engine.physical, engine.content) /\ AtFrame(h)
      /\ OrderingHold(h) /\ Call(h) /\ ShownFits /\ ShownWas(h)
      /\ source \in Nat /\ engine.equipped \in Owners
  BY <1>1, LiveFact
<1>4. surface \in Surface
  BY <1>2, <1>3 DEF ScheduleTyped, FpTyped, Surface
<1>5. /\ FpTyped' /\ fp'.call = fp.call /\ fp'.active = fp.active /\ fp'.returned = fp.returned
      /\ fp'.suppressed = fp.suppressed
  BY <1>2, <1>3, <1>4 DEF ScheduleTyped, FpTyped
<1>6. OrderingHold(h)' /\ Call(h)'
  BY <1>1, <1>3, <1>5 DEF OrderingHold, Call
<1>7. ShownFits' /\ ShownWas(h)' /\ shown' \in [picture : Pics, at : Nat, owner : Owners \cup {0}]
  BY <1>1, <1>3 DEF ShownFits, ShownWas, ScheduleTyped
<1>8. h.store.active = None
  BY <1>1, <1>3 DEF AtFrame
<1> QED
  BY <1>1, <1>3, <1>5, <1>6, <1>7, <1>8, CallStep

\* What is drawn fits the surface it is drawn on.
LEMMA DrawnFact ==
  ASSUME HandInv, ~h.faulted, NEW surface \in Surface, NEW drew, drew # None,
         drew = DeliveryPublication(surface)
  PROVE  /\ drew \in Pics /\ drew \in {h.current, h.held.retired}
         /\ h.held = NoReceipt => drew = h.current
         /\ surface.owner = drew.owner
         /\ surface.source - drew.source \in 0 .. MaxMiss
<1>1. h \in Runtimes /\ h.current \in Pics /\ h.held.retired \in Pics /\ h.expiry \in Nat
  BY LiveFact DEF Runtimes, Receipts
<1>2. surface.source \in Nat /\ MaxMiss \in Nat
  BY HandConstants DEF Surface
<1>3. \/ drew = h.current /\ PublicationMatchesVisibleSurface(drew, surface)
      \/ drew = h.held.retired /\ PublicationMatchesVisibleSurface(drew, surface)
      \/ drew = h.held.retired /\ CleanMissContinuityMatches(h, surface)
  BY DEF DeliveryPublication, DeliveryPublicationForSurface, ZeroCallbackDeliveryPublication
<1>4. drew \in Pics /\ drew \in {h.current, h.held.retired} /\ drew.source \in Nat
  BY <1>1, <1>3 DEF Pics
<1>5. h.held = NoReceipt => drew = h.current
  BY <1>3, NoneFact DEF CleanMissContinuityMatches, CleanMissContinuityHoldValid,
                        HeldSourceAdvancedPredecessorValid
<1>6. CASE PublicationMatchesVisibleSurface(drew, surface)
  <2>1. surface.source = drew.source /\ surface.owner = drew.owner
    BY <1>6 DEF PublicationMatchesVisibleSurface
  <2> QED
    BY <1>2, <1>4, <1>5, <2>1
<1>7. CASE drew = h.held.retired /\ CleanMissContinuityMatches(h, surface)
  <2>1. /\ surface.source = h.expiry /\ surface.owner = drew.owner
        /\ h.expiry > drew.source /\ h.expiry - drew.source <= MaxMiss
    BY <1>7 DEF CleanMissContinuityMatches, CleanMissContinuityHoldValid
  <2> QED
    BY <1>1, <1>2, <1>4, <1>5, <2>1
<1> QED
  BY <1>3, <1>6, <1>7

LEMMA PresentStep ==
  ASSUME HandInv, ~h.faulted, frame \notin {"selected", "captured"}, fp.call = "inside",
         IsEnabled(h), UNCHANGED <<frame, source, engine>>,
         NEW surface \in Surfaces, NEW drew \in {None, DeliveryPublication(surface)},
         NEW replayed, Presents(surface, drew, replayed)
  PROVE  HandInv'
<1> DEFINE a == ResolveHeld(h, surface, drew, replayed)
           b == ResolveCurrent(a.h, surface, drew)
<1>1. /\ ScheduleTyped /\ Good(h, engine.physical, engine.content) /\ AtFrame(h) /\ FpTyped
      /\ OrderingHold(h) /\ ShownFits /\ ShownWas(h) /\ source \in Nat
      /\ engine.equipped \in Owners /\ h \in Runtimes
  BY LiveFact DEF ScheduleTyped
<1>2. h.store.active = None /\ h.enabled /\ ~h.faulted
  BY <1>1 DEF AtFrame, IsEnabled
<1>3. surface \in Surface
  BY <1>1 DEF Surfaces, Surface, FpTyped
<1>4. h.held # NoReceipt => h.held.retired # None /\ h.held.retired.source # 0
                            /\ (h.current # None => h.presented = 0)
  BY <1>1 DEF Good, Agrees, Blank, Kept
<1>5. h.held # NoReceipt /\ h.expiry = 0 =>
        PublicationMatchesVisibleSurface(h.held.retired, surface)
  BY <1>1, <1>4 DEF OrderingHold, Surfaces, PublicationMatchesVisibleSurface, NoSurface
<1>6. a.ok /\ Good(a.h, engine.physical, engine.content) /\ HoldResolved(h, drew, a.h)
  BY <1>1, <1>2, <1>5, ResolveHeldFact
<1>7. Then(a, LAMBDA x : ResolveCurrent(x, surface, drew)) = b
  BY <1>6 DEF Then
<1>8. /\ h' = OrFailStop(b)
      /\ shown' = (IF drew = None THEN shown
                   ELSE [picture |-> drew, at |-> surface.source, owner |-> surface.owner])
      /\ fp' = [fp EXCEPT !.call = "returned", !.returned = TRUE]
  BY <1>7 DEF Presents
<1> HIDE DEF a
<1>9. b.ok /\ Good(b.h, engine.physical, engine.content) /\ CurrentResolved(a.h, drew, b.h)
  <2>1. a.h.store.active = None /\ (a.h.held # NoReceipt => a.h.current = None)
    BY <1>6 DEF HoldResolved, Quiet
  <2> QED
    BY <1>6, <2>1, ResolveCurrentFact
<1>10. h' = b.h
  BY <1>8, <1>9 DEF OrFailStop
<1> HIDE DEF b
<1>11. /\ Good(h', engine.physical, engine.content) /\ ~h'.faulted
       /\ h'.enabled = h.enabled /\ h'.loading = h.loading
       /\ h'.store.source = h.store.source /\ h'.store.active = None
       /\ h'.coordinator.lastSource = h.coordinator.lastSource
  BY <1>2, <1>6, <1>9, <1>10 DEF CurrentResolved, HoldResolved, Quiet, Same
\* The hold that is left is shown, on this surface or before.
<1>12. /\ h'.held = NoReceipt => h'.expiry = 0
       /\ h'.held # NoReceipt => /\ h'.held = h.held /\ h'.expiry # 0 /\ h.current = None
                                 /\ h.expiry = 0 => drew = h.held.retired
       /\ h'.current # None => /\ h'.current = h.current
                               /\ h'.presented = h.presented \/ drew = h.current
  BY <1>6, <1>9, <1>10 DEF CurrentResolved, HoldResolved
<1>13. drew # None => /\ drew \in Pics /\ drew \in {h.current, h.held.retired}
                      /\ h.held = NoReceipt => drew = h.current
                      /\ surface.owner = drew.owner
                      /\ surface.source - drew.source \in 0 .. MaxMiss
  BY <1>3, DrawnFact
<1>14. drew # None => shown'.picture = drew /\ shown'.at = surface.source /\ shown'.owner = surface.owner
  BY <1>8
<1>15. drew = None => shown' = shown
  BY <1>8
<1>16. shown' \in [picture : Pics, at : Nat, owner : Owners \cup {0}]
  BY <1>1, <1>3, <1>8, <1>13 DEF ScheduleTyped, Surface
<1>17. ShownFits'
  BY <1>1, <1>13, <1>14, <1>15 DEF ShownFits
<1>18. h'.expiry # 0 => h'.held.retired = shown'.picture
  <2> SUFFICES ASSUME h'.expiry # 0 PROVE h.held.retired = shown'.picture
    BY <1>12
  <2>1. /\ h'.held # NoReceipt /\ h.held # NoReceipt /\ h.current = None /\ h.held.retired # None
        /\ h.expiry = 0 => drew = h.held.retired
    BY <1>4, <1>12
  <2>2. CASE drew # None
    BY <1>13, <1>14, <2>1, <2>2
  <2>3. CASE drew = None
    BY <1>1, <1>15, <2>1, <2>3 DEF ShownWas
  <2> QED
    BY <2>2, <2>3
<1>19. h'.current # None /\ h'.presented = h'.current.lease => shown'.picture = h'.current
  <2> SUFFICES ASSUME h'.current # None, h'.presented = h'.current.lease
               PROVE  shown'.picture = h.current
    BY <1>12
  <2>1. h'.current = h.current /\ h.current # None /\ h.current.lease # 0
    BY <1>1, <1>12 DEF Good, Agrees, Blank, Kept
  <2>2. CASE drew = h.current
    BY <1>14, <2>1, <2>2
  <2>3. CASE drew # h.current
    <3>1. h.presented = h.current.lease
      BY <1>12, <2>1, <2>3
    <3>2. h.held = NoReceipt
      BY <1>4, <2>1, <3>1
    <3>3. drew = None
      BY <1>13, <2>3, <3>2
    <3> QED
      BY <1>1, <1>15, <2>1, <3>1, <3>3 DEF ShownWas
  <2> QED
    BY <2>2, <2>3
<1>20. ShownWas(h)'
  BY <1>18, <1>19 DEF ShownWas
<1>21. OrderingHold(h)'
  BY <1>12 DEF OrderingHold
<1>22. FpTyped' /\ fp'.call = "returned" /\ fp'.returned
  BY <1>1, <1>8 DEF FpTyped
<1>23. Call(h)'
  BY <1>22 DEF Call
<1> QED
  BY <1>11, <1>16, <1>17, <1>20, <1>21, <1>22, <1>23, CallStep

LEMMA ReturnStep == ASSUME HandInv, OnFirstPersonReturnedNormally PROVE HandInv'
<1>1. /\ ~h.faulted /\ frame \notin {"selected", "captured"} /\ fp.call = "inside"
      /\ UNCHANGED <<frame, source, engine>>
  BY DEF OnFirstPersonReturnedNormally, Drawing
<1>2. /\ ScheduleTyped /\ FpTyped /\ Good(h, engine.physical, engine.content) /\ AtFrame(h)
      /\ OrderingHold(h) /\ Call(h) /\ ShownFits /\ ShownWas(h)
  BY <1>1, LiveFact DEF ScheduleTyped
<1>3. CASE ~IsEnabled(h)
  <2>1. fp' = [fp EXCEPT !.call = "returned"] /\ h' = h /\ shown' = shown
    BY <1>3 DEF OnFirstPersonReturnedNormally
  <2>2. FpTyped' /\ fp'.call = "returned"
    BY <1>2, <2>1 DEF FpTyped
  <2>3. OrderingHold(h)' /\ Call(h)'
    BY <1>3, <2>1, <2>2 DEF OrderingHold, Call
  <2>4. ShownFits' /\ ShownWas(h)' /\ shown' \in [picture : Pics, at : Nat, owner : Owners \cup {0}]
    BY <1>2, <2>1 DEF ShownFits, ShownWas, ScheduleTyped
  <2>5. h.store.active = None
    BY <1>1, <1>2 DEF AtFrame
  <2> QED
    BY <1>1, <1>2, <2>1, <2>2, <2>3, <2>4, <2>5, CallStep
<1>4. CASE IsEnabled(h) /\ (fp.suppressed \/ Suspended(h))
  <2>1. /\ h' = OrFailStop(ReleaseHeldPredecessor(h, engine.physical)) /\ shown' = shown
        /\ fp' = [fp EXCEPT !.call = "returned", !.staged = NoSurface, !.returned = TRUE]
    BY <1>4 DEF OnFirstPersonReturnedNormally
  <2>2. NoSurface \in Surface
    BY DEF NoSurface, Surface
  <2>3. FpTyped' /\ fp'.call = "returned" /\ fp'.returned
    BY <1>2, <2>1, <2>2 DEF FpTyped
  <2>4. \A x : IsEnabled(x) = IsEnabled(h) => Call(x)'
    BY <2>3 DEF Call
  <2> QED
    BY <1>1, <2>1, <2>3, <2>4, ReleaseStep
<1>5. CASE IsEnabled(h) /\ ~fp.suppressed /\ ~Suspended(h)
  <2>1. fp.active
    BY <1>1, <1>2, <1>5 DEF Call
  <2>2. PICK surface \in Surfaces :
          \E drew \in {None, DeliveryPublication(surface)} :
          \E replayed \in {FALSE, drew = None /\ CanReplayHeld} :
            Presents(surface, drew, replayed)
    BY <1>5, <2>1 DEF OnFirstPersonReturnedNormally
  <2>3. PICK drew \in {None, DeliveryPublication(surface)} :
          \E replayed \in {FALSE, drew = None /\ CanReplayHeld} :
            Presents(surface, drew, replayed)
    BY <2>2
  <2>4. PICK replayed \in {FALSE, drew = None /\ CanReplayHeld} : Presents(surface, drew, replayed)
    BY <2>3
  <2> QED
    BY <1>1, <1>5, <2>4, PresentStep
<1> QED
  BY <1>3, <1>4, <1>5

LEMMA FinallyStep == ASSUME HandInv, OnFirstPersonFinally PROVE HandInv'
<1> DEFINE abnormal == fp.active /\ ~fp.returned /\ IsEnabled(h) /\ ~Suspended(h)
<1>1. /\ ~h.faulted /\ frame \notin {"selected", "captured"} /\ fp.call \in {"inside", "returned"}
      /\ UNCHANGED <<frame, source, engine, shown>> /\ fp' = OutsideCall
  BY DEF OnFirstPersonFinally, Drawing
<1>2. /\ h' = (IF abnormal THEN FailStop(h)
               ELSE IF IsEnabled(h) /\ Suspended(h)
               THEN OrFailStop(ReleaseHeldPredecessor(h, engine.physical))
               ELSE h)
      /\ native' = (abnormal /\ fp.call = "inside")
  BY DEF OnFirstPersonFinally
<1>3. /\ ScheduleTyped /\ Good(h, engine.physical, engine.content) /\ AtFrame(h)
      /\ OrderingHold(h) /\ Call(h) /\ ShownFits /\ ShownWas(h)
  BY <1>1, LiveFact
<1>4. FpTyped' /\ fp'.call = "none" /\ \A x : Call(x)'
  BY <1>1 DEF FpTyped, OutsideCall, Surface, NoSurface, Call
<1>5. CASE abnormal
  <2>1. fp.call = "inside"
    BY <1>1, <1>3, <1>5 DEF Call
  <2>2. h' = FailStop(h) /\ native'
    BY <1>2, <1>5, <2>1
  <2>3. frame' \in Frames
    BY <1>1, <1>3 DEF ScheduleTyped
  <2> QED
    BY <1>1, <1>4, <2>2, <2>3, FaultStep
<1>6. CASE ~abnormal /\ IsEnabled(h) /\ Suspended(h)
  <2>1. h' = OrFailStop(ReleaseHeldPredecessor(h, engine.physical))
    BY <1>2, <1>6
  <2> QED
    BY <1>1, <1>4, <2>1, ReleaseStep
<1>7. CASE ~abnormal /\ ~(IsEnabled(h) /\ Suspended(h))
  <2>1. h' = h
    BY <1>2, <1>7
  <2>2. OrderingHold(h)'
    BY <1>3, <1>7, <2>1 DEF OrderingHold
  <2>3. ShownFits' /\ ShownWas(h)' /\ shown' \in [picture : Pics, at : Nat, owner : Owners \cup {0}]
    BY <1>1, <1>3, <2>1 DEF ShownFits, ShownWas, ScheduleTyped
  <2>4. h.store.active = None
    BY <1>1, <1>3 DEF AtFrame
  <2>5. Call(h)'
    BY <1>4, <2>1 DEF Call
  <2> QED
    BY <1>1, <1>3, <1>4, <2>1, <2>2, <2>3, <2>4, <2>5, CallStep
<1> QED
  BY <1>5, <1>6, <1>7

-----------------------------------------------------------------------------
(* The theorems *)

LEMMA HandInvNext ==
  ASSUME HandInv, ~ResizeWhileHeld, [Next]_vars
  PROVE  HandInv'
<1>1. CASE UNCHANGED vars
  <2>1. UNCHANGED <<h, fp, frame, source, engine, shown, native>>
    BY <1>1 DEF vars
  <2> QED
    BY <2>1 DEF HandInv, ScheduleTyped, FpTyped, ShownFits, ShownWas, Over, Live, OrderingHold,
                AtFrame, Call, FinalFirstPersonDeliveryPending, HeldPredecessorMatchesStaged
<1>2. CASE \/ FenceDeclines \/ FenceResumesInventory \/ FenceSelects
           \/ AbandonFenceSelection \/ EnsureFailsHalfway \/ ReserveHandAtFence
  BY <1>2, FenceDeclinesStep, FenceResumesStep, FenceSelectsStep, AbandonStep, HalfwayStep,
     ReserveStep
<1>3. CASE \/ DropFenceSelection \/ NothingDeferred \/ PlayerEquips \/ PlayerResizes
  BY <1>3, IdleStep
<1>4. CASE \/ DeferredRejects \/ BeginPostWorldCapture \/ CompletePostWorldCapture
           \/ \E fault \in BOOLEAN : FinalizeAborts(fault)
  BY <1>4, RejectStep, BeginStep, CompleteStep, FinalizeStep
<1>5. CASE \/ OnFirstPersonEnter \/ OnGenericDrawReturnedNormally
           \/ OnFirstPersonReturnedNormally \/ OnFirstPersonFinally
  BY <1>5, EnterStep, DrawStep, ReturnStep, FinallyStep
<1>6. CASE \/ OnInventoryMenuOpenChanged \/ OnPlayerEquipWake \/ OnPreLoadGame \/ OnGameLoaded
  BY <1>6, MenuStep, EquipWakeStep, PreLoadStep, LoadStep
<1> QED
  BY <1>1, <1>2, <1>3, <1>4, <1>5, <1>6 DEF Next

\* The inductive invariant: runtime, store and coordinator agree, and the
\* schedule admits what there is (HandMirrorReflectionRuntime.cpp).
THEOREM HandInvariant ==
  ASSUME ~ResizeWhileHeld
  PROVE  Spec => []HandInv
<1>1. Init => HandInv
  BY HandInvInit
<1>2. HandInv /\ [Next]_vars => HandInv'
  BY HandInvNext
<1> QED
  BY <1>1, <1>2, PTL DEF Spec

\* A picture that may still be drawn is in the target it was captured into and
\* is not drawn over: DeliveryPublicationForSurface never reads another one.
THEOREM DrawsOwnCaptureHolds ==
  ASSUME ~ResizeWhileHeld
  PROVE  Spec => []DrawsOwnCapture
<1>1. HandInv => DrawsOwnCapture
  <2> SUFFICES ASSUME HandInv, NEW p \in {h.current, h.held.retired} \ {None}
               PROVE  /\ h.slots[p.role] = p /\ p.load = h.load
                      /\ engine.physical[p.role] = p.target /\ engine.content[p.role] = p.source
    BY DEF DrawsOwnCapture
  <2>1. ~h.faulted
    BY NoneFact DEF HandInv, Over
  <2>2. Good(h, engine.physical, engine.content)
    BY <2>1, LiveFact
  <2>3. Agrees(h, engine.physical, engine.content)
    BY <2>2, NoneFact DEF Good, Blank
  <2>4. \/ p = h.current /\ h.current # None
        \/ p = h.held.retired /\ h.held # NoReceipt
    BY NoneFact
  <2> QED
    BY <2>3, <2>4 DEF Agrees, Kept
<1> QED
  BY <1>1, HandInvariant, PTL

\* No legal order of calls makes FailStopInternal run by itself: only a fault
\* the engine caused ends the mirror.
THEOREM NoSelfFaultHolds ==
  ASSUME ~ResizeWhileHeld
  PROVE  Spec => []NoSelfFault
<1>1. HandInv => NoSelfFault
  BY DEF HandInv, Over, NoSelfFault
<1> QED
  BY <1>1, HandInvariant, PTL

\* A drawn picture fits the equipped object and is at most MaxMiss sources old,
\* and what the clean-miss hold keeps is what the pane showed last.
THEOREM ShownFreshHolds ==
  ASSUME ~ResizeWhileHeld
  PROVE  Spec => []ShownFresh
<1>1. HandInv => ShownFresh
  BY DEF HandInv, ShownFits, ShownWas, ShownFresh
<1> QED
  BY <1>1, HandInvariant, PTL
=============================================================================
