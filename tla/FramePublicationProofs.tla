----------------------- MODULE FramePublicationProofs -----------------------
(* Theorems about FramePublication, for every value of its constants.      *)
EXTENDS FramePublication, TLAPS

-----------------------------------------------------------------------------
(* The inductive invariant.  An index can be exact only if no frame lies    *)
(* beyond the vector, and a receipt can be honoured only if every frame,    *)
(* copied or retired, is numbered no later than the capture sequence.       *)

SlotsInSize == \A s \in Slots : Visible(s) => s < size

HistoryBounded ==
  /\ taken # NoFrame => taken.capture <= captureSeq
  /\ receipt # NoFrame => receipt.capture <= captureSeq

TokensBounded ==
  /\ active # NoToken => active.seq <= attemptSeq
  /\ \A p \in Producers : held[p] # NoToken => held[p].seq <= attemptSeq

StoreInv == IndexExact /\ SlotsInSize /\ ActiveSlotOwnership
HistoryInv == CaptureOrder /\ HistoryBounded /\ ReceiptHonoured
TokenInv == TokensBounded /\ SingleAuthority

\* Captures and native publication tokens are numbered together.
LockStep == nativeSeq = captureSeq

IInv == TypeOK /\ LockStep /\ StoreInv /\ HistoryInv /\ TokenInv

-----------------------------------------------------------------------------
(* What the shared parts of the actions do.                                 *)

\* A visible slot holds a frame.
LEMMA VisibleIsFrame ==
  ASSUME TypeOK, NEW s \in Slots, Visible(s)
  PROVE  /\ published[s] \in Frames
         /\ published[s].form \in Forms
         /\ ResourcesOf(published[s]) \subseteq Resources
BY DEF TypeOK, Visible, Frames, ResourcesOf

\* Advancing the attempt sequence keeps it in its range and never lowers it;
\* without exhaustion it grows by exactly what was asked.
LEMMA AdvanceAttemptBounds ==
  ASSUME TypeOK, NEW n \in Nat, AdvanceAttempt(n)
  PROVE  /\ attemptSeq' \in 0 .. MaxSeq
         /\ exhausted' \in BOOLEAN
         /\ attemptSeq' >= attemptSeq
         /\ exhausted => exhausted'
         /\ ~exhausted' => attemptSeq' = attemptSeq + n
         /\ ~exhausted /\ n > 0 => attemptSeq' > 0
<1>1. attemptSeq \in Nat /\ MaxSeq \in Nat /\ attemptSeq <= MaxSeq /\ exhausted \in BOOLEAN
      /\ MaxSeq > 0
  BY ConstantsAssumption DEF TypeOK
<1>2. exhausted' = (exhausted \/ attemptSeq + n > MaxSeq)
  BY DEF AdvanceAttempt
<1>. exhausted' \in BOOLEAN
  BY <1>2
<1>3. CASE exhausted
  <2>1. attemptSeq' = attemptSeq BY <1>3 DEF AdvanceAttempt
  <2>2. exhausted' BY <1>2, <1>3
  <2> QED BY <1>1, <1>3, <2>1, <2>2
<1>4. CASE ~exhausted /\ attemptSeq + n > MaxSeq
  <2>1. attemptSeq' = MaxSeq BY <1>4 DEF AdvanceAttempt
  <2>2. exhausted' BY <1>2, <1>4
  <2> QED BY <1>1, <1>4, <2>1, <2>2
<1>5. CASE ~exhausted /\ ~(attemptSeq + n > MaxSeq)
  <2>1. attemptSeq' = attemptSeq + n BY <1>5 DEF AdvanceAttempt
  <2> QED BY <1>1, <1>5, <2>1
<1> QED BY <1>1, <1>3, <1>4, <1>5

\* Dropping slots removes frames and never adds one, and keeps the types.
LEMMA DropSlotsType ==
  ASSUME TypeOK, NEW S, DropSlots(S)
  PROVE  /\ published' \in [Slots -> Frames \cup {NoFrame}]
         /\ size' \in 0 .. SlotCount
         /\ byForm' \in [Forms -> Slots \cup {NoSlot}]
         /\ byResource' \in [Resources -> Slots \cup {NoSlot}]
         /\ active' \in Tokens \cup {NoToken}
         /\ attemptSeq' \in 0 .. MaxSeq
         /\ exhausted' \in BOOLEAN
         /\ attemptSeq' >= attemptSeq
         /\ active' \in {active, NoToken}
         /\ exhausted => exhausted'
         /\ \A s \in Slots : published'[s] \in {published[s], NoFrame}
<1>1. PICK n \in Nat : AdvanceAttempt(n)
  BY DEF DropSlots
<1>2. /\ attemptSeq' \in 0 .. MaxSeq
      /\ exhausted' \in BOOLEAN
      /\ attemptSeq' >= attemptSeq
      /\ exhausted => exhausted'
  BY <1>1, AdvanceAttemptBounds
<1>3. /\ published' \in [Slots -> Frames \cup {NoFrame}]
      /\ size' \in 0 .. SlotCount
      /\ \A s \in Slots : published'[s] \in {published[s], NoFrame}
  BY DEF TypeOK, DropSlots
<1>4. active' \in {active, NoToken} /\ active' \in Tokens \cup {NoToken}
  BY DEF TypeOK, DropSlots
<1>5. byForm' \in [Forms -> Slots \cup {NoSlot}]
  BY DEF TypeOK, DropSlots, Unindex
<1>6. byResource' \in [Resources -> Slots \cup {NoSlot}]
  BY DEF TypeOK, DropSlots, Unindex
<1> QED BY <1>2, <1>3, <1>4, <1>5, <1>6

\* Removing the index entries of the slots that lose their frame keeps the
\* indices exact.
LEMMA UnindexExact ==
  ASSUME TypeOK, IndexExact, NEW S \in SUBSET Slots, Unindex(S),
         \A s \in Slots : published'[s] = IF s \in S THEN NoFrame ELSE published[s]
  PROVE  IndexExact'
<1>1. ASSUME NEW f \in Forms, NEW s \in Slots
      PROVE  byForm'[f] = s <=> Visible(s)' /\ published'[s].form = f
  <2>1. byForm'[f] = IF \E t \in S : Visible(t) /\ published[t].form = f
                     THEN NoSlot ELSE byForm[f]
    BY DEF Unindex
  <2>2. \A t \in Slots : byForm[f] = t <=> Visible(t) /\ published[t].form = f
    BY DEF IndexExact
  <2>3. NoSlot # s BY ConstantsAssumption
  <2>4. published'[s] = IF s \in S THEN NoFrame ELSE published[s]
    OBVIOUS
  <2> QED BY <2>1, <2>2, <2>3, <2>4 DEF Visible
<1>2. ASSUME NEW r \in Resources, NEW s \in Slots
      PROVE  byResource'[r] = s <=> Visible(s)' /\ r \in ResourcesOf(published'[s])
  <2>1. byResource'[r] = IF \E t \in S : Visible(t) /\ r \in ResourcesOf(published[t])
                         THEN NoSlot ELSE byResource[r]
    BY DEF Unindex
  <2>2. \A t \in Slots : byResource[r] = t <=> Visible(t) /\ r \in ResourcesOf(published[t])
    BY DEF IndexExact
  <2>3. NoSlot # s BY ConstantsAssumption
  <2>4. published'[s] = IF s \in S THEN NoFrame ELSE published[s]
    OBVIOUS
  <2> QED BY <2>1, <2>2, <2>3, <2>4 DEF Visible
<1> QED BY <1>1, <1>2 DEF IndexExact, ResourcesOf

\* Dropping slots keeps the store consistent.
LEMMA DropSlotsStore ==
  ASSUME TypeOK, StoreInv, NEW S, DropSlots(S)
  PROVE  StoreInv'
<1> DEFINE dropped == S \cap 0 .. size - 1
<1>1. dropped \in SUBSET Slots
  BY ConstantsAssumption DEF TypeOK, Slots
<1>2. /\ \A s \in Slots : published'[s] = IF s \in dropped THEN NoFrame ELSE published[s]
      /\ size' = size
      /\ Unindex(dropped)
  BY DEF DropSlots
<1>3. IndexExact'
  <2> HIDE DEF dropped
  <2> QED BY <1>1, <1>2, UnindexExact DEF StoreInv
<1>4. SlotsInSize'
  BY <1>2 DEF StoreInv, SlotsInSize, Visible
<1>5. ActiveSlotOwnership'
  <2>1. active' \in {active, NoToken} BY DropSlotsType
  <2>2. active # NoToken => active.slot \in Slots
    BY DEF TypeOK, Tokens
  <2> QED BY <1>2, <2>1, <2>2 DEF StoreInv, ActiveSlotOwnership, Visible
<1> QED BY <1>3, <1>4, <1>5 DEF StoreInv

\* Clearing the whole store keeps it consistent.
LEMMA DropAllStore ==
  ASSUME TypeOK, DropAll
  PROVE  /\ StoreInv'
         /\ published' \in [Slots -> Frames \cup {NoFrame}]
         /\ size' \in 0 .. SlotCount
         /\ byForm' \in [Forms -> Slots \cup {NoSlot}]
         /\ byResource' \in [Resources -> Slots \cup {NoSlot}]
         /\ active' = NoToken
         /\ \A s \in Slots : published'[s] = NoFrame
<1>1. NoSlot \notin Slots /\ SlotCount \in Nat
  BY ConstantsAssumption
<1>2. IndexExact'
  BY <1>1 DEF DropAll, IndexExact, Visible
<1>3. SlotsInSize' /\ ActiveSlotOwnership'
  BY DEF DropAll, SlotsInSize, ActiveSlotOwnership, Visible
<1> QED BY <1>1, <1>2, <1>3 DEF DropAll, StoreInv

\* The frame a publication stores, and the token it consumes.
LEMMA PublishFacts ==
  ASSUME TypeOK, NEW p \in Producers, NEW color \in Resources,
         NEW depth \in Resources \cup {NoResource},
         NEW lease \in Leases \cup {NoLease},
         Publish(p, color, depth, lease)
  PROVE  /\ held[p] \in Tokens /\ held[p].slot \in Slots
         /\ held[p] = active /\ active # NoToken /\ held[p].slot < size
         /\ captureSeq' = captureSeq + 1 /\ captureSeq' \in 1 .. MaxSeq
         /\ nativeSeq' = nativeSeq + 1
         /\ [form |-> held[p].form, gen |-> held[p].gen, capture |-> captureSeq',
             color |-> color, depth |-> depth, lease |-> lease] \in Frames
<1>1. held[p] \in Tokens /\ held[p] = active /\ active # NoToken /\ held[p].slot < size
  BY DEF TypeOK, Publish, PublishAllowed
<1>2. captureSeq' = captureSeq + 1 /\ captureSeq' \in 1 .. MaxSeq /\ nativeSeq' = nativeSeq + 1
  BY ConstantsAssumption DEF TypeOK, Publish, AdvanceCapture
<1>3. held[p].form \in Forms /\ held[p].gen \in Gens /\ held[p].slot \in Slots
  BY <1>1 DEF Tokens
<1> QED BY <1>1, <1>2, <1>3 DEF Frames

-----------------------------------------------------------------------------
(* Type correctness.                                                        *)

LEMMA InitType == Init => TypeOK
<1> SUFFICES ASSUME Init PROVE TypeOK
  OBVIOUS
<1>1. SlotCount \in Nat /\ MaxSeq \in Nat
  BY ConstantsAssumption
<1>2. size \in 0 .. SlotCount /\ attemptSeq \in 0 .. MaxSeq
      /\ captureSeq \in 0 .. MaxSeq /\ nativeSeq \in 0 .. MaxSeq
  BY <1>1 DEF Init
<1> QED BY <1>2 DEF Init, TypeOK

LEMMA NextType ==
  ASSUME TypeOK, LockStep, [Next]_vars
  PROVE  TypeOK' /\ LockStep'
<1> USE DEF LockStep
<1>1. ASSUME NEW p \in Producers, NEW s \in Slots, NEW zero \in BOOLEAN,
             BeginInvalid(p, s, zero)
      PROVE  TypeOK' /\ LockStep'
  <2>1. DropSlots({s}) BY <1>1 DEF BeginInvalid
  <2>2. held' \in [Producers -> Tokens \cup {NoToken}]
    BY <1>1 DEF TypeOK, BeginInvalid
  <2> QED BY <1>1, <2>1, <2>2, DropSlotsType DEF TypeOK, BeginInvalid, counters
<1>2. ASSUME NEW p \in Producers, NEW s \in Slots, BeginRefused(p, s)
      PROVE  TypeOK' /\ LockStep'
  BY <1>2 DEF TypeOK, BeginRefused, store, counters
<1>3. ASSUME NEW p \in Producers, NEW s \in Slots, NEW f \in Forms, NEW g \in Gens,
             NEW preserve \in BOOLEAN, BeginReflectedAttempt(p, f, g, preserve, s)
      PROVE  TypeOK' /\ LockStep'
  <2>1. PICK n \in Nat : n > 0 /\ AdvanceAttempt(n)
    BY <1>3 DEF BeginReflectedAttempt
  <2>2. /\ attemptSeq' \in 1 .. MaxSeq
        /\ exhausted' \in BOOLEAN
    <3>1. ~exhausted BY <1>3 DEF BeginReflectedAttempt
    <3> QED BY <2>1, <3>1, AdvanceAttemptBounds, ConstantsAssumption
  <2>3. active' \in Tokens /\ held' \in [Producers -> Tokens \cup {NoToken}]
    BY <1>3, <2>2 DEF TypeOK, BeginReflectedAttempt, Tokens
  <2>4. size' \in 0 .. SlotCount
    BY <1>3, ConstantsAssumption DEF TypeOK, BeginReflectedAttempt, Slots
  <2>5. /\ published' \in [Slots -> Frames \cup {NoFrame}]
        /\ byForm' \in [Forms -> Slots \cup {NoSlot}]
        /\ byResource' \in [Resources -> Slots \cup {NoSlot}]
    BY <1>3 DEF TypeOK, BeginReflectedAttempt, Unindex
  <2> QED BY <1>3, <2>2, <2>3, <2>4, <2>5, ConstantsAssumption
          DEF TypeOK, BeginReflectedAttempt, counters
<1>4. ASSUME NEW p \in Producers, CancelReflectedAttempt(p)
      PROVE  TypeOK' /\ LockStep'
  <2>1. AdvanceAttempt(1) /\ active' = NoToken
    BY <1>4 DEF CancelReflectedAttempt
  <2>2. attemptSeq' \in 0 .. MaxSeq /\ exhausted' \in BOOLEAN
    BY <2>1, AdvanceAttemptBounds
  <2> QED BY <1>4, <2>1, <2>2 DEF TypeOK, CancelReflectedAttempt, store, counters, clients
<1>5. ASSUME NEW p \in Producers, NEW t \in Targets, NEW lease \in Leases \cup {NoLease}
      PROVE  /\ PublishExhausted(p, t[1], t[2], lease) => TypeOK' /\ LockStep'
             /\ PublishOutOfMemory(p, t[1], t[2], lease) => TypeOK' /\ LockStep'
             /\ Publish(p, t[1], t[2], lease) => TypeOK' /\ LockStep'
  <2>0. t[1] \in Resources /\ t[2] \in Resources \cup {NoResource}
    BY DEF Targets
  <2>1. ASSUME PublishExhausted(p, t[1], t[2], lease) PROVE TypeOK' /\ LockStep'
    BY <2>1, DropAllStore DEF TypeOK, PublishExhausted, counters, clients
  <2>2. ASSUME PublishOutOfMemory(p, t[1], t[2], lease) PROVE TypeOK' /\ LockStep'
    BY <2>2, ConstantsAssumption
       DEF TypeOK, PublishOutOfMemory, AdvanceCapture, store, clients
  <2>3. ASSUME Publish(p, t[1], t[2], lease) PROVE TypeOK' /\ LockStep'
    <3> DEFINE next == [form |-> held[p].form, gen |-> held[p].gen,
                        capture |-> captureSeq', color |-> t[1], depth |-> t[2],
                        lease |-> lease]
    <3>1. next \in Frames /\ held[p].slot \in Slots
          /\ captureSeq' \in 0 .. MaxSeq /\ captureSeq' = captureSeq + 1
          /\ nativeSeq' = nativeSeq + 1
      BY <2>0, <2>3, PublishFacts, ConstantsAssumption
    <3>2. published' = [published EXCEPT ![held[p].slot] = next]
      BY <2>3 DEF Publish
    <3>3. published' \in [Slots -> Frames \cup {NoFrame}]
      <4> HIDE DEF next
      <4> QED BY <3>1, <3>2 DEF TypeOK
    <3>4. byForm' \in [Forms -> Slots \cup {NoSlot}]
      BY <2>3, <3>1 DEF TypeOK, Publish
    <3>5. byResource' \in [Resources -> Slots \cup {NoSlot}]
      BY <2>3, <3>1 DEF TypeOK, Publish
    <3> QED BY <2>3, <3>1, <3>3, <3>4, <3>5 DEF TypeOK, Publish, clients
  <2> QED BY <2>1, <2>2, <2>3
<1>6. CASE Invalidate
  <2>1. attemptSeq' \in 0 .. MaxSeq /\ exhausted' \in BOOLEAN
    BY <1>6, AdvanceAttemptBounds DEF Invalidate
  <2> QED BY <1>6, <2>1, DropAllStore DEF TypeOK, Invalidate, counters, clients
<1>7. CASE ConfigureMultiMirror
  <2>1. attemptSeq' \in 0 .. MaxSeq /\ exhausted' \in BOOLEAN
    BY <1>7, AdvanceAttemptBounds DEF ConfigureMultiMirror
  <2> QED BY <1>7, <2>1, DropAllStore DEF TypeOK, ConfigureMultiMirror, counters, clients
<1>8. ASSUME NEW S, DropSlots(S), UNCHANGED <<counters, multiMirror, held, taken>>,
             receipt' \in Frames \cup {NoFrame}
      PROVE  TypeOK' /\ LockStep'
  BY <1>8, DropSlotsType DEF TypeOK, counters
<1>9. ASSUME NEW s \in Slots, InvalidateSlot(s)
      PROVE  TypeOK' /\ LockStep'
  BY <1>8, <1>9 DEF InvalidateSlot, clients, TypeOK
<1>10. ASSUME NEW f \in Forms, InvalidateCandidate(f)
       PROVE  TypeOK' /\ LockStep'
  BY <1>8, <1>10 DEF InvalidateCandidate, clients, TypeOK
<1>11. CASE InvalidateExact
  BY <1>8, <1>11 DEF InvalidateExact, clients, TypeOK
<1>12. CASE RetireExactForSuccessor
  BY <1>8, <1>12 DEF RetireExactForSuccessor, TypeOK
<1>13. ASSUME NEW s \in Slots, TakeSnapshot(s)
       PROVE  TypeOK' /\ LockStep'
  BY <1>13 DEF TypeOK, TakeSnapshot, Visible, store, counters
<1>14. CASE UNCHANGED vars
  BY <1>14 DEF TypeOK, vars
<1> QED BY <1>1, <1>2, <1>3, <1>4, <1>5, <1>6, <1>7, <1>9, <1>10, <1>11, <1>12, <1>13,
           <1>14 DEF Next, Begin, Finish, Revoke, Consume

-----------------------------------------------------------------------------
(* The indices are exact and the live attempt owns its slot.                *)

\* Replacing one slot's frame by a publication keeps the indices exact: the
\* form and the textures of the new frame were free or the slot's own.
LEMMA PublishIndexExact ==
  ASSUME TypeOK, IndexExact, NEW p \in Producers, NEW color \in Resources,
         NEW depth \in Resources \cup {NoResource},
         NEW lease \in Leases \cup {NoLease},
         Publish(p, color, depth, lease)
  PROVE  IndexExact'
<1> DEFINE slot == held[p].slot
           next == [form |-> held[p].form, gen |-> held[p].gen, capture |-> captureSeq',
                    color |-> color, depth |-> depth, lease |-> lease]
           old == published[slot]
<1>1. slot \in Slots /\ next \in Frames /\ next # NoFrame /\ held[p].form \in Forms
  BY PublishFacts, ConstantsAssumption DEF Tokens
<1>2. \A s \in Slots : published'[s] = IF s = slot THEN next ELSE published[s]
  <2>1. published' = [published EXCEPT ![slot] = next] BY DEF Publish
  <2> HIDE DEF next
  <2> QED BY <1>1, <2>1 DEF TypeOK
<1>3. /\ byForm[next.form] \in {NoSlot, slot}
      /\ \A r \in ResourcesOf(next) : byResource[r] \in {NoSlot, slot}
  BY DEF Publish, PublishAllowed, ResourcesOf
<1>4. /\ \A f \in Forms, s \in Slots : byForm[f] = s <=> Visible(s) /\ published[s].form = f
      /\ \A r \in Resources, s \in Slots :
           byResource[r] = s <=> Visible(s) /\ r \in ResourcesOf(published[s])
  BY DEF IndexExact
<1>5. ASSUME NEW f \in Forms, NEW s \in Slots
      PROVE  byForm'[f] = s <=> published'[s] # NoFrame /\ published'[s].form = f
  <2>1. byForm'[f] = CASE f = next.form -> slot
                       [] f # next.form /\ old # NoFrame /\ old.form = f -> NoSlot
                       [] OTHER -> byForm[f]
    BY DEF Publish
  <2>2. NoSlot # s /\ NoSlot # slot BY <1>1, ConstantsAssumption
  <2>3. byForm[f] = s <=> published[s] # NoFrame /\ published[s].form = f
    BY <1>4 DEF Visible
  <2>4. byForm[f] = slot <=> old # NoFrame /\ old.form = f
    BY <1>1, <1>4 DEF Visible
  <2>5. published'[s] = IF s = slot THEN next ELSE published[s]
    BY <1>2
  <2> HIDE DEF next, old, slot
  <2>6. CASE f = next.form
    BY <1>1, <1>3, <2>1, <2>2, <2>3, <2>4, <2>5, <2>6
  <2>7. CASE f # next.form
    BY <1>1, <2>1, <2>2, <2>3, <2>4, <2>5, <2>7
  <2> QED BY <2>6, <2>7
<1>6. ASSUME NEW r \in Resources, NEW s \in Slots
      PROVE  byResource'[r] = s <=> published'[s] # NoFrame /\ r \in ResourcesOf(published'[s])
  <2>1. byResource'[r] =
          CASE r \in ResourcesOf(next) -> slot
            [] r \notin ResourcesOf(next) /\ old # NoFrame /\ r \in ResourcesOf(old) -> NoSlot
            [] OTHER -> byResource[r]
    BY DEF Publish
  <2>2. NoSlot # s /\ NoSlot # slot BY <1>1, ConstantsAssumption
  <2>3. byResource[r] = s <=> published[s] # NoFrame /\ r \in ResourcesOf(published[s])
    BY <1>4 DEF Visible
  <2>4. byResource[r] = slot <=> old # NoFrame /\ r \in ResourcesOf(old)
    BY <1>1, <1>4 DEF Visible
  <2>5. published'[s] = IF s = slot THEN next ELSE published[s]
    BY <1>2
  <2> HIDE DEF next, old, slot
  <2>6. CASE r \in ResourcesOf(next)
    BY <1>1, <1>3, <2>1, <2>2, <2>3, <2>4, <2>5, <2>6
  <2>7. CASE r \notin ResourcesOf(next)
    BY <1>1, <2>1, <2>2, <2>3, <2>4, <2>5, <2>7
  <2> QED BY <2>6, <2>7
<1> QED BY <1>5, <1>6 DEF IndexExact, Visible, ResourcesOf

LEMMA NextStore ==
  ASSUME TypeOK, StoreInv, [Next]_vars
  PROVE  StoreInv'
<1>1. ASSUME NEW S, DropSlots(S)
      PROVE  StoreInv'
  BY <1>1, DropSlotsStore
<1>2. ASSUME UNCHANGED store, active' \in {active, NoToken}
      PROVE  StoreInv'
  BY <1>2 DEF StoreInv, IndexExact, SlotsInSize, ActiveSlotOwnership, Visible,
              ResourcesOf, store
<1>3. ASSUME NEW p \in Producers, NEW s \in Slots, NEW f \in Forms, NEW g \in Gens,
             NEW preserve \in BOOLEAN, BeginReflectedAttempt(p, f, g, preserve, s)
      PROVE  StoreInv'
  <2> DEFINE clear == ~(preserve /\ SameIdentity(s, f, g))
  <2>1. \A t \in Slots :
          published'[t] = IF t \in (IF clear THEN {s} ELSE {}) THEN NoFrame ELSE published[t]
    BY <1>3 DEF BeginReflectedAttempt, TypeOK
  <2>2. /\ size' = IF s >= size THEN s + 1 ELSE size
        /\ size \in Nat /\ s \in Nat /\ s < size' /\ size <= size'
    BY <1>3, ConstantsAssumption DEF BeginReflectedAttempt, TypeOK, Slots
  <2>3. active' = [form |-> f, gen |-> g, seq |-> attemptSeq', slot |-> s]
    BY <1>3 DEF BeginReflectedAttempt
  <2>4. IndexExact'
    <3>1. CASE clear
      BY <1>3, <2>1, <3>1, UnindexExact DEF BeginReflectedAttempt, StoreInv
    <3>2. CASE ~clear
      BY <1>3, <3>2 DEF BeginReflectedAttempt, StoreInv, IndexExact, Visible, ResourcesOf
    <3> QED BY <3>1, <3>2
  <2>5. SlotsInSize'
    BY <2>1, <2>2, ConstantsAssumption DEF StoreInv, SlotsInSize, Visible, Slots
  <2>6. ActiveSlotOwnership'
    BY <2>1, <2>2, <2>3 DEF ActiveSlotOwnership, SameIdentity, Visible
  <2> QED BY <2>4, <2>5, <2>6 DEF StoreInv
<1>4. ASSUME NEW p \in Producers, NEW t \in Targets, NEW lease \in Leases \cup {NoLease},
             Publish(p, t[1], t[2], lease)
      PROVE  StoreInv'
  <2>1. t[1] \in Resources /\ t[2] \in Resources \cup {NoResource}
    BY DEF Targets
  <2>2. IndexExact'
    BY <1>4, <2>1, PublishIndexExact DEF StoreInv
  <2>3. held[p].slot < size /\ held[p].slot \in Slots
    BY <1>4, <2>1, PublishFacts
  <2>4. \A s \in Slots : s # held[p].slot => published'[s] = published[s]
    BY <1>4 DEF Publish, TypeOK
  <2>5. size' = size /\ active' = NoToken
    BY <1>4 DEF Publish
  <2> QED BY <2>2, <2>3, <2>4, <2>5
          DEF StoreInv, SlotsInSize, ActiveSlotOwnership, Visible
<1>5. ASSUME DropAll PROVE StoreInv'
  BY <1>5, DropAllStore
<1>6. ASSUME Begin PROVE StoreInv'
  <2>1. ASSUME NEW p \in Producers, NEW s \in Slots, NEW zero \in BOOLEAN,
               BeginInvalid(p, s, zero)
        PROVE  StoreInv'
    BY <1>1, <2>1 DEF BeginInvalid
  <2>2. ASSUME NEW p \in Producers, NEW s \in Slots, BeginRefused(p, s)
        PROVE  StoreInv'
    BY <1>2, <2>2 DEF BeginRefused
  <2> QED BY <1>3, <1>6, <2>1, <2>2 DEF Begin
<1>7. ASSUME Finish PROVE StoreInv'
  <2>1. ASSUME NEW p \in Producers, CancelReflectedAttempt(p) PROVE StoreInv'
    BY <1>2, <2>1 DEF CancelReflectedAttempt
  <2>2. ASSUME NEW p \in Producers, NEW t \in Targets, NEW lease \in Leases \cup {NoLease},
               PublishExhausted(p, t[1], t[2], lease)
        PROVE  StoreInv'
    BY <1>5, <2>2 DEF PublishExhausted
  <2>3. ASSUME NEW p \in Producers, NEW t \in Targets, NEW lease \in Leases \cup {NoLease},
               PublishOutOfMemory(p, t[1], t[2], lease)
        PROVE  StoreInv'
    BY <1>2, <2>3 DEF PublishOutOfMemory
  <2> QED BY <1>4, <1>7, <2>1, <2>2, <2>3 DEF Finish
<1>8. ASSUME Revoke PROVE StoreInv'
  BY <1>1, <1>5, <1>8 DEF Revoke, Invalidate, ConfigureMultiMirror, InvalidateSlot,
     InvalidateCandidate, InvalidateExact, RetireExactForSuccessor
<1>9. ASSUME Consume PROVE StoreInv'
  BY <1>2, <1>9 DEF Consume, TakeSnapshot
<1>10. CASE UNCHANGED vars
  BY <1>2, <1>10 DEF vars, store
<1> QED BY <1>6, <1>7, <1>8, <1>9, <1>10 DEF Next

LEMMA InitStore == Init => StoreInv
BY ConstantsAssumption
   DEF Init, StoreInv, IndexExact, SlotsInSize, ActiveSlotOwnership, Visible

\* Exact indices make the visible frames disjoint: one slot per mirror, one
\* owner per texture.
LEMMA IndicesSeparate == TypeOK /\ IndexExact => FramesDisjoint
<1> SUFFICES ASSUME TypeOK, IndexExact, NEW s \in Slots, NEW t \in Slots,
                    s # t, Visible(s), Visible(t)
             PROVE  /\ published[s].form # published[t].form
                    /\ ResourcesOf(published[s]) \cap ResourcesOf(published[t]) = {}
  BY DEF FramesDisjoint
<1>1. /\ published[s].form \in Forms
      /\ ResourcesOf(published[s]) \subseteq Resources
  BY VisibleIsFrame
<1> QED BY <1>1 DEF IndexExact

-----------------------------------------------------------------------------
(* One frame per capture number, receipts honoured.                         *)

\* A step that only takes frames away, and may retire none, keeps the history.
LEMMA OnlyRemovals ==
  ASSUME TypeOK, HistoryInv,
         \A s \in Slots : published'[s] \in {published[s], NoFrame},
         captureSeq' = captureSeq, taken' = taken, receipt' = receipt
  PROVE  HistoryInv'
BY DEF HistoryInv, CaptureOrder, HistoryBounded, ReceiptHonoured, Visible

LEMMA NextHistory ==
  ASSUME TypeOK, StoreInv, HistoryInv, [Next]_vars
  PROVE  HistoryInv'
<1>1. ASSUME NEW S, DropSlots(S), UNCHANGED <<counters, taken, receipt>>
      PROVE  HistoryInv'
  BY <1>1, DropSlotsType, OnlyRemovals DEF counters
<1>2. ASSUME DropAll, UNCHANGED <<counters, taken, receipt>>
      PROVE  HistoryInv'
  BY <1>2, DropAllStore, OnlyRemovals DEF counters
<1>3. ASSUME UNCHANGED <<published, taken, receipt>>, captureSeq' >= captureSeq,
             captureSeq' \in Nat
      PROVE  HistoryInv'
  <2>1. \A s \in Slots : Visible(s) => published[s].capture \in Nat
    BY DEF TypeOK, Visible, Frames
  <2>2. /\ taken # NoFrame => taken.capture \in Nat
        /\ receipt # NoFrame => receipt.capture \in Nat
        /\ captureSeq \in Nat
    BY DEF TypeOK, Frames
  <2> QED BY <1>3, <2>1, <2>2
      DEF HistoryInv, CaptureOrder, HistoryBounded, ReceiptHonoured, Visible
<1>4. ASSUME Begin PROVE HistoryInv'
  <2>1. ASSUME NEW p \in Producers, NEW s \in Slots, NEW f \in Forms, NEW g \in Gens,
               NEW preserve \in BOOLEAN, BeginReflectedAttempt(p, f, g, preserve, s)
        PROVE  HistoryInv'
    <3>1. \A t \in Slots : published'[t] \in {published[t], NoFrame}
      BY <2>1 DEF BeginReflectedAttempt, TypeOK
    <3> QED BY <2>1, <3>1, OnlyRemovals DEF BeginReflectedAttempt, counters
  <2>2. ASSUME NEW p \in Producers, NEW s \in Slots, NEW zero \in BOOLEAN,
               BeginInvalid(p, s, zero)
        PROVE  HistoryInv'
    BY <1>1, <2>2 DEF BeginInvalid
  <2>3. ASSUME NEW p \in Producers, NEW s \in Slots, BeginRefused(p, s)
        PROVE  HistoryInv'
    BY <2>3, OnlyRemovals DEF BeginRefused, store, counters
  <2> QED BY <1>4, <2>1, <2>2, <2>3 DEF Begin
<1>5. ASSUME NEW p \in Producers, NEW t \in Targets, NEW lease \in Leases \cup {NoLease},
             Publish(p, t[1], t[2], lease)
      PROVE  HistoryInv'
  <2> DEFINE slot == held[p].slot
             next == [form |-> held[p].form, gen |-> held[p].gen,
                      capture |-> captureSeq', color |-> t[1], depth |-> t[2],
                      lease |-> lease]
  <2>1. slot \in Slots /\ captureSeq' = captureSeq + 1 /\ captureSeq \in Nat
    <3>1. t[1] \in Resources /\ t[2] \in Resources \cup {NoResource}
      BY DEF Targets
    <3>2. held[p].slot \in Slots /\ captureSeq' = captureSeq + 1
      BY <1>5, <3>1, PublishFacts
    <3>3. captureSeq \in Nat
      BY ConstantsAssumption DEF TypeOK
    <3> QED BY <3>2, <3>3
  <2>2. \A s \in Slots : published'[s] = IF s = slot THEN next ELSE published[s]
    <3>1. published' = [published EXCEPT ![slot] = next] BY <1>5 DEF Publish
    <3> HIDE DEF next
    <3> QED BY <2>1, <3>1 DEF TypeOK
  <2>3. \A s \in Slots : Visible(s) => /\ published[s].capture \in Nat
                                       /\ published[s].capture <= captureSeq
    BY DEF TypeOK, Visible, Frames, HistoryInv, CaptureOrder
  <2>4. /\ taken # NoFrame => taken.capture \in Nat /\ taken.capture <= captureSeq
        /\ receipt # NoFrame => receipt.capture \in Nat /\ receipt.capture <= captureSeq
    BY DEF TypeOK, Frames, HistoryInv, HistoryBounded
  <2>5. taken' = taken /\ receipt' = receipt
    BY <1>5 DEF Publish, clients
  <2>6. next.capture = captureSeq + 1
    BY <2>1
  <2> HIDE DEF next
  <2>7. CaptureOrder'
    BY <2>1, <2>2, <2>3, <2>6 DEF HistoryInv, CaptureOrder, Visible
  <2>8. HistoryBounded'
    BY <2>1, <2>4, <2>5 DEF HistoryBounded
  <2>9. ReceiptHonoured'
    BY <2>1, <2>2, <2>4, <2>5, <2>6 DEF HistoryInv, ReceiptHonoured
  <2> QED BY <2>7, <2>8, <2>9 DEF HistoryInv
<1>6. ASSUME Finish PROVE HistoryInv'
  <2>1. ASSUME NEW p \in Producers, CancelReflectedAttempt(p) PROVE HistoryInv'
    BY <2>1, OnlyRemovals DEF CancelReflectedAttempt, store, counters, clients
  <2>2. ASSUME NEW p \in Producers, NEW t \in Targets, NEW lease \in Leases \cup {NoLease},
               PublishExhausted(p, t[1], t[2], lease)
        PROVE  HistoryInv'
    BY <1>2, <2>2 DEF PublishExhausted, clients
  <2>3. ASSUME NEW p \in Producers, NEW t \in Targets, NEW lease \in Leases \cup {NoLease},
               PublishOutOfMemory(p, t[1], t[2], lease)
        PROVE  HistoryInv'
    <3>1. captureSeq' = captureSeq + 1 /\ captureSeq \in Nat
      BY <2>3 DEF PublishOutOfMemory, AdvanceCapture, TypeOK
    <3> QED BY <1>3, <2>3, <3>1 DEF PublishOutOfMemory, store, clients
  <2> QED BY <1>5, <1>6, <2>1, <2>2, <2>3 DEF Finish
<1>7. ASSUME Revoke PROVE HistoryInv'
  <2>1. CASE Invalidate
    BY <1>2, <2>1 DEF Invalidate, clients
  <2>2. CASE ConfigureMultiMirror
    BY <1>2, <2>2 DEF ConfigureMultiMirror, clients
  <2>3. ASSUME NEW s \in Slots, InvalidateSlot(s) PROVE HistoryInv'
    BY <1>1, <2>3 DEF InvalidateSlot, clients
  <2>4. ASSUME NEW f \in Forms, InvalidateCandidate(f) PROVE HistoryInv'
    BY <1>1, <2>4 DEF InvalidateCandidate, clients
  <2>5. CASE InvalidateExact
    BY <1>1, <2>5 DEF InvalidateExact, clients
  <2>6. CASE RetireExactForSuccessor
    <3>1. PICK s \in Slots : published[s] = taken /\ DropSlots({s})
      BY <2>6 DEF RetireExactForSuccessor
    <3>2. taken # NoFrame /\ receipt' = taken /\ taken' = taken /\ captureSeq' = captureSeq
      BY <2>6 DEF RetireExactForSuccessor, counters
    <3>3. \A t \in Slots : published'[t] \in {published[t], NoFrame}
      BY <3>1, DropSlotsType
    <3>4. published'[s] = NoFrame
      <4>1. s < size /\ size \in Nat /\ s \in Nat
        BY <3>1, <3>2, ConstantsAssumption
           DEF StoreInv, SlotsInSize, Visible, TypeOK, Slots
      <4> QED BY <3>1, <4>1 DEF DropSlots
    <3>5. \A t \in Slots : t # s => published[t] # taken
      BY <3>1, <3>2 DEF HistoryInv, CaptureOrder, Visible
    <3>6. CaptureOrder'
      BY <3>2, <3>3 DEF HistoryInv, CaptureOrder, Visible
    <3>7. HistoryBounded'
      BY <3>2 DEF HistoryInv, HistoryBounded
    <3>8. ReceiptHonoured'
      BY <3>2, <3>3, <3>4, <3>5 DEF ReceiptHonoured
    <3> QED BY <3>6, <3>7, <3>8 DEF HistoryInv
  <2> QED BY <1>7, <2>1, <2>2, <2>3, <2>4, <2>5, <2>6 DEF Revoke
<1>8. ASSUME Consume PROVE HistoryInv'
  <2>1. PICK s \in Slots : TakeSnapshot(s)
    BY <1>8 DEF Consume
  <2> QED BY <2>1 DEF TakeSnapshot, HistoryInv, CaptureOrder, HistoryBounded,
                     ReceiptHonoured, Visible, store, counters
<1>9. CASE UNCHANGED vars
  BY <1>9, OnlyRemovals DEF vars
<1> QED BY <1>4, <1>6, <1>7, <1>8, <1>9 DEF Next

-----------------------------------------------------------------------------
(* Only one producer holds the live token until the sequence is exhausted.  *)

\* A step that gives no producer a token, and at most takes the live one away,
\* keeps the authority single.
LEMMA OnlyRevocations ==
  ASSUME TypeOK, TokenInv, active' \in {active, NoToken},
         \A p \in Producers : held'[p] \in {held[p], NoToken},
         attemptSeq' \in Nat, attemptSeq' >= attemptSeq,
         exhausted => exhausted'
  PROVE  TokenInv'
<1>1. /\ attemptSeq \in Nat
      /\ active # NoToken => active.seq \in Nat
      /\ \A p \in Producers : held[p] # NoToken => held[p].seq \in Nat
  BY DEF TypeOK, Tokens
<1>2. TokensBounded'
  BY <1>1 DEF TokenInv, TokensBounded
<1>3. SingleAuthority'
  BY DEF TokenInv, SingleAuthority
<1> QED BY <1>2, <1>3 DEF TokenInv

LEMMA NextTokenInv ==
  ASSUME TypeOK, TokenInv, [Next]_vars
  PROVE  TokenInv'
<1>0. attemptSeq \in Nat /\ \A n \in 0 .. MaxSeq : n \in Nat
  BY ConstantsAssumption DEF TypeOK
<1>1. ASSUME NEW S, DropSlots(S), \A p \in Producers : held'[p] \in {held[p], NoToken}
      PROVE  TokenInv'
  BY <1>0, <1>1, DropSlotsType, OnlyRevocations
<1>2. ASSUME UNCHANGED <<attemptSeq, exhausted, held>>, active' \in {active, NoToken}
      PROVE  TokenInv'
  BY <1>0, <1>2, OnlyRevocations
<1>3. ASSUME AdvanceAttempt(1), active' = NoToken, held' = held
      PROVE  TokenInv'
  BY <1>0, <1>3, AdvanceAttemptBounds, OnlyRevocations
<1>4. ASSUME NEW p \in Producers, NEW s \in Slots, NEW f \in Forms, NEW g \in Gens,
             NEW preserve \in BOOLEAN, BeginReflectedAttempt(p, f, g, preserve, s)
      PROVE  TokenInv'
  <2> DEFINE token == [form |-> f, gen |-> g, seq |-> attemptSeq', slot |-> s]
  <2>1. PICK n \in Nat : n > 0 /\ AdvanceAttempt(n)
    BY <1>4 DEF BeginReflectedAttempt
  <2>2. /\ attemptSeq' \in Nat /\ attemptSeq' >= attemptSeq
        /\ ~exhausted' => attemptSeq' > attemptSeq
    BY <1>0, <2>1, AdvanceAttemptBounds
  <2>3. active' = token /\ token.seq = attemptSeq'
    BY <1>4 DEF BeginReflectedAttempt
  <2>4. \A q \in Producers : held'[q] = IF q = p THEN token ELSE held[q]
    <3>1. held' = [held EXCEPT ![p] = token] BY <1>4 DEF BeginReflectedAttempt
    <3> HIDE DEF token
    <3> QED BY <3>1 DEF TypeOK
  <2>5. \A q \in Producers : held[q] # NoToken =>
          held[q].seq \in Nat /\ held[q].seq <= attemptSeq
    BY DEF TypeOK, Tokens, TokenInv, TokensBounded
  <2> HIDE DEF token
  <2>6. TokensBounded'
    BY <1>0, <2>2, <2>3, <2>4, <2>5 DEF TokensBounded
  <2>7. ~exhausted' => \A q \in Producers : q # p /\ held'[q] # NoToken => held'[q] # token
    BY <1>0, <2>2, <2>3, <2>4, <2>5
  <2>8. SingleAuthority'
    BY <2>3, <2>7 DEF SingleAuthority
  <2> QED BY <2>6, <2>8 DEF TokenInv
<1>5. ASSUME Begin PROVE TokenInv'
  <2>1. ASSUME NEW p \in Producers, NEW s \in Slots, NEW zero \in BOOLEAN,
               BeginInvalid(p, s, zero)
        PROVE  TokenInv'
    <3>1. \A q \in Producers : held'[q] \in {held[q], NoToken}
      BY <2>1 DEF BeginInvalid, TypeOK
    <3> QED BY <1>1, <2>1, <3>1 DEF BeginInvalid
  <2>2. ASSUME NEW p \in Producers, NEW s \in Slots, BeginRefused(p, s)
        PROVE  TokenInv'
    <3>1. \A q \in Producers : held'[q] \in {held[q], NoToken}
      BY <2>2 DEF BeginRefused, TypeOK
    <3> QED BY <1>0, <2>2, <3>1, OnlyRevocations DEF BeginRefused
  <2> QED BY <1>4, <1>5, <2>1, <2>2 DEF Begin
<1>6. ASSUME Finish PROVE TokenInv'
  <2>1. ASSUME NEW p \in Producers, CancelReflectedAttempt(p) PROVE TokenInv'
    BY <1>3, <2>1 DEF CancelReflectedAttempt, clients
  <2>2. ASSUME NEW p \in Producers, NEW t \in Targets, NEW lease \in Leases \cup {NoLease},
               PublishExhausted(p, t[1], t[2], lease)
        PROVE  TokenInv'
    BY <1>0, <2>2, OnlyRevocations DEF PublishExhausted, DropAll, clients
  <2>3. ASSUME NEW p \in Producers, NEW t \in Targets, NEW lease \in Leases \cup {NoLease},
               PublishOutOfMemory(p, t[1], t[2], lease)
        PROVE  TokenInv'
    BY <1>2, <2>3 DEF PublishOutOfMemory, clients
  <2>4. ASSUME NEW p \in Producers, NEW t \in Targets, NEW lease \in Leases \cup {NoLease},
               Publish(p, t[1], t[2], lease)
        PROVE  TokenInv'
    BY <1>2, <2>4 DEF Publish, clients
  <2> QED BY <1>6, <2>1, <2>2, <2>3, <2>4 DEF Finish
<1>7. ASSUME Revoke PROVE TokenInv'
  <2>1. CASE Invalidate
    BY <1>3, <2>1 DEF Invalidate, DropAll, clients
  <2>2. CASE ConfigureMultiMirror
    BY <1>3, <2>2 DEF ConfigureMultiMirror, DropAll, clients
  <2>3. ASSUME NEW s \in Slots, InvalidateSlot(s) PROVE TokenInv'
    BY <1>1, <2>3 DEF InvalidateSlot, clients
  <2>4. ASSUME NEW f \in Forms, InvalidateCandidate(f) PROVE TokenInv'
    BY <1>1, <2>4 DEF InvalidateCandidate, clients
  <2>5. CASE InvalidateExact
    BY <1>1, <2>5 DEF InvalidateExact, clients
  <2>6. CASE RetireExactForSuccessor
    BY <1>1, <2>6 DEF RetireExactForSuccessor
  <2> QED BY <1>7, <2>1, <2>2, <2>3, <2>4, <2>5, <2>6 DEF Revoke
<1>8. ASSUME Consume PROVE TokenInv'
  BY <1>2, <1>8 DEF Consume, TakeSnapshot
<1>9. CASE UNCHANGED vars
  BY <1>2, <1>9 DEF vars
<1> QED BY <1>5, <1>6, <1>7, <1>8, <1>9 DEF Next

-----------------------------------------------------------------------------
(* The theorems.                                                            *)

THEOREM InductiveInvariant == Spec => []IInv
<1>1. Init => IInv
  <2>1. Init => HistoryInv /\ TokenInv
    BY DEF Init, HistoryInv, CaptureOrder, HistoryBounded, ReceiptHonoured, Visible,
           TokenInv, TokensBounded, SingleAuthority
  <2> QED BY <2>1, InitType, InitStore DEF IInv, Init, LockStep
<1>2. IInv /\ [Next]_vars => IInv'
  BY NextType, NextStore, NextHistory, NextTokenInv DEF IInv
<1> QED BY <1>1, <1>2, PTL DEF Spec

\* Every reachable state of the store has its types: in particular no sequence
\* passes its limit.
THEOREM TypeCorrect == Spec => []TypeOK
<1>1. IInv => TypeOK BY DEF IInv
<1> QED BY <1>1, InductiveInvariant, PTL

\* No failed insert, replacement, revocation or mode change leaves an index
\* entry without its frame or a frame without its entries.
THEOREM IndicesStayExact == Spec => []IndexExact
<1>1. IInv => IndexExact BY DEF IInv, StoreInv
<1> QED BY <1>1, InductiveInvariant, PTL

\* Two slots never show one mirror or own one texture.
THEOREM FramesStayDisjoint == Spec => []FramesDisjoint
<1>1. IInv => FramesDisjoint BY IndicesSeparate DEF IInv, StoreInv
<1> QED BY <1>1, InductiveInvariant, PTL

\* The slot of the live attempt never shows another mirror or lifetime.
THEOREM AttemptOwnsItsSlot == Spec => []ActiveSlotOwnership
<1>1. IInv => ActiveSlotOwnership BY DEF IInv, StoreInv
<1> QED BY <1>1, InductiveInvariant, PTL

\* A retired publication is never shown again after its receipt.
THEOREM ReceiptsAreHonoured == Spec => []ReceiptHonoured
<1>1. IInv => ReceiptHonoured BY DEF IInv, HistoryInv
<1> QED BY <1>1, InductiveInvariant, PTL

\* Until the sequence is exhausted a revoked token never passes for the live
\* one in the hands of another producer.
THEOREM AuthorityIsSingle == Spec => []SingleAuthority
<1>1. IInv => SingleAuthority BY DEF IInv, TokenInv
<1> QED BY <1>1, InductiveInvariant, PTL

\* Once the frame is gone that a consumer copied, no step publishes it again.
LEMMA NextBringsNothingBack ==
  ASSUME TypeOK, HistoryInv, Next, taken # NoFrame, taken' = taken,
         \A s \in Slots : published[s] # taken
  PROVE  \A s \in Slots : published'[s] # taken
<1>1. ASSUME \A s \in Slots : published'[s] \in {published[s], NoFrame}
      PROVE  \A s \in Slots : published'[s] # taken
  BY <1>1
<1>2. ASSUME NEW S, DropSlots(S) PROVE \A s \in Slots : published'[s] # taken
  BY <1>1, <1>2, DropSlotsType
<1>3. ASSUME DropAll PROVE \A s \in Slots : published'[s] # taken
  BY <1>1, <1>3, DropAllStore
<1>4. ASSUME published' = published PROVE \A s \in Slots : published'[s] # taken
  BY <1>4
<1>5. ASSUME Begin PROVE \A s \in Slots : published'[s] # taken
  <2>1. ASSUME NEW p \in Producers, NEW s \in Slots, NEW f \in Forms, NEW g \in Gens,
               NEW preserve \in BOOLEAN, BeginReflectedAttempt(p, f, g, preserve, s)
        PROVE  \A t \in Slots : published'[t] # taken
    <3>1. \A t \in Slots : published'[t] \in {published[t], NoFrame}
      BY <2>1 DEF BeginReflectedAttempt, TypeOK
    <3> QED BY <1>1, <3>1
  <2>2. ASSUME NEW p \in Producers, NEW s \in Slots, NEW zero \in BOOLEAN,
               BeginInvalid(p, s, zero)
        PROVE  \A t \in Slots : published'[t] # taken
    BY <1>2, <2>2 DEF BeginInvalid
  <2>3. ASSUME NEW p \in Producers, NEW s \in Slots, BeginRefused(p, s)
        PROVE  \A t \in Slots : published'[t] # taken
    BY <1>4, <2>3 DEF BeginRefused, store
  <2> QED BY <1>5, <2>1, <2>2, <2>3 DEF Begin
<1>6. ASSUME NEW p \in Producers, NEW t \in Targets, NEW lease \in Leases \cup {NoLease},
             Publish(p, t[1], t[2], lease)
      PROVE  \A s \in Slots : published'[s] # taken
  <2> DEFINE next == [form |-> held[p].form, gen |-> held[p].gen,
                      capture |-> captureSeq', color |-> t[1], depth |-> t[2],
                      lease |-> lease]
  <2>1. captureSeq' = captureSeq + 1 /\ captureSeq \in Nat
    BY <1>6 DEF Publish, AdvanceCapture, TypeOK
  <2>2. taken.capture \in Nat /\ taken.capture <= captureSeq
    BY DEF TypeOK, Frames, HistoryInv, HistoryBounded
  <2>3. next.capture = captureSeq'
    OBVIOUS
  <2>4. published' = [published EXCEPT ![held[p].slot] = next]
    BY <1>6 DEF Publish
  <2> HIDE DEF next
  <2>5. next # taken
    BY <2>1, <2>2, <2>3
  <2>6. \A s \in Slots : published'[s] \in {published[s], next}
    BY <2>4 DEF TypeOK
  <2> QED BY <2>5, <2>6
<1>7. ASSUME Finish PROVE \A s \in Slots : published'[s] # taken
  <2>1. ASSUME NEW p \in Producers, CancelReflectedAttempt(p)
        PROVE  \A s \in Slots : published'[s] # taken
    BY <1>4, <2>1 DEF CancelReflectedAttempt, store
  <2>2. ASSUME NEW p \in Producers, NEW t \in Targets, NEW lease \in Leases \cup {NoLease},
               PublishExhausted(p, t[1], t[2], lease)
        PROVE  \A s \in Slots : published'[s] # taken
    BY <1>3, <2>2 DEF PublishExhausted
  <2>3. ASSUME NEW p \in Producers, NEW t \in Targets, NEW lease \in Leases \cup {NoLease},
               PublishOutOfMemory(p, t[1], t[2], lease)
        PROVE  \A s \in Slots : published'[s] # taken
    BY <1>4, <2>3 DEF PublishOutOfMemory, store
  <2> QED BY <1>6, <1>7, <2>1, <2>2, <2>3 DEF Finish
<1>8. ASSUME Revoke PROVE \A s \in Slots : published'[s] # taken
  BY <1>2, <1>3, <1>8 DEF Revoke, Invalidate, ConfigureMultiMirror, InvalidateSlot,
     InvalidateCandidate, InvalidateExact, RetireExactForSuccessor
<1>9. ASSUME Consume PROVE \A s \in Slots : published'[s] # taken
  BY <1>4, <1>9 DEF Consume, TakeSnapshot, store
<1> QED BY <1>5, <1>7, <1>8, <1>9 DEF Next

\* A key whose frame is gone never matches again, however long the consumer
\* keeps it and whatever is published meanwhile: a late revocation is harmless.
THEOREM StaleKeysStayStale == Spec => StaleKeyFindsNothing
<1>1. IInv /\ [Next]_vars =>
        [taken # NoFrame /\ taken' = taken /\ (\A s \in Slots : published[s] # taken)
           => \A s \in Slots : published'[s] # taken]_vars
  BY NextBringsNothingBack DEF IInv
<1> QED BY <1>1, InductiveInvariant, PTL DEF Spec, StaleKeyFindsNothing

\* After exhaustion frames only go away.
THEOREM ExhaustionStopsPublishing == Spec => ExhaustionIsTerminal
<1>1. TypeOK /\ [Next]_vars => [exhausted =>
         \A s \in Slots : published'[s] \in {published[s], NoFrame}]_vars
  <2> SUFFICES ASSUME TypeOK, Next, exhausted
               PROVE  \A s \in Slots : published'[s] \in {published[s], NoFrame}
    OBVIOUS
  <2>1. ASSUME NEW S, DropSlots(S)
        PROVE  \A s \in Slots : published'[s] \in {published[s], NoFrame}
    BY <2>1, DropSlotsType
  <2>2. CASE Begin
    <3>1. ASSUME NEW p \in Producers, NEW s \in Slots, NEW zero \in BOOLEAN,
                 BeginInvalid(p, s, zero)
          PROVE  \A t \in Slots : published'[t] \in {published[t], NoFrame}
      BY <2>1, <3>1 DEF BeginInvalid
    <3>2. ASSUME NEW p \in Producers, NEW s \in Slots, BeginRefused(p, s)
          PROVE  published' = published
      BY <3>2 DEF BeginRefused, store
    <3>3. ASSUME NEW p \in Producers, NEW s \in Slots, NEW f \in Forms, NEW g \in Gens,
                 NEW preserve \in BOOLEAN, BeginReflectedAttempt(p, f, g, preserve, s)
          PROVE  FALSE
      BY <3>3 DEF BeginReflectedAttempt
    <3> QED BY <2>2, <3>1, <3>2, <3>3 DEF Begin
  <2>3. CASE Finish
    <3>1. ASSUME NEW p \in Producers, CancelReflectedAttempt(p) PROVE published' = published
      BY <3>1 DEF CancelReflectedAttempt, store
    <3>2. ASSUME NEW p \in Producers, NEW t \in Targets, NEW lease \in Leases \cup {NoLease},
                 PublishExhausted(p, t[1], t[2], lease)
          PROVE  \A s \in Slots : published'[s] = NoFrame
      BY <3>2 DEF PublishExhausted, DropAll
    <3>3. ~AdvanceCapture
      BY DEF AdvanceCapture
    <3>4. ASSUME NEW p \in Producers, NEW t \in Targets, NEW lease \in Leases \cup {NoLease}
          PROVE  /\ ~PublishOutOfMemory(p, t[1], t[2], lease)
                 /\ ~Publish(p, t[1], t[2], lease)
      BY <3>3 DEF PublishOutOfMemory, Publish
    <3>5. PICK p \in Producers :
            \/ CancelReflectedAttempt(p)
            \/ \E t \in Targets, lease \in Leases \cup {NoLease} :
                 PublishExhausted(p, t[1], t[2], lease)
      BY <2>3, <3>4 DEF Finish
    <3>6. (\A s \in Slots : published'[s] = NoFrame) \/ published' = published
      BY <3>1, <3>2, <3>5
    <3> QED BY <3>6
  <2>4. CASE Revoke
    BY <2>1, <2>4 DEF Revoke, Invalidate, ConfigureMultiMirror, DropAll, InvalidateSlot,
       InvalidateCandidate, InvalidateExact, RetireExactForSuccessor
  <2>5. CASE Consume
    BY <2>5 DEF Consume, TakeSnapshot, store
  <2> QED BY <2>2, <2>3, <2>4, <2>5 DEF Next
<1> QED BY <1>1, TypeCorrect, PTL DEF Spec, ExhaustionIsTerminal

-----------------------------------------------------------------------------
(* FramePublication implements FrameStore, for every value of its           *)
(* constants: each of its steps is an Authorise, Complete or Drop of the     *)
(* abstract store, or changes nothing it can see.                            *)

\* What the mapping shows of a slot and of the live token.
LEMMA MappedValues ==
  ASSUME TypeOK
  PROVE  /\ DOMAIN shown = Slots
         /\ \A s \in Slots : Visible(s) =>
              /\ shown[s] = [mirror |-> MirrorOf(published[s]),
                             textures |-> ResourcesOf(published[s])]
              /\ shown[s] # NoFrame
              /\ shown[s].mirror = MirrorOf(published[s])
              /\ shown[s].textures = ResourcesOf(published[s])
         /\ \A s \in Slots : ~Visible(s) => shown[s] = NoFrame
         /\ active # NoToken =>
              /\ granted = [mirror |-> MirrorOf(active), slot |-> active.slot]
              /\ granted # NoToken
              /\ granted.slot = active.slot /\ granted.slot \in Slots
              /\ granted.mirror = MirrorOf(active)
         /\ active = NoToken => granted = NoToken
<1>1. ASSUME NEW s \in Slots, Visible(s)
      PROVE  /\ shown[s] = [mirror |-> MirrorOf(published[s]),
                            textures |-> ResourcesOf(published[s])]
             /\ shown[s] # NoFrame
  <2>1. /\ published[s].form \in Forms /\ published[s].gen \in Gens
        /\ ResourcesOf(published[s]) \subseteq Resources
    BY <1>1, VisibleIsFrame DEF Frames
  <2>2. MirrorOf(published[s]) \in [form : Forms, gen : Gens]
    BY <2>1 DEF MirrorOf
  <2>3. shown[s] = [mirror |-> MirrorOf(published[s]),
                    textures |-> ResourcesOf(published[s])]
    BY <1>1 DEF shown
  <2>4. shown[s] \in [mirror : [form : Forms, gen : Gens], textures : SUBSET Resources]
    BY <2>1, <2>2, <2>3
  <2> QED BY <2>3, <2>4, AbstractNothing
<1>2. ASSUME active # NoToken
      PROVE  /\ granted = [mirror |-> MirrorOf(active), slot |-> active.slot]
             /\ granted # NoToken
             /\ active.slot \in Slots
  <2>1. active.form \in Forms /\ active.gen \in Gens /\ active.slot \in Slots
    BY <1>2 DEF TypeOK, Tokens
  <2>2. MirrorOf(active) \in [form : Forms, gen : Gens]
    BY <2>1 DEF MirrorOf
  <2>3. granted = [mirror |-> MirrorOf(active), slot |-> active.slot]
    BY <1>2 DEF granted
  <2>4. granted \in [mirror : [form : Forms, gen : Gens], slot : Slots]
    BY <2>1, <2>2, <2>3
  <2> QED BY <2>1, <2>3, <2>4, AbstractNothing
<1> QED BY <1>1, <1>2 DEF shown, granted

\* Removing the frames of some slots, with or without the live token, is a Drop.
LEMMA RemovalIsDrop ==
  ASSUME TypeOK, TypeOK', NEW S \in SUBSET Slots, NEW withdraw \in BOOLEAN,
         \A s \in Slots : published'[s] = IF s \in S THEN NoFrame ELSE published[s],
         active' = IF withdraw \/ (active # NoToken /\ active.slot \in S)
                   THEN NoToken ELSE active
  PROVE  Store!Drop(S, withdraw)
<1>1. shown' = [s \in Slots |-> IF s \in S THEN NoFrame ELSE shown[s]]
  BY DEF shown, Visible
<1>2. granted' = IF withdraw \/ (granted # NoToken /\ granted.slot \in S)
                 THEN NoToken ELSE granted
  <2>1. CASE active = NoToken
    BY <2>1 DEF granted
  <2>2. CASE active # NoToken
    <3>1. granted # NoToken /\ granted.slot = active.slot
      BY <2>2, MappedValues
    <3> QED BY <2>2, <3>1 DEF granted
  <2> QED BY <2>1, <2>2
<1> QED BY <1>1, <1>2 DEF Store!Drop

\* A step that leaves the frames and the live token alone is invisible.
LEMMA SilentStep ==
  ASSUME published' = published, active' = active
  PROVE  UNCHANGED <<shown, granted>>
BY DEF shown, granted, Visible

\* InvalidateSlotLocked, for any set of slots, is a Drop.
LEMMA DropSlotsIsDrop ==
  ASSUME TypeOK, TypeOK', NEW S, DropSlots(S)
  PROVE  Store!StoreNext
<1> DEFINE dropped == S \cap 0 .. size - 1
<1>1. dropped \in SUBSET Slots
  BY ConstantsAssumption DEF TypeOK, Slots
<1>2. /\ \A s \in Slots : published'[s] = IF s \in dropped THEN NoFrame ELSE published[s]
      /\ active' = IF FALSE \/ (active # NoToken /\ active.slot \in dropped)
                   THEN NoToken ELSE active
  BY DEF DropSlots
<1> HIDE DEF dropped
<1>3. Store!Drop(dropped, FALSE)
  BY <1>1, <1>2, RemovalIsDrop
<1> QED BY <1>1, <1>3 DEF Store!StoreNext

\* Clearing the store and the live token is a Drop of every slot.
LEMMA DropAllIsDrop ==
  ASSUME TypeOK, TypeOK', DropAll
  PROVE  Store!StoreNext
<1>1. /\ \A s \in Slots : published'[s] = IF s \in Slots THEN NoFrame ELSE published[s]
      /\ active' = IF TRUE \/ (active # NoToken /\ active.slot \in Slots)
                   THEN NoToken ELSE active
  BY DEF DropAll
<1>2. Store!Drop(Slots, TRUE)
  BY <1>1, RemovalIsDrop
<1> QED BY <1>2 DEF Store!StoreNext

\* A new token is an Authorise of its slot and mirror lifetime.
LEMMA BeginIsAuthorise ==
  ASSUME TypeOK, TypeOK', NEW p \in Producers, NEW f \in Forms, NEW g \in Gens,
         NEW preserve \in BOOLEAN, NEW s \in Slots,
         BeginReflectedAttempt(p, f, g, preserve, s)
  PROVE  Store!StoreNext
<1> DEFINE m == [form |-> f, gen |-> g]
           clear == ~(preserve /\ SameIdentity(s, f, g))
<1>1. m \in [form : Forms, gen : Gens]
  OBVIOUS
<1>2. active' = [form |-> f, gen |-> g, seq |-> attemptSeq', slot |-> s]
  BY DEF BeginReflectedAttempt
<1>3. active' # NoToken
  <2>1. held' = [held EXCEPT ![p] = active']
    BY <1>2 DEF BeginReflectedAttempt
  <2>2. attemptSeq' \in 1 .. MaxSeq
    <3>1. ~exhausted /\ \E n \in {1, 2} : AdvanceAttempt(n)
      BY DEF BeginReflectedAttempt
    <3>2. PICK n \in {1, 2} : AdvanceAttempt(n)
      BY <3>1
    <3>3. attemptSeq' \in 0 .. MaxSeq /\ attemptSeq' > 0
      BY <3>1, <3>2, AdvanceAttemptBounds
    <3> QED BY <3>3, ConstantsAssumption
  <2>3. active' \in Tokens
    BY <1>2, <2>2 DEF Tokens
  <2> QED BY <2>3, ConstantsAssumption
<1>4. granted' = [mirror |-> m, slot |-> s]
  BY <1>2, <1>3 DEF granted, MirrorOf
<1>5. published' = IF clear THEN [published EXCEPT ![s] = NoFrame] ELSE published
  BY DEF BeginReflectedAttempt
<1>6. shown' = IF clear THEN [shown EXCEPT ![s] = NoFrame] ELSE shown
  <2>1. CASE clear
    <3>1. published' = [published EXCEPT ![s] = NoFrame]
      BY <1>5, <2>1
    <3>2. published \in [Slots -> Frames \cup {NoFrame}]
      BY DEF TypeOK
    <3>3. \A t \in Slots : published'[t] = IF t = s THEN NoFrame ELSE published[t]
      BY <3>1, <3>2
    <3>4. shown' = [shown EXCEPT ![s] = NoFrame]
      BY <3>3 DEF shown, Visible
    <3> QED BY <2>1, <3>4
  <2>2. CASE ~clear
    BY <1>5, <2>2 DEF shown, Visible
  <2> QED BY <2>1, <2>2
<1> HIDE DEF clear
<1>7. Store!Authorise(s, m, TRUE) \/ Store!Authorise(s, m, FALSE)
  <2>1. CASE clear
    BY <1>4, <1>6, <2>1 DEF Store!Authorise
  <2>2. CASE ~clear /\ Visible(s)
    <3>1. published[s].form = f /\ published[s].gen = g
      BY <2>2 DEF clear, SameIdentity
    <3>2. shown[s] # NoFrame /\ shown[s].mirror = m
      BY <2>2, <3>1, MappedValues DEF MirrorOf
    <3> QED BY <1>4, <1>6, <2>2, <3>2 DEF Store!Authorise, Store!Shows
  <2>3. CASE ~clear /\ ~Visible(s)
    <3>1. shown[s] = NoFrame /\ DOMAIN shown = Slots /\ shown = [t \in Slots |-> shown[t]]
      BY <2>3, MappedValues DEF shown
    <3>2. [shown EXCEPT ![s] = NoFrame] = shown
      BY <3>1
    <3> QED BY <1>4, <1>6, <2>3, <3>2 DEF Store!Authorise
  <2> QED BY <2>1, <2>2, <2>3
<1> QED BY <1>1, <1>7 DEF Store!StoreNext

\* A publication is a Complete of the token's slot and mirror.
LEMMA PublishIsComplete ==
  ASSUME IInv, IInv', NEW p \in Producers, NEW color \in Resources,
         NEW depth \in Resources \cup {NoResource}, NEW lease \in Leases \cup {NoLease},
         Publish(p, color, depth, lease)
  PROVE  Store!StoreNext
<1> DEFINE t == held[p]
           next == [form |-> t.form, gen |-> t.gen, capture |-> captureSeq',
                    color |-> color, depth |-> depth, lease |-> lease]
           textures == ResourcesOf(next)
<1>1. TypeOK /\ TypeOK' /\ IndexExact
  BY DEF IInv, StoreInv
<1>2. /\ t \in Tokens /\ t.slot \in Slots /\ t = active /\ active # NoToken
      /\ next \in Frames
  BY <1>1, PublishFacts
<1>3. published' = [published EXCEPT ![t.slot] = next] /\ active' = NoToken
  BY DEF Publish
<1>4. next # NoFrame
  BY <1>2, ConstantsAssumption
<1>5. textures \in SUBSET Resources /\ textures = {color, depth} \ {NoResource}
  BY DEF ResourcesOf
<1>6. MirrorOf(next) = MirrorOf(t)
  BY DEF MirrorOf
<1>7. /\ granted # NoToken /\ granted.slot = t.slot /\ granted.mirror = MirrorOf(t)
      /\ granted' = NoToken
  BY <1>1, <1>2, <1>3, MappedValues DEF granted
<1>8. shown' = [shown EXCEPT ![t.slot] = [mirror |-> MirrorOf(t), textures |-> textures]]
  <2>1. published \in [Slots -> Frames \cup {NoFrame}]
    BY <1>1 DEF TypeOK
  <2> HIDE DEF next, t, textures
  <2>2. \A s \in Slots : published'[s] = IF s = t.slot THEN next ELSE published[s]
    BY <1>2, <1>3, <2>1
  <2>3. \A s \in Slots : shown'[s] = IF s = t.slot
                                     THEN [mirror |-> MirrorOf(next), textures |-> ResourcesOf(next)]
                                     ELSE shown[s]
    BY <1>4, <2>2 DEF shown, Visible
  <2>4. DOMAIN shown' = Slots /\ shown' = [s \in Slots |-> shown'[s]]
    BY DEF shown
  <2>5. DOMAIN shown = Slots
    BY DEF shown
  <2>6. textures = ResourcesOf(next)
    BY DEF textures
  <2> QED BY <1>6, <2>3, <2>4, <2>5, <2>6
<1>9. Store!Exclusive(t.slot, MirrorOf(t), textures)
  <2> SUFFICES ASSUME NEW s \in Slots \ {t.slot}, shown[s] # NoFrame
               PROVE  /\ shown[s].mirror.form # MirrorOf(t).form
                      /\ shown[s].textures \cap textures = {}
    BY DEF Store!Exclusive
  <2>1. /\ Visible(s)
        /\ shown[s].mirror = MirrorOf(published[s])
        /\ shown[s].textures = ResourcesOf(published[s])
    BY <1>1, MappedValues
  <2>2. /\ byForm[t.form] \in {NoSlot, t.slot}
        /\ \A r \in {color, depth} \ {NoResource} : byResource[r] \in {NoSlot, t.slot}
    BY DEF Publish, PublishAllowed
  <2>3. s # NoSlot
    BY ConstantsAssumption
  <2>4. published[s].form # t.form
    <3>1. published[s].form \in Forms
      BY <1>1, <2>1, VisibleIsFrame
    <3>2. byForm[published[s].form] = s
      BY <1>1, <2>1, <3>1 DEF IndexExact
    <3> QED BY <2>2, <2>3, <3>2
  <2>5. ResourcesOf(published[s]) \cap textures = {}
    <3>1. ASSUME NEW r \in ResourcesOf(published[s]), r \in textures PROVE FALSE
      <4>1. r \in Resources
        BY <1>1, <2>1, VisibleIsFrame
      <4>2. byResource[r] = s
        BY <1>1, <2>1, <4>1 DEF IndexExact
      <4> QED BY <1>5, <2>2, <2>3, <3>1, <4>2
    <3> QED BY <3>1
  <2> QED BY <2>1, <2>4, <2>5 DEF MirrorOf
<1>10. Store!Complete(textures)
  BY <1>7, <1>8, <1>9 DEF Store!Complete
<1> QED BY <1>5, <1>10 DEF Store!StoreNext

\* Every step of the store is a step of the abstract store or invisible to it.
LEMMA StepRefines ==
  ASSUME IInv, IInv', Next
  PROVE  [Store!StoreNext]_<<shown, granted>>
<1>1. TypeOK /\ TypeOK'
  BY DEF IInv
<1>2. CASE Begin
  <2>1. ASSUME NEW p \in Producers, NEW s \in Slots, NEW zero \in BOOLEAN,
               BeginInvalid(p, s, zero)
        PROVE  Store!StoreNext
    BY <1>1, <2>1, DropSlotsIsDrop DEF BeginInvalid
  <2>2. ASSUME NEW p \in Producers, NEW s \in Slots, BeginRefused(p, s)
        PROVE  UNCHANGED <<shown, granted>>
    BY <2>2, SilentStep DEF BeginRefused, store
  <2>3. ASSUME NEW p \in Producers, NEW s \in Slots, NEW f \in Forms, NEW g \in Gens,
               NEW preserve \in BOOLEAN, BeginReflectedAttempt(p, f, g, preserve, s)
        PROVE  Store!StoreNext
    BY <1>1, <2>3, BeginIsAuthorise
  <2> QED BY <1>2, <2>1, <2>2, <2>3 DEF Begin
<1>3. CASE Finish
  <2>1. ASSUME NEW p \in Producers, CancelReflectedAttempt(p) PROVE Store!StoreNext
    <3>1. /\ \A s \in Slots : published'[s] = IF s \in {} THEN NoFrame ELSE published[s]
          /\ active' = IF TRUE \/ (active # NoToken /\ active.slot \in {})
                       THEN NoToken ELSE active
      BY <2>1 DEF CancelReflectedAttempt, store
    <3>2. Store!Drop({}, TRUE)
      BY <1>1, <3>1, RemovalIsDrop
    <3> QED BY <3>2 DEF Store!StoreNext
  <2>2. ASSUME NEW p \in Producers, NEW t \in Targets, NEW lease \in Leases \cup {NoLease}
        PROVE  PublishExhausted(p, t[1], t[2], lease) => Store!StoreNext
    BY <1>1, DropAllIsDrop DEF PublishExhausted
  <2>3. ASSUME NEW p \in Producers, NEW t \in Targets, NEW lease \in Leases \cup {NoLease}
        PROVE  PublishOutOfMemory(p, t[1], t[2], lease) => UNCHANGED <<shown, granted>>
    BY SilentStep DEF PublishOutOfMemory, store
  <2>4. ASSUME NEW p \in Producers, NEW t \in Targets, NEW lease \in Leases \cup {NoLease}
        PROVE  Publish(p, t[1], t[2], lease) => Store!StoreNext
    BY PublishIsComplete DEF Targets
  <2> QED BY <1>3, <2>1, <2>2, <2>3, <2>4 DEF Finish
<1>4. CASE Revoke
  <2>1. Invalidate \/ ConfigureMultiMirror => Store!StoreNext
    BY <1>1, DropAllIsDrop DEF Invalidate, ConfigureMultiMirror
  <2>2. ASSUME NEW s \in Slots, InvalidateSlot(s) PROVE Store!StoreNext
    BY <1>1, <2>2, DropSlotsIsDrop DEF InvalidateSlot
  <2>3. ASSUME NEW f \in Forms, InvalidateCandidate(f) PROVE Store!StoreNext
    BY <1>1, <2>3, DropSlotsIsDrop DEF InvalidateCandidate
  <2>4. InvalidateExact => Store!StoreNext
    BY <1>1, DropSlotsIsDrop DEF InvalidateExact
  <2>5. RetireExactForSuccessor => Store!StoreNext
    BY <1>1, DropSlotsIsDrop DEF RetireExactForSuccessor
  <2> QED BY <1>4, <2>1, <2>2, <2>3, <2>4, <2>5 DEF Revoke
<1>5. CASE Consume
  BY <1>5, SilentStep DEF Consume, TakeSnapshot, store
<1> QED BY <1>2, <1>3, <1>4, <1>5 DEF Next

\* The publication store keeps every promise of the abstract store, whatever the
\* number of slots, mirrors, textures and producers: a frame shows only after the
\* one producer with authority completed it for its own slot and mirror lifetime.
THEOREM StoreRefinement == Spec => ImplementsFrameStore
<1>1. Init => Store!StoreInit
  BY DEF Init, Store!StoreInit, shown, granted, Visible
<1>2. IInv /\ IInv' /\ [Next]_vars => [Store!StoreNext]_<<shown, granted>>
  <2>1. ASSUME UNCHANGED vars PROVE UNCHANGED <<shown, granted>>
    BY <2>1, SilentStep DEF vars
  <2> QED BY <2>1, StepRefines
<1> QED BY <1>1, <1>2, InductiveInvariant, PTL
    DEF Spec, ImplementsFrameStore, Store!StoreSpec, Store!storeVars

=============================================================================
