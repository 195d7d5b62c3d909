-------------------------- MODULE FramePublication --------------------------
(***************************************************************************)
(* The publication store of completed reflection frames                    *)
(* (src/src/MirrorFramePublication.cpp).  A producer obtains a token for    *)
(* one slot, renders, and publishes one frame; consumers copy frames and    *)
(* may later revoke exactly the frame they copied.  Every public function   *)
(* runs under one SRW lock, so every action below is one function.          *)
(*                                                                         *)
(* The geometry and texture checks of a payload are abstracted: a refused  *)
(* payload returns before the lock and changes nothing.                     *)
(***************************************************************************)
EXTENDS Naturals, FiniteSets

CONSTANTS Forms,      \* nonzero mirror form IDs
          Gens,       \* nonzero generations of a form
          SlotCount,  \* slots 0 .. SlotCount-1 a scheduler may hand out
          Resources,  \* non-null D3D resource identities
          Leases,     \* nonzero owner leases of the hand/wall arbiter
          Producers,  \* capture stack frames that keep a token
          MaxSeq,     \* the largest value of the 64-bit sequences
          NoFrame, NoToken, NoSlot, NoResource, NoLease

Slots == 0 .. SlotCount - 1
Tokens == [form : Forms, gen : Gens, seq : 1 .. MaxSeq, slot : Slots]
Frames == [form : Forms, gen : Gens, capture : 1 .. MaxSeq,
           color : Resources, depth : Resources \cup {NoResource},
           lease : Leases \cup {NoLease}]

ASSUME ConstantsAssumption ==
  /\ SlotCount \in Nat \ {0}
  /\ MaxSeq \in Nat \ {0}
  /\ NoSlot \notin Slots
  /\ NoFrame \notin Frames
  /\ NoToken \notin Tokens
  /\ NoResource \notin Resources
  /\ NoLease \notin Leases

\* The values that mean "nothing" in the abstract store are no data there either.
ASSUME AbstractNothing ==
  /\ NoFrame \notin [mirror : [form : Forms, gen : Gens], textures : SUBSET Resources]
  /\ NoToken \notin [mirror : [form : Forms, gen : Gens], slot : Slots]

VARIABLES
  published,   \* g_published: the completed frame of each slot
  size,        \* g_published.size()
  byForm,      \* g_byForm: the slot that shows a form
  byResource,  \* g_byResource: the slot that owns a texture
  multiMirror, \* g_multiMirror
  active,      \* g_activeAttempt: the one live token
  attemptSeq,  \* g_attemptSequence
  captureSeq,  \* g_captureSequence
  nativeSeq,   \* g_nativePublicationSequence
  exhausted,   \* g_tokenExhausted
  held,        \* the token each producer still keeps
  taken,       \* the frame a consumer copied
  receipt      \* the last publication retired for a successor

store == <<published, size, byForm, byResource>>
counters == <<captureSeq, nativeSeq>>
clients == <<held, taken, receipt>>
vars == <<published, size, byForm, byResource, multiMirror, active, attemptSeq,
          captureSeq, nativeSeq, exhausted, held, taken, receipt>>

Init ==
  /\ published = [s \in Slots |-> NoFrame]
  /\ size = 0
  /\ byForm = [f \in Forms |-> NoSlot]
  /\ byResource = [r \in Resources |-> NoSlot]
  /\ multiMirror = FALSE
  /\ active = NoToken
  /\ attemptSeq = 0 /\ captureSeq = 0 /\ nativeSeq = 0
  /\ exhausted = FALSE
  /\ held = [p \in Producers |-> NoToken]
  /\ taken = NoFrame
  /\ receipt = NoFrame

-----------------------------------------------------------------------------
Visible(s) == published[s] # NoFrame
ResourcesOf(frame) == {frame.color, frame.depth} \ {NoResource}

\* AdvanceNonZero, n times on the attempt sequence: at the limit the value
\* stays and every sequence of the store is exhausted for good.
AdvanceAttempt(n) ==
  /\ attemptSeq' = CASE exhausted -> attemptSeq
                     [] ~exhausted /\ attemptSeq + n > MaxSeq -> MaxSeq
                     [] OTHER -> attemptSeq + n
  /\ exhausted' = (exhausted \/ attemptSeq + n > MaxSeq)

\* Mutant: the depth texture of a removed frame stays indexed.
UnindexColorOnly(S) ==
  /\ byForm' = [f \in Forms |->
       IF \E s \in S : Visible(s) /\ published[s].form = f
       THEN NoSlot ELSE byForm[f]]
  /\ byResource' = [r \in Resources |->
       IF \E s \in S : Visible(s) /\ r = published[s].color
       THEN NoSlot ELSE byResource[r]]

\* RemoveIndicesLocked for every frame of the slots S.
Unindex(S) ==
  /\ byForm' = [f \in Forms |->
       IF \E s \in S : Visible(s) /\ published[s].form = f
       THEN NoSlot ELSE byForm[f]]
  /\ byResource' = [r \in Resources |->
       IF \E s \in S : Visible(s) /\ r \in ResourcesOf(published[s])
       THEN NoSlot ELSE byResource[r]]

\* InvalidateSlotLocked on the slots S that exist: a live token of one of them
\* is revoked with it.
DropSlots(S) ==
  LET dropped == S \cap 0 .. size - 1
      hit == active # NoToken /\ active.slot \in dropped
  IN  /\ published' = [s \in Slots |-> IF s \in dropped THEN NoFrame ELSE published[s]]
      /\ size' = size
      /\ Unindex(dropped)
      /\ AdvanceAttempt(IF hit THEN 1 ELSE 0)
      /\ active' = IF hit THEN NoToken ELSE active

\* InvalidateLocked: the whole store and the live token.
DropAll ==
  /\ published' = [s \in Slots |-> NoFrame]
  /\ size' = 0
  /\ byForm' = [f \in Forms |-> NoSlot]
  /\ byResource' = [r \in Resources |-> NoSlot]
  /\ active' = NoToken

-----------------------------------------------------------------------------
\* BeginReflectedAttempt with form 0, generation 0, or after exhaustion.
BeginInvalid(p, s, zeroIdentity) ==
  /\ multiMirror \/ s = 0
  /\ zeroIdentity \/ exhausted
  /\ DropSlots({s})
  /\ held' = [held EXCEPT ![p] = NoToken]
  /\ UNCHANGED <<counters, multiMirror, taken, receipt>>

\* BeginReflectedAttempt refused without a change: a slot above 0 in
\* single-mirror mode, or no memory for a new slot.
BeginRefused(p, s) ==
  /\ (~multiMirror /\ s # 0) \/ (~exhausted /\ s >= size)
  /\ held' = [held EXCEPT ![p] = NoToken]
  /\ UNCHANGED <<store, counters, multiMirror, active, attemptSeq, exhausted,
                 taken, receipt>>

SameIdentity(s, f, g) ==
  Visible(s) => published[s].form = f /\ published[s].gen = g

\* Mutant: an attempt that may not keep its slot's frame clears the store, as
\* with a single mirror.
BeginClearingAll(p, f, g, preserve, s) ==
  LET clear == ~(preserve /\ SameIdentity(s, f, g))
      token == [form |-> f, gen |-> g, seq |-> attemptSeq', slot |-> s]
  IN  /\ multiMirror \/ s = 0
      /\ ~exhausted
      /\ AdvanceAttempt(1)
      /\ size' = IF s >= size THEN s + 1 ELSE size
      /\ IF clear
         THEN /\ published' = [t \in Slots |-> NoFrame]
              /\ Unindex(Slots)
         ELSE UNCHANGED <<published, byForm, byResource>>
      /\ active' = token
      /\ held' = [held EXCEPT ![p] = token]
      /\ UNCHANGED <<counters, multiMirror, taken, receipt>>

\* BeginReflectedAttempt: a new token; the completed frame survives only when
\* the caller asked for that and it is of the same mirror lifetime.
BeginReflectedAttempt(p, f, g, preserve, s) ==
  LET clear == ~(preserve /\ SameIdentity(s, f, g))
      hit == active # NoToken /\ active.slot = s
      token == [form |-> f, gen |-> g, seq |-> attemptSeq', slot |-> s]
  IN  /\ multiMirror \/ s = 0
      /\ ~exhausted
      /\ size' = IF s >= size THEN s + 1 ELSE size
      /\ AdvanceAttempt(IF clear /\ hit THEN 2 ELSE 1)
      /\ IF clear
         THEN /\ published' = [published EXCEPT ![s] = NoFrame]
              /\ Unindex({s})
         ELSE UNCHANGED <<published, byForm, byResource>>
      /\ active' = token
      /\ held' = [held EXCEPT ![p] = token]
      /\ UNCHANGED <<counters, multiMirror, taken, receipt>>

\* CancelReflectedAttempt: revokes the token the producer keeps, if it is live.
CancelReflectedAttempt(p) ==
  /\ held[p] # NoToken /\ held[p] = active
  /\ AdvanceAttempt(1)
  /\ active' = NoToken
  /\ UNCHANGED <<store, counters, multiMirror, clients>>

-----------------------------------------------------------------------------
\* The checks Publish makes under the lock.
PublishAllowed(p, color, depth, lease) ==
  LET t == held[p] IN
  /\ t # NoToken /\ t = active /\ t.slot < size
  /\ color # depth
  /\ lease # NoLease => depth # NoResource
  /\ byForm[t.form] \in {NoSlot, t.slot}
  /\ \A r \in {color, depth} \ {NoResource} : byResource[r] \in {NoSlot, t.slot}

\* Publish at the limit of the capture sequence: everything is revoked.
PublishExhausted(p, color, depth, lease) ==
  /\ PublishAllowed(p, color, depth, lease)
  /\ exhausted \/ captureSeq = MaxSeq
  /\ exhausted' = TRUE
  /\ attemptSeq' = attemptSeq
  /\ DropAll
  /\ UNCHANGED <<counters, multiMirror, clients>>

AdvanceCapture ==
  /\ ~exhausted /\ captureSeq < MaxSeq
  /\ captureSeq' = captureSeq + 1
  /\ nativeSeq' = nativeSeq + 1

\* Publish when the index inserts throw: PrepareIndicesLocked takes its inserts
\* back, the frame and the token stay, the sequence numbers are spent.
PublishOutOfMemory(p, color, depth, lease) ==
  /\ PublishAllowed(p, color, depth, lease)
  /\ AdvanceCapture
  /\ UNCHANGED <<store, multiMirror, active, attemptSeq, exhausted, clients>>

\* Publish: index the new frame, unindex what the old one alone had, consume
\* the token.
Publish(p, color, depth, lease) ==
  LET t == held[p]
      next == [form |-> t.form, gen |-> t.gen, capture |-> captureSeq',
               color |-> color, depth |-> depth, lease |-> lease]
      old == published[t.slot]
  IN  /\ PublishAllowed(p, color, depth, lease)
      /\ AdvanceCapture
      /\ published' = [published EXCEPT ![t.slot] = next]
      /\ byForm' = [f \in Forms |->
           CASE f = next.form -> t.slot
             [] f # next.form /\ old # NoFrame /\ old.form = f -> NoSlot
             [] OTHER -> byForm[f]]
      /\ byResource' = [r \in Resources |->
           CASE r \in ResourcesOf(next) -> t.slot
             [] r \notin ResourcesOf(next) /\ old # NoFrame /\ r \in ResourcesOf(old) -> NoSlot
             [] OTHER -> byResource[r]]
      /\ active' = NoToken
      /\ UNCHANGED <<size, multiMirror, attemptSeq, exhausted, clients>>

-----------------------------------------------------------------------------
\* Mutant: the emptied store numbers its captures anew.
InvalidateRenumbering ==
  /\ DropAll
  /\ AdvanceAttempt(1)
  /\ captureSeq' = 0 /\ nativeSeq' = 0
  /\ UNCHANGED <<multiMirror, clients>>

\* Invalidate, and every internal caller of InvalidateLocked outside Publish.
Invalidate ==
  /\ DropAll
  /\ AdvanceAttempt(1)
  /\ UNCHANGED <<counters, multiMirror, clients>>

\* ConfigureMultiMirror with a new mode.
ConfigureMultiMirror ==
  /\ multiMirror' = ~multiMirror
  /\ DropAll
  /\ AdvanceAttempt(1)
  /\ UNCHANGED <<counters, clients>>

InvalidateSlot(s) ==
  /\ DropSlots({s})
  /\ UNCHANGED <<counters, multiMirror, clients>>

\* InvalidateCandidate: the slot that shows the form, and the slot a live
\* attempt for the form writes.
InvalidateCandidate(f) ==
  /\ DropSlots({byForm[f]} \cup
               {s \in Slots : active # NoToken /\ active.form = f /\ active.slot = s})
  /\ UNCHANGED <<counters, multiMirror, clients>>

\* TryGetSnapshot / GetSnapshots: a consumer copies one frame.
TakeSnapshot(s) ==
  /\ Visible(s)
  /\ taken' = published[s]
  /\ UNCHANGED <<store, counters, multiMirror, active, attemptSeq, exhausted, held, receipt>>

\* InvalidateExact on the key of the copied frame; a key without a depth
\* texture is refused, a stale one finds nothing.
InvalidateExact ==
  /\ taken # NoFrame /\ taken.depth # NoResource
  /\ byForm[taken.form] # NoSlot
  /\ published[byForm[taken.form]] = taken
  /\ DropSlots({byForm[taken.form]})
  /\ UNCHANGED <<counters, multiMirror, clients>>

\* Mutant: the receipt is written before the invalidation, which is skipped
\* while an attempt is live.
RetireLeavingFrame ==
  /\ taken # NoFrame /\ taken.lease # NoLease
  /\ \E s \in Slots : published[s] = taken
  /\ receipt' = taken
  /\ UNCHANGED <<store, counters, multiMirror, active, attemptSeq, exhausted, held, taken>>

\* RetireExactForSuccessor on the bridge identity of the copied frame.
RetireExactForSuccessor ==
  /\ taken # NoFrame /\ taken.lease # NoLease
  /\ \E s \in Slots : /\ published[s] = taken
                      /\ DropSlots({s})
  /\ receipt' = taken
  /\ UNCHANGED <<counters, multiMirror, held, taken>>

-----------------------------------------------------------------------------
Targets == {t \in Resources \X (Resources \cup {NoResource}) : t[1] # t[2]}

Begin == \E p \in Producers, s \in Slots :
  \/ \E zero \in BOOLEAN : BeginInvalid(p, s, zero)
  \/ BeginRefused(p, s)
  \/ \E f \in Forms, g \in Gens, preserve \in BOOLEAN :
       BeginReflectedAttempt(p, f, g, preserve, s)
Finish == \E p \in Producers :
  \/ CancelReflectedAttempt(p)
  \/ \E t \in Targets, lease \in Leases \cup {NoLease} :
       \/ PublishExhausted(p, t[1], t[2], lease)
       \/ PublishOutOfMemory(p, t[1], t[2], lease)
       \/ Publish(p, t[1], t[2], lease)
Revoke ==
  \/ Invalidate
  \/ ConfigureMultiMirror
  \/ \E s \in Slots : InvalidateSlot(s)
  \/ \E f \in Forms : InvalidateCandidate(f)
  \/ InvalidateExact
  \/ RetireExactForSuccessor
Consume == \E s \in Slots : TakeSnapshot(s)

Next == Begin \/ Finish \/ Revoke \/ Consume
Spec == Init /\ [][Next]_vars

-----------------------------------------------------------------------------
\* The store keeps its types.
TypeOK ==
  /\ published \in [Slots -> Frames \cup {NoFrame}]
  /\ size \in 0 .. SlotCount
  /\ byForm \in [Forms -> Slots \cup {NoSlot}]
  /\ byResource \in [Resources -> Slots \cup {NoSlot}]
  /\ multiMirror \in BOOLEAN
  /\ active \in Tokens \cup {NoToken}
  /\ attemptSeq \in 0 .. MaxSeq
  /\ captureSeq \in 0 .. MaxSeq
  /\ nativeSeq \in 0 .. MaxSeq
  /\ exhausted \in BOOLEAN
  /\ held \in [Producers -> Tokens \cup {NoToken}]
  /\ taken \in Frames \cup {NoFrame}
  /\ receipt \in Frames \cup {NoFrame}

\* The two indices are exactly the forms and textures of the visible frames:
\* no failed insert, replacement or revocation leaves a stale or missing entry
\* ("All three stores are changed under g_lock in one transaction").
IndexExact ==
  /\ \A f \in Forms, s \in Slots :
       byForm[f] = s <=> Visible(s) /\ published[s].form = f
  /\ \A r \in Resources, s \in Slots :
       byResource[r] = s <=> Visible(s) /\ r \in ResourcesOf(published[s])

\* Two visible slots never show the same mirror and never share a texture, so
\* a capture of one mirror cannot repaint the image of another.
FramesDisjoint ==
  \A s, t \in Slots : s # t /\ Visible(s) /\ Visible(t) =>
    /\ published[s].form # published[t].form
    /\ ResourcesOf(published[s]) \cap ResourcesOf(published[t]) = {}

\* The slot of the live attempt shows nothing or the same mirror lifetime, so
\* InvalidateCandidate, which also clears that slot, never clears another
\* mirror's frame.
ActiveSlotOwnership ==
  active # NoToken =>
    /\ active.slot < size
    /\ Visible(active.slot) =>
         /\ published[active.slot].form = active.form
         /\ published[active.slot].gen = active.gen

\* Two producers never both keep the live token: starting an attempt revokes
\* the one before it.  After the sequence is exhausted the same token can be
\* issued twice (ExhaustionIsTerminal keeps that harmless).
SingleAuthority ==
  \A p, q \in Producers :
    p # q /\ held[p] # NoToken /\ held[p] = active /\ held[q] = active => exhausted

\* Every published frame has its own capture number, none from the future, so
\* "the latest snapshot" of TryGetSnapshot is one frame and a copied key names
\* one frame for ever.
CaptureOrder ==
  /\ \A s \in Slots : Visible(s) => published[s].capture <= captureSeq
  /\ \A s, t \in Slots : s # t /\ Visible(s) /\ Visible(t) =>
       published[s].capture # published[t].capture

\* A retirement receipt promises retiredPublicationNoLongerAcquirable: the
\* retired publication never shows again, whatever is published later.
ReceiptHonoured ==
  receipt # NoFrame => \A s \in Slots : published[s] # receipt

\* A consumer may keep a key for as long as it likes: once the frame it copied
\* is gone, no later publication, by whichever producer, for the same mirror and
\* slot and with the same textures, makes the key match again.  So a late
\* InvalidateExact clears no frame that its caller has not seen (the header:
\* "never clears a replacement frame").
StaleKeyFindsNothing ==
  [][taken # NoFrame /\ taken' = taken /\ (\A s \in Slots : published[s] # taken)
       => \A s \in Slots : published'[s] # taken]_vars

\* Once a sequence is exhausted no frame is ever published again, by any token.
ExhaustionIsTerminal ==
  [][exhausted => \A s \in Slots : published'[s] \in {published[s], NoFrame}]_vars

-----------------------------------------------------------------------------
MirrorOf(x) == [form |-> x.form, gen |-> x.gen]
shown == [s \in Slots |-> IF Visible(s) THEN [mirror |-> MirrorOf(published[s]),
                                              textures |-> ResourcesOf(published[s])]
                         ELSE NoFrame]
granted == IF active = NoToken THEN NoToken
           ELSE [mirror |-> MirrorOf(active), slot |-> active.slot]

Store == INSTANCE FrameStore WITH Mirrors <- [form : Forms, gen : Gens],
  Textures <- Resources, frames <- shown, authority <- granted

\* With its sequences, indices and early returns the store is still a FrameStore:
\* one producer with authority, frames completed once and for the mirror and slot
\* that was asked for, no mirror and no texture shown twice.
ImplementsFrameStore == Store!StoreSpec
=============================================================================
