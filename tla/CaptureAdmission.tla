--------------------------- MODULE CaptureAdmission --------------------------
(***************************************************************************)
(* Admission of a standing mirror to private rendering: the warm-up gate   *)
(* of every slot (src/src/MirrorCaptureAdmission.h, Gate), fed with the    *)
(* sample serials of the fleet (src/src/MirrorFleetPolicy.h,               *)
(* AdmissionSequence), as the driver of src/src/SecondView.cpp uses both   *)
(* when the fleet is enabled.  Gates belong to slots, serials to mirrors,  *)
(* and each of the two lists may fail to follow a change of the fleet.     *)
(*                                                                         *)
(* The geometry of a sample is the verdict the driver draws from it: clear,*)
(* unsafe, or not to be had.  Time and sequences do not run backwards (a   *)
(* steady clock, a counter) and the fleet's policy has no limit on the     *)
(* time between two samples, so the gate's last time decides nothing.      *)
(***************************************************************************)
EXTENDS Integers, FiniteSets

CONSTANTS Mirrors,    \* identities of mirrors: form and generation
          Roots,      \* roots of the player's body
          Slots,
          MinSamples, \* minimumStableSamples
          MinTime,    \* minimumStableMilliseconds
          MaxSource,  \* bound on the sources TLC explores
          Vacant      \* no mirror

ASSUME AdmissionConstants ==
  /\ Vacant \notin Mirrors \cup Slots
  /\ MinSamples \in Nat \ {0}
  /\ MinTime \in Nat
  /\ MaxSource \in Nat \ {0}

Identities == [mirror : Mirrors, root : Roots]
Sources == 1 .. MaxSource
Entries == [source : Nat, serial : Nat]

VARIABLES
  source,  \* g_mainWorldInvocationSourceSequence; a source takes a unit of time
  root,    \* the body root a sample would see
  owner,   \* the identities of the scheduler's slots
  fleet,   \* the fleet's entry of each mirror it follows
  gate,    \* g_multiMirrorAdmissionGates
  passing, \* the slot whose capture an accepted evaluation has begun
  streak   \* for each mirror, the clear samples since the last other one

vars == <<source, root, owner, fleet, gate, passing, streak>>

NoGate == [tracking |-> FALSE]
Gates == {NoGate} \cup
  [tracking : {TRUE}, identity : Identities, first : Sources,
   sequence : Nat, stable : Nat, accepted : BOOLEAN]

NoStreak == [samples |-> 0]
Streaks == {NoStreak} \cup
  [samples : Nat \ {0}, since : Sources, last : Sources, root : Roots]

Init ==
  /\ source = 1
  /\ root \in Roots
  /\ owner = [s \in Slots |-> Vacant]
  /\ fleet = [m \in {} |-> [source |-> 0, serial |-> 0]]
  /\ gate = [s \in Slots |-> NoGate]
  /\ passing = Vacant
  /\ streak = [m \in Mirrors |-> NoStreak]

Accepted(g) == g # NoGate /\ g.accepted

-----------------------------------------------------------------------------
\* Gate::Reset, under the admission lock.
Reset(s) == gate' = [gate EXCEPT ![s] = NoGate]

\* AdmissionSequence: the number of the mirror's samples, one for each source
\* that asks; 0 for a mirror the fleet does not follow.
Serial(m) ==
  IF m \notin DOMAIN fleet THEN 0
  ELSE IF fleet[m].source = source THEN fleet[m].serial
  ELSE fleet[m].serial + 1

Sampled(m) ==
  fleet' = [x \in DOMAIN fleet |->
             IF x = m THEN [source |-> source, serial |-> Serial(m)] ELSE fleet[x]]

\* Mutant: the body the sample saw is no part of the identity.
SampleOfMirror(m) == [mirror |-> m, root |-> CHOOSE r \in Roots : TRUE]

SampleIdentity(m) == [mirror |-> m, root |-> root]

\* Mutant: a source that is evaluated again is a gap in the samples.
FollowedOnce(g, m) ==
  LET id == SampleIdentity(m)
      serial == Serial(m)
  IN  IF g # NoGate /\ g.identity = id /\ serial = g.sequence + 1
      THEN [g EXCEPT !.sequence = serial, !.stable = @ + 1]
      ELSE [tracking |-> TRUE, identity |-> id, first |-> source,
            sequence |-> serial, stable |-> 1, accepted |-> FALSE]

\* Evaluate on a clear sample: the same sample again, the next one, or the
\* first of a new warm-up.
Followed(g, m) ==
  LET id == SampleIdentity(m)
      serial == Serial(m)
      known == g # NoGate /\ g.identity = id
  IN  CASE known /\ serial = g.sequence -> g
        [] known /\ serial = g.sequence + 1 ->
             [g EXCEPT !.sequence = serial, !.stable = @ + 1]
        [] OTHER ->
             [tracking |-> TRUE, identity |-> id, first |-> source,
              sequence |-> serial, stable |-> 1, accepted |-> FALSE]

Admitted(g) ==
  [g EXCEPT !.accepted =
    @ \/ (g.stable >= MinSamples /\ source - g.first >= MinTime)]

\* What the samples of a mirror have shown, after one more clear one; not in the
\* code.
Lengthened(k) ==
  IF k = NoStreak \/ k.root # root
  THEN [samples |-> 1, since |-> source, last |-> source, root |-> root]
  ELSE IF k.last = source THEN k
  ELSE [k EXCEPT !.samples = @ + 1, !.last = source]
Clear(m) == streak' = [streak EXCEPT ![m] = Lengthened(@)]
Broken(m) == streak' = [streak EXCEPT ![m] = NoStreak]

-----------------------------------------------------------------------------
NextSource ==
  /\ passing = Vacant
  /\ source < MaxSource
  /\ source' = source + 1
  /\ UNCHANGED <<root, owner, fleet, gate, passing, streak>>

\* The player's body is built anew.
ReloadBody ==
  /\ root' \in Roots \ {root}
  /\ UNCHANGED <<source, owner, fleet, gate, passing, streak>>

\* ReconcileMirrorSlots: a mirror that stays keeps its slot, and the gate of a
\* slot that changes hands is reset.
SlotsChanged(identities) ==
  /\ owner' \in [Slots -> identities \cup {Vacant}]
  /\ \A s \in Slots : owner[s] \in identities => owner'[s] = owner[s]
  /\ \A s, t \in Slots : owner'[s] = owner'[t] /\ s # t => owner'[s] = Vacant
  /\ gate' = [s \in Slots |-> IF owner'[s] = owner[s] THEN gate[s] ELSE NoGate]

\* Fleet::Reconcile: entries of new mirrors first, then mirrors that are gone
\* are forgotten.
FleetFollows(followed) ==
  fleet' = [m \in followed |->
             IF m \in DOMAIN fleet THEN fleet[m] ELSE [source |-> 0, serial |-> 0]]

\* The fence offers the mirrors that recognition found.  When memory runs out,
\* the slots stay as they are, and the fleet forgets nothing and may lack some.
Reconcile(identities) ==
  /\ passing = Vacant
  /\ SlotsChanged(identities) \/ UNCHANGED <<owner, gate>>
  /\ \/ FleetFollows(identities)
     \/ \E some \in SUBSET identities : FleetFollows(DOMAIN fleet \cup some)
  /\ UNCHANGED <<source, root, passing, streak>>

\* The location, the near plane or the body of a planned mirror cannot be had
\* or is wrong: no sample is taken.
NoSample(s) ==
  /\ passing \in {Vacant, s}
  /\ owner[s] # Vacant
  /\ Reset(s)
  /\ Broken(owner[s])
  /\ passing' = Vacant
  /\ UNCHANGED <<source, root, owner, fleet>>

\* Evaluate or Revalidate on a sample that is not clear.
Unsafe(s) ==
  /\ passing \in {Vacant, s}
  /\ owner[s] # Vacant
  /\ Sampled(owner[s])
  /\ Reset(s)
  /\ Broken(owner[s])
  /\ passing' = Vacant
  /\ UNCHANGED <<source, root, owner>>

\* Evaluate on a clear sample; a mirror the fleet does not follow has serial 0,
\* which is invalid.  The fence only prepares; a pass goes on to capture.
Evaluate(s) ==
  LET m == owner[s]
      g == Admitted(Followed(gate[s], m))
  IN  /\ passing = Vacant
      /\ m # Vacant
      /\ Sampled(m)
      /\ Clear(m)
      /\ IF Serial(m) = 0 THEN Reset(s) /\ UNCHANGED passing
         ELSE /\ gate' = [gate EXCEPT ![s] = g]
              /\ passing' \in {Vacant} \cup {t \in {s} : g.accepted}
      /\ UNCHANGED <<source, root, owner>>

\* Mutant: whoever the gate has admitted.
HoldsAny(s) == Accepted(gate[s])

\* What Revalidate asks of the gate.
Holds(s) ==
  /\ Accepted(gate[s])
  /\ gate[s].identity = SampleIdentity(owner[s])
  /\ gate[s].sequence = Serial(owner[s])

\* The last look before the private rendering begins.
Revalidate(s) ==
  /\ passing = s
  /\ Sampled(owner[s])
  /\ Clear(owner[s])
  /\ IF Holds(s) THEN UNCHANGED gate ELSE Reset(s)
  /\ passing' = Vacant
  /\ UNCHANGED <<source, root, owner>>

\* The pass ends for a reason of its own.
Abandon ==
  /\ passing # Vacant
  /\ passing' = Vacant
  /\ UNCHANGED <<source, root, owner, fleet, gate, streak>>

Next ==
  \/ NextSource \/ ReloadBody \/ Abandon
  \/ \E identities \in SUBSET Mirrors : Reconcile(identities)
  \/ \E s \in Slots : NoSample(s) \/ Unsafe(s) \/ Evaluate(s) \/ Revalidate(s)

Spec == Init /\ [][Next]_vars

-----------------------------------------------------------------------------
\* Every variable has the type of its C++ counterpart, and a gate that was
\* reset keeps nothing.
TypeOK ==
  /\ source \in Sources
  /\ root \in Roots
  /\ owner \in [Slots -> Mirrors \cup {Vacant}]
  /\ DOMAIN fleet \subseteq Mirrors
  /\ fleet \in [DOMAIN fleet -> Entries]
  /\ gate \in [Slots -> Gates]
  /\ passing \in Slots \cup {Vacant}
  /\ streak \in [Mirrors -> Streaks]

\* An open gate was earned: since the last time the mirror was unsafe, or its
\* surroundings unknown, it has had the required number of clear samples, of
\* different sources, over the required time, all with the body the gate knows.
\* Lists that run out of memory and mirrors that change slots do not matter.
Earned(m, r) ==
  /\ streak[m] # NoStreak
  /\ streak[m].root = r
  /\ streak[m].samples >= MinSamples
  /\ streak[m].last - streak[m].since >= MinTime

AdmissionEarned ==
  \A s \in Slots : Accepted(gate[s]) =>
    Earned(gate[s].identity.mirror, gate[s].identity.root)

\* Two gates never know the same mirror, so one mirror's history is in one place.
OneGatePerMirror ==
  \A s, t \in Slots :
    gate[s] # NoGate /\ gate[t] # NoGate /\ s # t =>
      gate[s].identity.mirror # gate[t].identity.mirror

\* Private rendering begins only for a mirror that earned it with the body there
\* is now, on a sample of this very source.
DispatchEarned ==
  [][\A s \in Slots : Revalidate(s) /\ Holds(s) =>
       Earned(owner[s], root) /\ streak[owner[s]].last = source]_vars

\* The warm-up does not start again while the mirror stays clear: however often a
\* source is evaluated and however many sources pass between two samples, an open
\* gate closes only when its slot changes hands, a sample is not clear, the body
\* changes, or the fleet lost the mirror's serial.
NoSpuriousRestart ==
  [][\A s \in Slots :
       LET m == gate[s].identity.mirror
       IN  Accepted(gate[s]) /\ ~Accepted(gate'[s]) =>
             \/ owner'[s] # owner[s]
             \/ streak'[m] = NoStreak
             \/ streak'[m].root # gate[s].identity.root
             \/ m \notin DOMAIN fleet
             \/ fleet[m].serial < gate[s].sequence]_vars
=============================================================================
