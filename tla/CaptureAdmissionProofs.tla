----------------------- MODULE CaptureAdmissionProofs -----------------------
(***************************************************************************)
(* Admission for any number of mirrors, slots and bodies and any           *)
(* thresholds.  That an open gate was earned is not inductive: the gate    *)
(* counts by serials, which the fleet may lose and count anew.  IInv ties  *)
(* each gate to the streak of the one mirror its slot belongs to, and says *)
(* that a serial that has caught up with a gate is of the gate's last      *)
(* sample, so no source is counted twice.                                  *)
(***************************************************************************)
EXTENDS CaptureAdmission, TLAPS

\* What the gate counted fits into what the mirror has shown.
Fits(g, k) ==
  /\ k # NoStreak
  /\ k.root = g.identity.root
  /\ g.stable <= k.samples
  /\ k.since <= g.first /\ g.first <= k.last

\* The serial of a mirror the fleet follows is behind the gate, or is of the
\* source of the gate's last sample.
NoneUncounted(g, k) ==
  LET m == g.identity.mirror
  IN  m \in DOMAIN fleet /\ fleet[m].serial >= g.sequence =>
        fleet[m].serial = g.sequence /\ fleet[m].source = k.last

Backed(s) ==
  LET g == gate[s]
      m == g.identity.mirror
  IN  g # NoGate =>
        /\ owner[s] = m
        /\ g.sequence >= 1
        /\ Fits(g, streak[m])
        /\ NoneUncounted(g, streak[m])
        /\ g.accepted => Earned(m, g.identity.root)

OwnersDiffer ==
  \A s, t \in Slots : s # t /\ owner[s] = owner[t] => owner[s] = Vacant

StreaksPast ==
  \A m \in Mirrors : streak[m] # NoStreak =>
    streak[m].since <= streak[m].last /\ streak[m].last <= source

\* Between the evaluation that admits a capture and its end, the sample is there.
PassingSampled ==
  passing # Vacant =>
    /\ owner[passing] \in DOMAIN fleet
    /\ fleet[owner[passing]].source = source

IInv ==
  /\ TypeOK /\ OwnersDiffer /\ StreaksPast /\ PassingSampled
  /\ \A s \in Slots : Backed(s)

-----------------------------------------------------------------------------
LEMMA InitIInv == Init => IInv
<1> SUFFICES ASSUME Init PROVE IInv
  OBVIOUS
<1>1. source \in Sources /\ root \in Roots
  BY AdmissionConstants DEF Init, Sources
<1>2. owner \in [Slots -> Mirrors \cup {Vacant}] /\ OwnersDiffer
  BY DEF Init, OwnersDiffer
<1>3. DOMAIN fleet \subseteq Mirrors /\ fleet \in [DOMAIN fleet -> Entries]
  BY DEF Init
<1>4. gate \in [Slots -> Gates] /\ \A s \in Slots : Backed(s)
  BY DEF Init, Gates, Backed
<1>5. streak \in [Mirrors -> Streaks] /\ StreaksPast
  BY DEF Init, Streaks, StreaksPast
<1>6. passing \in Slots \cup {Vacant} /\ PassingSampled
  BY DEF Init, PassingSampled
<1> QED
  BY <1>1, <1>2, <1>3, <1>4, <1>5, <1>6 DEF IInv, TypeOK

\* An open gate has the fields of one, and of no other mirror than its slot's.
LEMMA GateFields ==
  ASSUME IInv, NEW s \in Slots, gate[s] # NoGate
  PROVE  /\ gate[s] \in [tracking : {TRUE}, identity : Identities, first : Sources,
                         sequence : Nat, stable : Nat, accepted : BOOLEAN]
         /\ gate[s].identity.mirror \in Mirrors
         /\ gate[s].identity.root \in Roots
         /\ gate[s].sequence \in Nat /\ gate[s].stable \in Nat
         /\ gate[s].first \in Sources /\ gate[s].accepted \in BOOLEAN
         /\ owner[s] = gate[s].identity.mirror
<1>1. gate[s] \in Gates
  BY DEF IInv, TypeOK
<1>2. gate[s] \in [tracking : {TRUE}, identity : Identities, first : Sources,
                   sequence : Nat, stable : Nat, accepted : BOOLEAN]
  BY <1>1 DEF Gates
<1>3. gate[s].identity \in Identities
  BY <1>2
<1>4. gate[s].identity.mirror \in Mirrors /\ gate[s].identity.root \in Roots
  BY <1>3 DEF Identities
<1>5. gate[s].sequence \in Nat /\ gate[s].stable \in Nat /\ gate[s].first \in Sources
  BY <1>2
<1>6. gate[s].accepted \in BOOLEAN
  BY <1>2
<1> QED
  BY <1>2, <1>4, <1>5, <1>6 DEF IInv, Backed

\* The streak of a mirror after a clear sample.
LEMMA ClearFact ==
  ASSUME IInv, NEW m \in Mirrors, Clear(m)
  PROVE  /\ streak' \in [Mirrors -> Streaks]
         /\ \A x \in Mirrors : x # m => streak'[x] = streak[x]
         /\ streak'[m] # NoStreak
         /\ streak'[m].root = root
         /\ streak'[m].last = source
         /\ streak'[m].since \in Nat /\ streak'[m].since <= source
         /\ streak'[m].samples \in Nat /\ streak'[m].samples >= 1
         /\ streak[m] # NoStreak /\ streak[m].root = root =>
              /\ streak'[m].since = streak[m].since
              /\ streak'[m].samples >= streak[m].samples
              /\ streak[m].last # source => streak'[m].samples = streak[m].samples + 1
<1> DEFINE k == streak[m]
           anew == [samples |-> 1, since |-> source, last |-> source, root |-> root]
<1>1. source \in Sources /\ source \in Nat /\ root \in Roots
  BY AdmissionConstants DEF IInv, TypeOK, Sources
<1>2. k \in Streaks
  BY DEF IInv, TypeOK
<1>3. \A x \in Mirrors : x # m => streak'[x] = streak[x]
  BY DEF Clear, Lengthened, IInv, TypeOK
<1>4. streak' = [streak EXCEPT ![m] = streak'[m]]
  BY DEF Clear, Lengthened, IInv, TypeOK
<1>5. CASE k = NoStreak \/ k.root # root
  <2>1. streak'[m] = anew
    BY <1>5 DEF Clear, Lengthened, IInv, TypeOK
  <2>2. anew \in Streaks /\ anew.samples = 1
    BY <1>1 DEF Streaks
  <2>3. anew # NoStreak
    BY DEF NoStreak
  <2> QED
    BY <1>1, <1>3, <1>4, <1>5, <2>1, <2>2, <2>3 DEF IInv, TypeOK
<1>6. CASE k # NoStreak /\ k.root = root
  <2>1. k \in [samples : Nat \ {0}, since : Sources, last : Sources, root : Roots]
    BY <1>2, <1>6 DEF Streaks
  <2>2. k.samples \in Nat \ {0} /\ k.since \in Sources /\ k.since \in Nat
        /\ k.last \in Sources /\ k.last \in Nat
    BY <2>1 DEF Sources
  <2>3. k.since <= k.last /\ k.last <= source
    BY <1>6 DEF IInv, StreaksPast
  <2>4. CASE k.last = source
    <3>1. streak'[m] = k
      BY <1>6, <2>4 DEF Clear, Lengthened, IInv, TypeOK
    <3> QED
      BY <1>1, <1>2, <1>3, <1>4, <1>6, <2>2, <2>3, <2>4, <3>1 DEF IInv, TypeOK
  <2>5. CASE k.last # source
    <3> DEFINE more == [samples |-> k.samples + 1, since |-> k.since,
                        last |-> source, root |-> k.root]
    <3>1. streak'[m] = more
      BY <1>6, <2>1, <2>5 DEF Clear, Lengthened, IInv, TypeOK
    <3>2. k.samples + 1 \in Nat \ {0} /\ k.root \in Roots
      BY <1>1, <1>6, <2>2
    <3>3. more \in Streaks
      BY <1>1, <2>2, <3>2 DEF Streaks
    <3>4. more # NoStreak
      <4>1. more.samples = k.samples + 1
        OBVIOUS
      <4>2. k.samples + 1 # 0
        BY <3>2
      <4> QED
        BY <4>1, <4>2 DEF NoStreak
    <3> QED
      BY <1>1, <1>3, <1>4, <1>6, <2>2, <2>3, <2>5, <3>1, <3>3, <3>4
      DEF IInv, TypeOK
  <2> QED
    BY <2>4, <2>5
<1> QED
  BY <1>5, <1>6

\* The serial of the current source.
LEMMA SerialFact ==
  ASSUME IInv, NEW m \in Mirrors, Serial(m) # 0
  PROVE  /\ m \in DOMAIN fleet
         /\ fleet[m].serial \in Nat /\ fleet[m].source \in Nat
         /\ Serial(m) \in Nat \ {0}
         /\ \/ fleet[m].source = source /\ Serial(m) = fleet[m].serial
            \/ fleet[m].source # source /\ Serial(m) = fleet[m].serial + 1
<1>1. m \in DOMAIN fleet
  BY DEF Serial
<1>2. fleet[m] \in Entries
  BY <1>1 DEF IInv, TypeOK
<1>3. fleet[m].serial \in Nat /\ fleet[m].source \in Nat
  BY <1>2 DEF Entries
<1>4. Serial(m) = IF fleet[m].source = source THEN fleet[m].serial ELSE fleet[m].serial + 1
  BY <1>1 DEF Serial
<1> QED
  BY <1>1, <1>3, <1>4

\* The fleet after a sample of m.
LEMMA SampledFact ==
  ASSUME IInv, NEW m \in Mirrors, Sampled(m)
  PROVE  /\ DOMAIN fleet' = DOMAIN fleet
         /\ fleet' \in [DOMAIN fleet -> Entries]
         /\ m \in DOMAIN fleet =>
              fleet'[m].source = source /\ fleet'[m].serial = Serial(m)
         /\ \A x \in DOMAIN fleet : x # m => fleet'[x] = fleet[x]
<1>1. DOMAIN fleet' = DOMAIN fleet
  BY DEF Sampled
<1>2. \A x \in DOMAIN fleet : x # m => fleet'[x] = fleet[x]
  BY DEF Sampled
<1>3. m \in DOMAIN fleet => fleet'[m] = [source |-> source, serial |-> Serial(m)]
  BY DEF Sampled
<1>4. m \in DOMAIN fleet => Serial(m) \in Nat /\ source \in Nat
  <2> SUFFICES ASSUME m \in DOMAIN fleet PROVE Serial(m) \in Nat /\ source \in Nat
    OBVIOUS
  <2>1. fleet[m] \in Entries
    BY DEF IInv, TypeOK
  <2>2. fleet[m].serial \in Nat
    BY <2>1 DEF Entries
  <2>3. source \in Nat
    BY AdmissionConstants DEF IInv, TypeOK, Sources
  <2> QED
    BY <2>2, <2>3 DEF Serial
<1>5. m \in DOMAIN fleet => fleet'[m] \in Entries
  BY <1>3, <1>4 DEF Entries
<1>6. \A x \in DOMAIN fleet : fleet'[x] \in Entries
  BY <1>2, <1>5 DEF IInv, TypeOK
<1>7. fleet' = [x \in DOMAIN fleet |-> fleet'[x]]
  BY DEF Sampled
<1>8. fleet' \in [DOMAIN fleet -> Entries]
  BY <1>6, <1>7
<1> QED
  BY <1>1, <1>2, <1>3, <1>8

\* A step on one slot's mirror leaves the other slots' gates backed.
LEMMA OthersStay ==
  ASSUME IInv, NEW s \in Slots, owner[s] # Vacant,
         UNCHANGED <<source, owner>>,
         \A t \in Slots : t # s => gate'[t] = gate[t],
         \A x \in Mirrors : x # owner[s] => streak'[x] = streak[x],
         DOMAIN fleet' = DOMAIN fleet,
         \A x \in DOMAIN fleet : x # owner[s] => fleet'[x] = fleet[x]
  PROVE  \A t \in Slots : t # s => Backed(t)'
<1> SUFFICES ASSUME NEW t \in Slots, t # s, gate'[t] # NoGate PROVE Backed(t)'
  BY DEF Backed
<1> DEFINE m == gate[t].identity.mirror
<1>1. gate'[t] = gate[t] /\ gate[t] # NoGate
  OBVIOUS
<1>2. m \in Mirrors /\ owner[t] = m
  BY <1>1, GateFields
<1>3. m # owner[s]
  BY <1>2, AdmissionConstants DEF IInv, OwnersDiffer
<1>4. streak'[m] = streak[m]
  BY <1>2, <1>3
<1>5. m \in DOMAIN fleet' => fleet'[m] = fleet[m]
  BY <1>3
<1>6. Backed(t)
  BY DEF IInv
<1>7. NoneUncounted(gate[t], streak[m]) => NoneUncounted(gate[t], streak[m])'
  BY <1>1, <1>4, <1>5 DEF NoneUncounted
<1>8. Earned(m, gate[t].identity.root) => Earned(m, gate[t].identity.root)'
  BY <1>1, <1>4 DEF Earned
<1>9. Fits(gate[t], streak[m]) => Fits(gate[t], streak[m])'
  BY <1>1, <1>4 DEF Fits
<1> QED
  BY <1>1, <1>4, <1>6, <1>7, <1>8, <1>9 DEF Backed

\* A slot whose gate is closed, whatever became of the sample.
LEMMA ClosingKeepsIInv ==
  ASSUME IInv, NEW s \in Slots, owner[s] # Vacant, Reset(s),
         Clear(owner[s]) \/ Broken(owner[s]),
         Sampled(owner[s]) \/ UNCHANGED fleet,
         passing' = Vacant, UNCHANGED <<source, root, owner>>
  PROVE  IInv'
<1> DEFINE m == owner[s]
<1>1. m \in Mirrors
  BY DEF IInv, TypeOK
<1>2. gate' \in [Slots -> Gates] /\ gate'[s] = NoGate
      /\ \A t \in Slots : t # s => gate'[t] = gate[t]
  BY DEF Reset, IInv, TypeOK, Gates
<1>3. /\ streak' \in [Mirrors -> Streaks]
      /\ \A x \in Mirrors : x # m => streak'[x] = streak[x]
      /\ streak'[m] # NoStreak => streak'[m].last = source /\ streak'[m].since <= source
  <2>1. CASE Clear(m)
    BY <1>1, <2>1, ClearFact
  <2>2. CASE Broken(m)
    BY <1>1, <2>2 DEF Broken, IInv, TypeOK, Streaks
  <2> QED
    BY <2>1, <2>2
<1>4. /\ DOMAIN fleet' = DOMAIN fleet
      /\ fleet' \in [DOMAIN fleet -> Entries]
      /\ \A x \in DOMAIN fleet : x # m => fleet'[x] = fleet[x]
  BY <1>1, SampledFact DEF IInv, TypeOK
<1>5. TypeOK'
  BY <1>2, <1>3, <1>4 DEF IInv, TypeOK
<1>6. OwnersDiffer' /\ PassingSampled'
  BY DEF IInv, OwnersDiffer, PassingSampled
<1>7. StreaksPast'
  <2>1. source \in Nat
    BY AdmissionConstants DEF IInv, TypeOK, Sources
  <2> QED
    BY <1>3, <2>1 DEF IInv, StreaksPast
<1>8. \A t \in Slots : t # s => Backed(t)'
  BY <1>2, <1>3, <1>4, OthersStay
<1>9. Backed(s)'
  BY <1>2 DEF Backed
<1> QED
  BY <1>5, <1>6, <1>7, <1>8, <1>9 DEF IInv

\* The gate a clear sample leaves is of this body and this source, counts no more
\* than the mirror has shown, and is as open as it was.
LEMMA FollowedFact ==
  ASSUME IInv, NEW s \in Slots, NEW m \in Mirrors, owner[s] = m, Serial(m) # 0,
         Clear(m)
  PROVE  LET f == Followed(gate[s], m)
         IN  /\ f \in [tracking : {TRUE}, identity : Identities, first : Sources,
                       sequence : Nat, stable : Nat, accepted : BOOLEAN]
             /\ f.identity = SampleIdentity(m)
             /\ f.sequence = Serial(m)
             /\ f.stable <= streak'[m].samples
             /\ streak'[m].since <= f.first /\ f.first <= source
             /\ f.accepted => /\ Accepted(gate[s])
                              /\ gate[s].identity = SampleIdentity(m)
<1> DEFINE g == gate[s]
           k == streak[m]
           id == SampleIdentity(m)
           n == Serial(m)
           f == Followed(g, m)
           T == [tracking : {TRUE}, identity : Identities, first : Sources,
                 sequence : Nat, stable : Nat, accepted : BOOLEAN]
<1>1. source \in Sources /\ source \in Nat /\ root \in Roots
  BY AdmissionConstants DEF IInv, TypeOK, Sources
<1>2. id \in Identities /\ id.mirror = m /\ id.root = root
  BY <1>1 DEF SampleIdentity, Identities
<1>3. n \in Nat \ {0}
  BY SerialFact
<1>4. CASE g # NoGate /\ g.identity = id /\ (n = g.sequence \/ n = g.sequence + 1)
  <2>1. /\ g \in T /\ g.sequence \in Nat /\ g.stable \in Nat
        /\ g.first \in Sources /\ g.first \in Nat
    <3>1. g \in T
      BY <1>4, GateFields
    <3>2. g.sequence \in Nat /\ g.stable \in Nat /\ g.first \in Sources
      BY <1>4, GateFields
    <3>3. g.first \in Nat
      BY <3>2, AdmissionConstants DEF Sources
    <3> QED
      BY <3>1, <3>2, <3>3
  <2>2. k # NoStreak /\ k.root = root /\ g.stable <= k.samples
        /\ k.since <= g.first /\ g.first <= k.last /\ NoneUncounted(g, k)
    BY <1>2, <1>4 DEF IInv, Backed, Fits
  <2>3. k \in [samples : Nat \ {0}, since : Sources, last : Sources, root : Roots]
    BY <2>2 DEF IInv, TypeOK, Streaks
  <2>4. k.samples \in Nat /\ k.last \in Nat /\ k.since \in Nat /\ k.last <= source
    BY <2>2, <2>3 DEF Sources, IInv, StreaksPast
  <2>5. /\ streak'[m].samples \in Nat /\ streak'[m].since = k.since
        /\ streak'[m].samples >= k.samples
        /\ k.last # source => streak'[m].samples = k.samples + 1
    BY <2>2, ClearFact
  <2>6. CASE n = g.sequence
    <3>1. f = g
      BY <1>4, <2>1, <2>6 DEF Followed
    <3>2. f.stable <= streak'[m].samples /\ streak'[m].since <= f.first /\ f.first <= source
      BY <1>1, <2>1, <2>2, <2>4, <2>5, <3>1
    <3>3. f \in T /\ f.identity = id /\ f.sequence = n
      BY <1>4, <2>1, <2>6, <3>1
    <3>4. f.accepted => Accepted(g) /\ g.identity = id
      BY <1>4, <3>1 DEF Accepted
    <3> QED
      BY <3>2, <3>3, <3>4
  <2>7. CASE n = g.sequence + 1
    <3>1. f = [g EXCEPT !.sequence = n, !.stable = @ + 1]
      BY <1>4, <2>1, <2>7 DEF Followed
    <3>2. g.stable + 1 \in Nat
      BY <2>1
    <3>3. /\ f \in T /\ f.identity = g.identity /\ f.sequence = n
          /\ f.stable = g.stable + 1 /\ f.first = g.first /\ f.accepted = g.accepted
      BY <1>3, <2>1, <3>1, <3>2
    <3>4. k.last # source
      <4>1. /\ m \in DOMAIN fleet /\ fleet[m].serial \in Nat
            /\ \/ fleet[m].source = source /\ n = fleet[m].serial
               \/ fleet[m].source # source /\ n = fleet[m].serial + 1
        BY SerialFact
      <4>2. fleet[m].serial >= g.sequence =>
              fleet[m].serial = g.sequence /\ fleet[m].source = k.last
        BY <1>2, <1>4, <2>2, <4>1 DEF NoneUncounted
      <4> QED
        BY <2>1, <2>7, <4>1, <4>2
    <3>5. f.stable <= streak'[m].samples
      BY <2>1, <2>2, <2>4, <2>5, <3>3, <3>4
    <3>6. streak'[m].since <= f.first /\ f.first <= source
      BY <1>1, <2>1, <2>2, <2>4, <2>5, <3>3
    <3> QED
      BY <1>4, <3>3, <3>5, <3>6 DEF Accepted
  <2> QED
    BY <1>4, <2>6, <2>7
<1>5. CASE ~(g # NoGate /\ g.identity = id /\ (n = g.sequence \/ n = g.sequence + 1))
  <2>1. f = [tracking |-> TRUE, identity |-> id, first |-> source,
             sequence |-> n, stable |-> 1, accepted |-> FALSE]
    BY <1>5 DEF Followed
  <2>2. f \in T
    BY <1>1, <1>2, <1>3, <2>1
  <2>3. streak'[m].samples \in Nat /\ streak'[m].samples >= 1
        /\ streak'[m].since \in Nat /\ streak'[m].since <= source
    BY ClearFact
  <2> QED
    BY <1>1, <2>1, <2>2, <2>3
<1> QED
  BY <1>4, <1>5

\* A gate that a clear sample opens or leaves open was earned.
LEMMA AdmittedFact ==
  ASSUME IInv, NEW s \in Slots, NEW m \in Mirrors, owner[s] = m, Serial(m) # 0,
         Clear(m)
  PROVE  LET g == Admitted(Followed(gate[s], m))
         IN  /\ g \in Gates /\ g # NoGate
             /\ g.identity.mirror = m
             /\ g.sequence = Serial(m)
             /\ Fits(g, streak'[m])
             /\ g.identity.root = root
             /\ g.accepted => /\ streak'[m].samples >= MinSamples
                              /\ streak'[m].last - streak'[m].since >= MinTime
<1> DEFINE f == Followed(gate[s], m)
           ripe == f.stable >= MinSamples /\ source - f.first >= MinTime
           g == Admitted(f)
           k == streak'[m]
<1>1. /\ f \in [tracking : {TRUE}, identity : Identities, first : Sources,
                sequence : Nat, stable : Nat, accepted : BOOLEAN]
      /\ f.identity = SampleIdentity(m)
      /\ f.sequence = Serial(m)
      /\ f.stable <= k.samples
      /\ k.since <= f.first /\ f.first <= source
      /\ f.accepted => Accepted(gate[s]) /\ gate[s].identity = SampleIdentity(m)
  BY FollowedFact
<1>2. /\ k # NoStreak /\ k.root = root /\ k.last = source
      /\ k.since \in Nat /\ k.samples \in Nat
      /\ streak[m] # NoStreak /\ streak[m].root = root =>
           k.since = streak[m].since /\ k.samples >= streak[m].samples
  BY ClearFact
<1> HIDE DEF f
<1>3. /\ g = [f EXCEPT !.accepted = f.accepted \/ ripe]
  BY DEF Admitted
<1>4. f.tracking = TRUE /\ f.stable \in Nat /\ f.first \in Sources /\ f.accepted \in BOOLEAN
  BY <1>1
<1>5. /\ g \in [tracking : {TRUE}, identity : Identities, first : Sources,
                sequence : Nat, stable : Nat, accepted : BOOLEAN]
      /\ g.tracking = TRUE /\ g.identity = f.identity /\ g.sequence = f.sequence
      /\ g.stable = f.stable /\ g.first = f.first /\ g.accepted = (f.accepted \/ ripe)
  <2>1. (f.accepted \/ ripe) \in BOOLEAN
    BY <1>4
  <2> HIDE DEF ripe
  <2> QED
    BY <1>1, <1>3, <2>1
<1>6. g \in Gates
  BY <1>5 DEF Gates
<1>7. g # NoGate
  BY <1>5 DEF NoGate
<1>8. f.identity.mirror = m /\ f.identity.root = root
  BY <1>1 DEF SampleIdentity
<1>9. Fits(g, k)
  BY <1>1, <1>2, <1>5, <1>8 DEF Fits
<1>10. ASSUME g.accepted
       PROVE  k.samples >= MinSamples /\ k.last - k.since >= MinTime
  <2>1. source \in Nat /\ MinSamples \in Nat /\ MinTime \in Nat
    BY AdmissionConstants DEF IInv, TypeOK, Sources
  <2>2. CASE ripe
    <3>1. f.stable >= MinSamples /\ source - f.first >= MinTime
      BY <2>2
    <3>2. f.first \in Nat
      BY <1>4, AdmissionConstants DEF Sources
    <3> QED
      BY <1>1, <1>2, <1>4, <2>1, <3>1, <3>2
  <2>3. CASE f.accepted
    <3>1. /\ gate[s] # NoGate /\ gate[s].accepted
          /\ gate[s].identity.mirror = m /\ gate[s].identity.root = root
      BY <1>1, <2>3 DEF Accepted, SampleIdentity
    <3>2. /\ streak[m] # NoStreak /\ streak[m].root = root
          /\ streak[m].samples >= MinSamples
          /\ streak[m].last - streak[m].since >= MinTime
      BY <3>1 DEF IInv, Backed, Earned
    <3>3. streak[m] \in [samples : Nat \ {0}, since : Sources, last : Sources, root : Roots]
      BY <3>2 DEF IInv, TypeOK, Streaks
    <3>4. /\ streak[m].samples \in Nat /\ streak[m].since \in Nat
          /\ streak[m].last \in Nat /\ streak[m].last <= source
      BY <3>2, <3>3, AdmissionConstants DEF Sources, IInv, StreaksPast
    <3> QED
      BY <1>2, <2>1, <3>2, <3>4
  <2> QED
    BY <1>5, <1>10, <2>2, <2>3
<1> QED
  <2>1. g.identity.mirror = m /\ g.identity.root = root /\ g.sequence = Serial(m)
    BY <1>1, <1>5, <1>8
  <2> QED
    BY <1>6, <1>7, <1>9, <1>10, <2>1 DEF f

LEMMA EvaluateKeepsIInv ==
  ASSUME IInv, NEW s \in Slots, Evaluate(s), Serial(owner[s]) # 0
  PROVE  IInv'
<1> DEFINE m == owner[s]
           g == Admitted(Followed(gate[s], m))
           k == streak'[m]
<1>1. m \in Mirrors /\ m # Vacant
  BY DEF Evaluate, IInv, TypeOK
<1>2. /\ Sampled(m) /\ Clear(m) /\ UNCHANGED <<source, root, owner>>
      /\ gate' = [gate EXCEPT ![s] = g]
      /\ passing' \in {Vacant, s}
  BY DEF Evaluate
<1>3. /\ g \in Gates /\ g # NoGate
      /\ g.identity.mirror = m /\ g.sequence = Serial(m)
      /\ Fits(g, k) /\ g.identity.root = root
      /\ g.accepted => k.samples >= MinSamples /\ k.last - k.since >= MinTime
  BY <1>1, <1>2, AdmittedFact
<1>4. /\ streak' \in [Mirrors -> Streaks]
      /\ \A x \in Mirrors : x # m => streak'[x] = streak[x]
      /\ k # NoStreak /\ k.root = root /\ k.last = source /\ k.since <= source
  BY <1>1, <1>2, ClearFact
<1>5. /\ DOMAIN fleet' = DOMAIN fleet /\ fleet' \in [DOMAIN fleet -> Entries]
      /\ m \in DOMAIN fleet
      /\ fleet'[m].source = source /\ fleet'[m].serial = Serial(m)
      /\ \A x \in DOMAIN fleet : x # m => fleet'[x] = fleet[x]
      /\ Serial(m) \in Nat \ {0}
  BY <1>1, <1>2, SampledFact, SerialFact
<1> HIDE DEF g
<1>6. gate' \in [Slots -> Gates] /\ gate'[s] = g
      /\ \A t \in Slots : t # s => gate'[t] = gate[t]
  BY <1>2, <1>3 DEF IInv, TypeOK
<1>7. TypeOK'
  BY <1>2, <1>4, <1>5, <1>6 DEF IInv, TypeOK
<1>8. OwnersDiffer' /\ PassingSampled'
  BY <1>2, <1>5 DEF IInv, OwnersDiffer, PassingSampled
<1>9. StreaksPast'
  <2>1. source \in Nat
    BY AdmissionConstants DEF IInv, TypeOK, Sources
  <2> QED
    BY <1>2, <1>4, <2>1 DEF IInv, StreaksPast
<1>10. \A t \in Slots : t # s => Backed(t)'
  BY <1>1, <1>2, <1>4, <1>5, <1>6, OthersStay
<1>11. Backed(s)'
  <2>1. /\ gate'[s].identity.mirror = m /\ owner'[s] = m
        /\ gate'[s].sequence >= 1
    BY <1>2, <1>3, <1>5, <1>6
  <2>2. Fits(gate[s], streak[m])'
    BY <1>2, <1>3, <1>6 DEF Fits
  <2>3. NoneUncounted(gate[s], streak[m])'
    BY <1>2, <1>3, <1>4, <1>5, <1>6 DEF NoneUncounted
  <2>4. (gate[s].accepted => Earned(m, gate[s].identity.root))'
    BY <1>2, <1>3, <1>4, <1>6 DEF Earned
  <2>5. m' = m
    BY <1>2
  <2> HIDE DEF m
  <2> QED
    BY <2>1, <2>2, <2>3, <2>4, <2>5 DEF Backed
<1> QED
  BY <1>7, <1>8, <1>9, <1>10, <1>11 DEF IInv

\* A capture that may begin leaves the gate as it was.
LEMMA RevalidateKeepsIInv ==
  ASSUME IInv, NEW s \in Slots, Revalidate(s), Holds(s)
  PROVE  IInv'
<1> DEFINE m == owner[s]
           g == gate[s]
           k == streak'[m]
<1>1. /\ Sampled(m) /\ Clear(m) /\ UNCHANGED <<source, root, owner, gate>>
      /\ passing' = Vacant
  BY DEF Revalidate
<1>2. g # NoGate /\ g.accepted /\ g.identity = SampleIdentity(m) /\ g.sequence = Serial(m)
  BY DEF Holds, Accepted
<1>3. g.identity.mirror = m /\ g.identity.root = root /\ m \in Mirrors
      /\ g.sequence \in Nat /\ g.stable \in Nat /\ g.first \in Sources
  <2>1. g.identity.mirror = m /\ g.identity.root = root
    BY <1>2 DEF SampleIdentity
  <2>2. g.identity.mirror \in Mirrors /\ g.sequence \in Nat /\ g.stable \in Nat
        /\ g.first \in Sources
    BY <1>2, GateFields
  <2> QED
    BY <2>1, <2>2
<1>4. /\ g.sequence >= 1 /\ Fits(g, streak[m]) /\ Earned(m, root)
  <2>1. Backed(s)
    BY DEF IInv
  <2>2. /\ g.sequence >= 1 /\ Fits(g, streak[g.identity.mirror])
        /\ Earned(g.identity.mirror, g.identity.root)
    BY <1>2, <2>1 DEF Backed
  <2> QED
    BY <1>3, <2>2
<1>5. Serial(m) # 0 /\ m # Vacant
  <2>1. g.sequence # 0
    BY <1>3, <1>4
  <2> QED
    BY <1>2, <1>3, <2>1, AdmissionConstants
<1>6. /\ streak' \in [Mirrors -> Streaks]
      /\ \A x \in Mirrors : x # m => streak'[x] = streak[x]
      /\ k # NoStreak /\ k.root = root /\ k.last = source
      /\ k.since \in Nat /\ k.since <= source /\ k.samples \in Nat
      /\ k.since = streak[m].since /\ k.samples >= streak[m].samples
  <2>1. streak[m] # NoStreak /\ streak[m].root = root
    BY <1>4 DEF Earned
  <2> QED
    BY <1>1, <1>3, <2>1, ClearFact
<1>7. /\ DOMAIN fleet' = DOMAIN fleet /\ fleet' \in [DOMAIN fleet -> Entries]
      /\ m \in DOMAIN fleet
      /\ fleet'[m].source = source /\ fleet'[m].serial = Serial(m)
      /\ \A x \in DOMAIN fleet : x # m => fleet'[x] = fleet[x]
  BY <1>1, <1>3, <1>5, SampledFact, SerialFact
<1>8. TypeOK'
  BY <1>1, <1>6, <1>7 DEF IInv, TypeOK
<1>9. OwnersDiffer' /\ PassingSampled'
  BY <1>1 DEF IInv, OwnersDiffer, PassingSampled
<1>10. source \in Nat /\ MinSamples \in Nat /\ MinTime \in Nat
  BY AdmissionConstants DEF IInv, TypeOK, Sources
<1>11. StreaksPast'
  BY <1>1, <1>6, <1>10 DEF IInv, StreaksPast
<1>12. \A t \in Slots : t # s => Backed(t)'
  BY <1>1, <1>5, <1>6, <1>7, OthersStay
<1>13. Backed(s)'
  <2>1. streak[m] \in [samples : Nat \ {0}, since : Sources, last : Sources, root : Roots]
    BY <1>3, <1>4 DEF IInv, TypeOK, Streaks, Earned
  <2>2. /\ streak[m].samples \in Nat /\ streak[m].since \in Nat
        /\ streak[m].last \in Nat /\ streak[m].last <= source /\ g.first \in Nat
    BY <1>3, <1>4, <2>1, AdmissionConstants DEF Sources, IInv, StreaksPast, Earned
  <2>3. Fits(g, k)
    BY <1>3, <1>4, <1>6, <1>10, <2>2 DEF Fits
  <2>4. NoneUncounted(gate[s], streak[m])'
    BY <1>1, <1>2, <1>3, <1>6, <1>7 DEF NoneUncounted
  <2>5. k.samples >= MinSamples /\ k.last - k.since >= MinTime
    BY <1>4, <1>6, <1>10, <2>2 DEF Earned
  <2> QED
    BY <1>1, <1>3, <1>4, <1>6, <2>3, <2>4, <2>5 DEF Backed, Fits, Earned
<1> QED
  BY <1>8, <1>9, <1>11, <1>12, <1>13 DEF IInv

LEMMA ReconcileKeepsIInv ==
  ASSUME IInv, NEW identities \in SUBSET Mirrors, Reconcile(identities)
  PROVE  IInv'
<1>1. passing = Vacant /\ UNCHANGED <<source, root, passing, streak>>
  BY DEF Reconcile
<1>2. /\ owner' \in [Slots -> Mirrors \cup {Vacant}]
      /\ gate' \in [Slots -> Gates]
      /\ OwnersDiffer'
      /\ \A s \in Slots : \/ gate'[s] = NoGate
                          \/ gate'[s] = gate[s] /\ owner'[s] = owner[s]
  <2>1. CASE SlotsChanged(identities)
    <3>1. NoGate \in Gates
      BY DEF Gates
    <3> QED
      BY <2>1, <3>1 DEF SlotsChanged, IInv, TypeOK, OwnersDiffer
  <2>2. CASE UNCHANGED <<owner, gate>>
    BY <2>2 DEF IInv, TypeOK, OwnersDiffer
  <2> QED
    BY <2>1, <2>2 DEF Reconcile
<1>3. /\ DOMAIN fleet' \subseteq Mirrors
      /\ fleet' \in [DOMAIN fleet' -> Entries]
      /\ \A m \in DOMAIN fleet' :
           \/ m \in DOMAIN fleet /\ fleet'[m] = fleet[m]
           \/ fleet'[m].serial = 0
  <2>1. PICK followed \in SUBSET Mirrors : FleetFollows(followed)
    BY DEF Reconcile, IInv, TypeOK
  <2>2. DOMAIN fleet' = followed
    BY <2>1 DEF FleetFollows
  <2>3. \A m \in followed :
          fleet'[m] = IF m \in DOMAIN fleet THEN fleet[m] ELSE [source |-> 0, serial |-> 0]
    BY <2>1 DEF FleetFollows
  <2>4. [source |-> 0, serial |-> 0] \in Entries
    BY DEF Entries
  <2>5. \A m \in followed : fleet'[m] \in Entries
    BY <2>3, <2>4 DEF IInv, TypeOK
  <2>6. fleet' = [m \in followed |-> fleet'[m]]
    BY <2>1 DEF FleetFollows
  <2> QED
    BY <2>2, <2>3, <2>5, <2>6
<1>4. TypeOK'
  BY <1>1, <1>2, <1>3 DEF IInv, TypeOK
<1>5. StreaksPast' /\ PassingSampled'
  BY <1>1 DEF IInv, StreaksPast, PassingSampled
<1>6. ASSUME NEW s \in Slots, gate'[s] # NoGate
      PROVE  Backed(s)'
  <2> DEFINE m == gate[s].identity.mirror
  <2>1. gate'[s] = gate[s] /\ owner'[s] = owner[s] /\ gate[s] # NoGate
    BY <1>2, <1>6
  <2>2. m \in Mirrors /\ gate[s].sequence \in Nat
    BY <2>1, GateFields
  <2>3. Backed(s) /\ gate[s].sequence >= 1
    BY <2>1 DEF IInv, Backed
  <2>4. NoneUncounted(gate[s], streak[m]) => NoneUncounted(gate[s], streak[m])'
    BY <1>1, <1>3, <2>1, <2>2, <2>3 DEF NoneUncounted
  <2>5. Fits(gate[s], streak[m]) => Fits(gate[s], streak[m])'
    BY <1>1, <2>1 DEF Fits
  <2>6. Earned(m, gate[s].identity.root) => Earned(m, gate[s].identity.root)'
    BY <1>1, <2>1 DEF Earned
  <2> QED
    BY <2>1, <2>3, <2>4, <2>5, <2>6 DEF Backed
<1>7. \A s \in Slots : Backed(s)'
  BY <1>6 DEF Backed
<1> QED
  BY <1>2, <1>4, <1>5, <1>7 DEF IInv

-----------------------------------------------------------------------------
\* Every step keeps every gate backed: the source and the body move on, slots and
\* fleet change together or one without the other, and samples come or fail.
LEMMA NextIInv == IInv /\ [Next]_vars => IInv'
<1> SUFFICES ASSUME IInv, [Next]_vars PROVE IInv'
  OBVIOUS
<1>1. ASSUME NextSource PROVE IInv'
  <2>1. /\ passing = Vacant /\ source' = source + 1 /\ source < MaxSource
        /\ UNCHANGED <<root, owner, fleet, gate, passing, streak>>
    BY <1>1 DEF NextSource
  <2>2. source \in Nat /\ source' \in Sources
    BY <2>1, AdmissionConstants DEF IInv, TypeOK, Sources
  <2>3. TypeOK'
    BY <2>1, <2>2 DEF IInv, TypeOK
  <2>4. OwnersDiffer' /\ PassingSampled'
    BY <2>1 DEF IInv, OwnersDiffer, PassingSampled
  <2>5. StreaksPast'
    <3> SUFFICES ASSUME NEW m \in Mirrors, streak[m] # NoStreak
                 PROVE  streak[m].since <= streak[m].last /\ streak[m].last <= source'
      BY <2>1 DEF StreaksPast
    <3>1. streak[m] \in [samples : Nat \ {0}, since : Sources, last : Sources, root : Roots]
      BY DEF IInv, TypeOK, Streaks
    <3>2. streak[m].last \in Nat
      BY <3>1, AdmissionConstants DEF Sources
    <3> QED
      BY <2>1, <2>2, <3>2 DEF IInv, StreaksPast
  <2>6. \A s \in Slots : Backed(s)'
    BY <2>1 DEF IInv, Backed, Fits, NoneUncounted, Earned
  <2> QED
    BY <2>3, <2>4, <2>5, <2>6 DEF IInv
<1>2. ASSUME ReloadBody PROVE IInv'
  BY <1>2 DEF ReloadBody, IInv, TypeOK, OwnersDiffer, StreaksPast, PassingSampled,
              Backed, Fits, NoneUncounted, Earned
<1>3. ASSUME Abandon PROVE IInv'
  BY <1>3 DEF Abandon, IInv, TypeOK, OwnersDiffer, StreaksPast, PassingSampled,
              Backed, Fits, NoneUncounted, Earned
<1>4. ASSUME NEW identities \in SUBSET Mirrors, Reconcile(identities) PROVE IInv'
  BY <1>4, ReconcileKeepsIInv
<1>5. ASSUME NEW s \in Slots, NoSample(s) PROVE IInv'
  BY <1>5, ClosingKeepsIInv DEF NoSample
<1>6. ASSUME NEW s \in Slots, Unsafe(s) PROVE IInv'
  BY <1>6, ClosingKeepsIInv DEF Unsafe
<1>7. ASSUME NEW s \in Slots, Evaluate(s) PROVE IInv'
  <2>1. CASE Serial(owner[s]) = 0
    <3>1. passing' = Vacant
      BY <1>7, <2>1 DEF Evaluate
    <3> QED
      BY <1>7, <2>1, <3>1, ClosingKeepsIInv DEF Evaluate
  <2>2. CASE Serial(owner[s]) # 0
    BY <1>7, <2>2, EvaluateKeepsIInv
  <2> QED
    BY <2>1, <2>2
<1>8. ASSUME NEW s \in Slots, Revalidate(s) PROVE IInv'
  <2>1. CASE Holds(s)
    BY <1>8, <2>1, RevalidateKeepsIInv
  <2>2. CASE ~Holds(s)
    <3>1. owner[s] # Vacant
      BY <1>8, AdmissionConstants DEF Revalidate, IInv, TypeOK, PassingSampled
    <3> QED
      BY <1>8, <2>2, <3>1, ClosingKeepsIInv DEF Revalidate
  <2> QED
    BY <2>1, <2>2
<1>9. ASSUME UNCHANGED vars PROVE IInv'
  BY <1>9 DEF vars, IInv, TypeOK, OwnersDiffer, StreaksPast, PassingSampled,
              Backed, Fits, NoneUncounted, Earned
<1> QED
  BY <1>1, <1>2, <1>3, <1>4, <1>5, <1>6, <1>7, <1>8, <1>9 DEF Next

\* The invariant the theorems below rest on: every gate is backed by the streak of
\* the one mirror its slot belongs to.
THEOREM InductiveInvariant == Spec => []IInv
BY InitIInv, NextIInv, PTL DEF Spec

\* Type correctness of gates, serials and slots.
THEOREM TypeCorrect == Spec => []TypeOK
<1>1. IInv => TypeOK
  BY DEF IInv
<1> QED
  BY <1>1, InductiveInvariant, PTL

\* An open gate of MirrorCaptureAdmission.h was earned by clear samples of
\* different sources, with one body, since the last sample that was not clear.
THEOREM AdmissionIsEarned == Spec => []AdmissionEarned
<1>1. IInv => AdmissionEarned
  <2> SUFFICES ASSUME IInv, NEW s \in Slots, Accepted(gate[s])
               PROVE  Earned(gate[s].identity.mirror, gate[s].identity.root)
    BY DEF AdmissionEarned
  <2> QED
    BY DEF Accepted, IInv, Backed
<1> QED
  BY <1>1, InductiveInvariant, PTL

\* Two slots' gates never know one mirror, however slots are reconciled.
THEOREM GatesKnowDifferentMirrors == Spec => []OneGatePerMirror
<1>1. IInv => OneGatePerMirror
  <2> SUFFICES ASSUME IInv, NEW s \in Slots, NEW t \in Slots, s # t,
                      gate[s] # NoGate, gate[t] # NoGate
               PROVE  gate[s].identity.mirror # gate[t].identity.mirror
    BY DEF OneGatePerMirror
  <2>1. owner[s] \in Mirrors /\ owner[t] \in Mirrors
        /\ owner[s] = gate[s].identity.mirror /\ owner[t] = gate[t].identity.mirror
    BY GateFields
  <2> QED
    BY <2>1, AdmissionConstants DEF IInv, OwnersDiffer
<1> QED
  BY <1>1, InductiveInvariant, PTL

\* The private rendering that Revalidate lets begin was earned with the body there
\* is now, on a sample of this source.
THEOREM DispatchIsEarned == Spec => DispatchEarned
<1>1. ASSUME IInv, NEW s \in Slots, Revalidate(s), Holds(s)
      PROVE  Earned(owner[s], root) /\ streak[owner[s]].last = source
  <2> DEFINE g == gate[s]
             m == owner[s]
  <2>1. g # NoGate /\ g.accepted /\ g.identity = SampleIdentity(m) /\ g.sequence = Serial(m)
    BY <1>1 DEF Holds, Accepted
  <2>2. g.identity.mirror = m /\ g.identity.root = root
    BY <2>1 DEF SampleIdentity
  <2>3. Backed(s)
    BY <1>1 DEF IInv
  <2>4. Earned(m, root) /\ NoneUncounted(g, streak[g.identity.mirror])
    BY <2>1, <2>2, <2>3 DEF Backed
  <2>5. passing = s /\ s # Vacant
    BY <1>1, AdmissionConstants DEF Revalidate
  <2>6. m \in DOMAIN fleet /\ fleet[m].source = source
    BY <1>1, <2>5 DEF IInv, PassingSampled
  <2>7. Serial(m) = fleet[m].serial
    BY <2>6 DEF Serial
  <2>8. fleet[m].serial >= g.sequence
    <3>1. g.sequence \in Nat
      BY <1>1, <2>1, GateFields
    <3> QED
      BY <2>1, <2>7, <3>1
  <2> QED
    BY <2>2, <2>4, <2>6, <2>8 DEF NoneUncounted
<1>2. IInv /\ [Next]_vars =>
        [\A s \in Slots : Revalidate(s) /\ Holds(s) =>
           Earned(owner[s], root) /\ streak[owner[s]].last = source]_vars
  BY <1>1
<1> QED
  BY <1>2, InductiveInvariant, PTL DEF Spec, DispatchEarned

\* What a closing gate says of its mirror.
Excused(s) ==
  LET m == gate[s].identity.mirror
  IN  \/ owner'[s] # owner[s]
      \/ streak'[m] = NoStreak
      \/ streak'[m].root # gate[s].identity.root
      \/ m \notin DOMAIN fleet
      \/ fleet[m].serial < gate[s].sequence

\* On a clear sample with the gate's body, a serial other than the gate's or the
\* next one is behind the gate.
LEMMA UnknownSampleFact ==
  ASSUME IInv, NEW s \in Slots, gate[s] # NoGate, Clear(owner[s]),
         gate[s].identity # SampleIdentity(owner[s])
           \/ (Serial(owner[s]) # gate[s].sequence
                /\ Serial(owner[s]) # gate[s].sequence + 1)
  PROVE  Excused(s)
<1> DEFINE g == gate[s]
           m == g.identity.mirror
<1>1. /\ m \in Mirrors /\ owner[s] = m /\ g.sequence \in Nat
      /\ g \in [tracking : {TRUE}, identity : Identities, first : Sources,
                sequence : Nat, stable : Nat, accepted : BOOLEAN]
  BY GateFields
<1>2. streak'[m].root = root
  BY <1>1, ClearFact
<1>3. CASE g.identity # SampleIdentity(owner[s])
  <2>1. g.identity \in Identities
    BY <1>1
  <2>2. g.identity.root # root
    BY <1>1, <1>3, <2>1 DEF Identities, SampleIdentity
  <2> QED
    BY <1>2, <2>2 DEF Excused
<1>4. CASE Serial(m) # g.sequence /\ Serial(m) # g.sequence + 1
  <2> SUFFICES ASSUME m \in DOMAIN fleet PROVE fleet[m].serial < g.sequence
    BY DEF Excused
  <2>1. fleet[m] \in Entries
    BY DEF IInv, TypeOK
  <2>2. fleet[m].serial \in Nat
    BY <2>1 DEF Entries
  <2>3. Serial(m) = fleet[m].serial \/ Serial(m) = fleet[m].serial + 1
    BY DEF Serial
  <2>4. NoneUncounted(g, streak[m])
    BY DEF IInv, Backed
  <2>5. fleet[m].serial >= g.sequence => fleet[m].serial = g.sequence
    BY <2>4 DEF NoneUncounted
  <2> QED
    BY <1>1, <1>4, <2>2, <2>3, <2>5
<1> QED
  BY <1>1, <1>3, <1>4

\* A gate of MirrorCaptureAdmission.h that is open closes for a reason only: another
\* owner, an unsafe or missing sample, another body, or a serial the fleet lost.
THEOREM WarmUpIsNotRepeated == Spec => NoSpuriousRestart
<1>1. ASSUME IInv, [Next]_vars, NEW s \in Slots, Accepted(gate[s]), ~Accepted(gate'[s])
      PROVE  Excused(s)
  <2> DEFINE g == gate[s]
             m == g.identity.mirror
  <2>1. g # NoGate /\ g.accepted /\ gate'[s] # gate[s]
    BY <1>1 DEF Accepted
  <2>2. m \in Mirrors /\ owner[s] = m /\ g.sequence \in Nat
    BY <1>1, <2>1, GateFields
  <2>3. ASSUME NEW t \in Slots, t # s,
               NoSample(t) \/ Unsafe(t) \/ Evaluate(t) \/ Revalidate(t)
        PROVE  FALSE
    <3>1. gate'[s] = gate[s]
      BY <1>1, <2>3 DEF NoSample, Unsafe, Evaluate, Revalidate, Reset, IInv, TypeOK
    <3> QED
      BY <2>1, <3>1
  <2>4. ASSUME NEW identities \in SUBSET Mirrors, Reconcile(identities)
        PROVE  Excused(s)
    <3>1. SlotsChanged(identities)
      BY <2>1, <2>4 DEF Reconcile
    <3>2. owner'[s] # owner[s]
      BY <2>1, <3>1 DEF SlotsChanged
    <3> QED
      BY <3>2 DEF Excused
  <2>5. CASE NoSample(s) \/ Unsafe(s)
    <3>1. streak'[m] = NoStreak
      BY <1>1, <2>2, <2>5 DEF NoSample, Unsafe, Broken, IInv, TypeOK
    <3> QED
      BY <3>1 DEF Excused
  <2>6. CASE Evaluate(s)
    <3>1. Clear(m)
      BY <2>2, <2>6 DEF Evaluate
    <3>2. CASE Serial(m) = 0
      <4>1. Backed(s) /\ g.sequence >= 1
        BY <1>1, <2>1 DEF IInv, Backed
      <4>2. Serial(m) # g.sequence /\ Serial(m) # g.sequence + 1
        BY <2>2, <3>2, <4>1
      <4> QED
        BY <1>1, <2>1, <2>2, <3>1, <4>2, UnknownSampleFact
    <3>3. CASE Serial(m) # 0 /\ g.identity = SampleIdentity(m)
               /\ (Serial(m) = g.sequence \/ Serial(m) = g.sequence + 1)
      <4> DEFINE f == Followed(g, m)
      <4>1. gate'[s] = Admitted(f)
        BY <1>1, <2>2, <2>6, <3>3 DEF Evaluate, IInv, TypeOK
      <4>2. f = g \/ f = [g EXCEPT !.sequence = Serial(m), !.stable = @ + 1]
        BY <2>1, <2>2, <3>3 DEF Followed
      <4>3. g \in [tracking : {TRUE}, identity : Identities, first : Sources,
                   sequence : Nat, stable : Nat, accepted : BOOLEAN]
        BY <1>1, <2>1, GateFields
      <4>4. f.accepted /\ f.tracking = TRUE
            /\ DOMAIN f = {"tracking", "identity", "first", "sequence", "stable", "accepted"}
        BY <2>1, <4>2, <4>3
      <4> HIDE DEF f
      <4>5. Admitted(f).accepted /\ Admitted(f).tracking = TRUE
        BY <4>4 DEF Admitted
      <4>6. Accepted(gate'[s])
        BY <4>1, <4>5 DEF Accepted, NoGate
      <4> QED
        BY <1>1, <4>6
    <3>4. CASE g.identity # SampleIdentity(m)
               \/ (Serial(m) # g.sequence /\ Serial(m) # g.sequence + 1)
      BY <1>1, <2>1, <2>2, <3>1, <3>4, UnknownSampleFact
    <3> QED
      BY <3>2, <3>3, <3>4
  <2>7. CASE Revalidate(s)
    <3>1. Clear(m) /\ passing = s /\ ~Holds(s)
      BY <2>1, <2>2, <2>7 DEF Revalidate
    <3>2. g.identity # SampleIdentity(m) \/ g.sequence # Serial(m)
      BY <1>1, <2>2, <3>1 DEF Holds
    <3>3. m \in DOMAIN fleet /\ fleet[m].source = source
      BY <1>1, <2>2, <3>1, AdmissionConstants DEF IInv, PassingSampled
    <3>4. CASE g.identity # SampleIdentity(m)
      BY <1>1, <2>1, <2>2, <3>1, <3>4, UnknownSampleFact
    <3>5. CASE g.sequence # Serial(m)
      <4>1. fleet[m] \in Entries
        BY <1>1, <3>3 DEF IInv, TypeOK
      <4>2. fleet[m].serial \in Nat /\ fleet[m].serial # g.sequence
        BY <3>3, <3>5, <4>1 DEF Serial, Entries
      <4>3. NoneUncounted(g, streak[m])
        BY <1>1, <2>1 DEF IInv, Backed
      <4>4. fleet[m].serial < g.sequence
        BY <2>2, <3>3, <4>2, <4>3 DEF NoneUncounted
      <4> QED
        BY <4>4 DEF Excused
    <3> QED
      BY <3>2, <3>4, <3>5
  <2>8. CASE NextSource \/ ReloadBody \/ Abandon \/ UNCHANGED vars
    BY <2>1, <2>8 DEF NextSource, ReloadBody, Abandon, vars
  <2> QED
    BY <1>1, <2>3, <2>4, <2>5, <2>6, <2>7, <2>8 DEF Next
<1>2. IInv /\ [Next]_vars =>
        [\A s \in Slots :
           LET m == gate[s].identity.mirror
           IN  Accepted(gate[s]) /\ ~Accepted(gate'[s]) =>
                 \/ owner'[s] # owner[s]
                 \/ streak'[m] = NoStreak
                 \/ streak'[m].root # gate[s].identity.root
                 \/ m \notin DOMAIN fleet
                 \/ fleet[m].serial < gate[s].sequence]_vars
  BY <1>1 DEF Excused
<1> QED
  BY <1>2, InductiveInvariant, PTL DEF Spec, NoSpuriousRestart
=============================================================================
