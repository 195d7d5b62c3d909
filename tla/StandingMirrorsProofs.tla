------------------------ MODULE StandingMirrorsProofs -----------------------
(***************************************************************************)
(* Proofs about StandingMirrors, for any mirrors, panes, threads, poses,   *)
(* views, settings and lengths of time: the refresh cap and the grace of   *)
(* the fleet, that recognition hides no pane without an owner and draws    *)
(* only what it has just seen, and that occlusion culls and retains only   *)
(* on what was observed.  The parts share no variable; each has its own    *)
(* inductive invariant, and the section before the last takes the results  *)
(* to the composition.  The last is about MirrorScheduler, which gives     *)
(* those mirrors their slots.                                              *)
(***************************************************************************)
EXTENDS StandingMirrors, MirrorScheduler, FiniteSetTheorems, SequenceTheorems, TLAPS

-----------------------------------------------------------------------------
(* The clock.  The cap is not inductive: that a late capture still counts    *)
(* only once needs the bound on the deadline itself, in ClockInv.  The grid  *)
(* follows by itself, from the step of one deadline to the next.             *)

\* What a running clock has planned fits below its next deadline.
Counted ==
  clock.started =>
    /\ anchor <= clock.last /\ clock.last <= now
    /\ planned >= 1
    /\ clock.interval > 0 => planned * clock.interval <= clock.next - anchor

\* Together they are inductive.
ClockInv == ClockTyped /\ Counted /\ Capped

\* The deadline after a due one is later than now by an interval at most, and
\* later than the old one by an interval at least.
LEMMA FollowingFact ==
  ASSUME NEW deadline \in Nat, NEW time \in Nat, NEW r \in Nat, r > 0, time >= deadline
  PROVE  /\ Following(deadline, time, r) \in Nat
         /\ deadline + r <= Following(deadline, time, r)
         /\ time < Following(deadline, time, r)
         /\ Following(deadline, time, r) <= time + r
<1> DEFINE d == time - deadline
           q == d \div r
<1>1. d \in Nat
  OBVIOUS
<1>2. q \in Nat /\ q * r <= d /\ d < q * r + r
  <2>1. q \in Int /\ d = r * q + (d % r) /\ d % r \in 0 .. r - 1
    BY <1>1
  <2>2. r * q = q * r
    BY <2>1
  <2>3. q >= 0
    BY <1>1, <2>1
  <2> QED
    BY <1>1, <2>1, <2>2, <2>3
<1>3. (q + 1) * r = q * r + r /\ q * r \in Nat
  BY <1>2
<1>4. Following(deadline, time, r) = deadline + (q + 1) * r
  BY DEF Following
<1> HIDE DEF q
<1> QED
  BY <1>1, <1>2, <1>3, <1>4 DEF d

\* A new clock has planned nothing.
LEMMA ClockStarts == ClockInit => ClockInv
<1> SUFFICES ASSUME ClockInit PROVE ClockInv
  OBVIOUS
<1>1. clock \in Clocks(Nat, Intervals \cup {0}) /\ ~clock.started
  BY DEF ClockInit, NewClock, Clocks
<1>2. now \in Times /\ anchor \in Times /\ planned \in Nat
  BY HandClockConstants DEF ClockInit, Times
<1>3. due \in BOOLEAN
  BY DEF ClockInit
<1> QED
  BY <1>1, <1>2, <1>3 DEF ClockInv, ClockTyped, Counted, Capped

\* A plan that starts the clock anew.
LEMMA RestartKeepsClock ==
  ASSUME ClockInv, NEW r \in Intervals, HandPlanned(r), Restarts(clock, now, r)
  PROVE  ClockInv'
<1>1. r \in Nat /\ now \in Times /\ now \in Nat /\ now' = now
  BY HandClockConstants DEF HandPlanned, ClockInv, ClockTyped, Times
<1>2. clock' = [next |-> now + r, last |-> now, interval |-> r, started |-> TRUE]
  BY DEF HandPlanned, Attempt, NextDeadline
<1>3. anchor' = now /\ planned' = 1 /\ due' = FALSE
  BY DEF HandPlanned
<1>4. clock'.next = now + r /\ clock'.last = now /\ clock'.interval = r
  BY <1>2
<1>5. clock' \in Clocks(Nat, Intervals \cup {0})
  BY <1>1, <1>2 DEF Clocks
<1>6. ClockTyped'
  BY <1>1, <1>3, <1>5 DEF ClockTyped
<1>7. Counted' /\ Capped'
  BY <1>1, <1>3, <1>4 DEF Counted, Capped
<1> QED
  BY <1>6, <1>7 DEF ClockInv

\* A plan on the running grid: the deadline passed, or it has not yet.
LEMMA PlanKeepsClock ==
  ASSUME ClockInv, NEW r \in Intervals, HandPlanned(r), ~Restarts(clock, now, r)
  PROVE  ClockInv'
<1>1. r \in Nat /\ r > 0 /\ now \in Times /\ now \in Nat /\ now' = now
  BY HandClockConstants DEF HandPlanned, ClockInv, ClockTyped, Times, Restarts
<1>2. clock.started /\ clock.interval = r /\ clock.last <= now
  BY DEF Restarts, ClockInv, Counted
<1>3. /\ clock.next \in Nat /\ clock.last \in Nat
      /\ anchor \in Times /\ anchor \in Nat /\ planned \in Nat
  BY HandClockConstants DEF ClockInv, ClockTyped, Clocks, Times
<1>4. /\ anchor <= clock.last /\ planned >= 1 /\ planned * r <= clock.next - anchor
      /\ (planned - 1) * r <= clock.last - anchor
      /\ clock.last < clock.next /\ clock.next <= clock.last + r
  BY <1>1, <1>2 DEF ClockInv, Counted, Capped
<1>5. anchor' = anchor /\ due' = FALSE
  BY DEF HandPlanned
<1>6. CASE now >= clock.next
  <2>1. clock' = [next |-> Following(clock.next, now, r), last |-> now,
                  interval |-> r, started |-> TRUE]
    BY <1>6 DEF HandPlanned, Attempt, NextDeadline
  <2>2. clock'.next = Following(clock.next, now, r) /\ clock'.last = now
        /\ clock'.interval = r
    BY <2>1
  <2>3. /\ clock'.next \in Nat
        /\ clock.next + r <= clock'.next
        /\ now < clock'.next /\ clock'.next <= now + r
    <3> DEFINE f == Following(clock.next, now, r)
    <3>1. f \in Nat /\ clock.next + r <= f /\ now < f /\ f <= now + r
      BY <1>1, <1>3, <1>6, FollowingFact
    <3> HIDE DEF f
    <3> QED
      BY <2>2, <3>1 DEF f
  <2>4. planned' = planned + 1
    BY <1>6 DEF HandPlanned
  <2>5. (planned + 1) * r = planned * r + r /\ planned * r \in Nat
    BY <1>1, <1>3
  <2>6. ClockTyped'
    <3>1. clock' \in Clocks(Nat, Intervals \cup {0})
      BY <1>1, <2>1, <2>2, <2>3 DEF Clocks
    <3>2. now' \in Times /\ anchor' \in Times /\ planned' \in Nat
      BY <1>1, <1>3, <1>5, <2>4
    <3>3. due' \in BOOLEAN
      BY <1>5
    <3> QED
      BY <3>1, <3>2, <3>3 DEF ClockTyped
  <2>7. Counted'
    BY <1>1, <1>3, <1>4, <1>5, <1>6, <2>2, <2>3, <2>4, <2>5 DEF Counted
  <2>8. (planned' - 1) * r = planned * r
    BY <1>3, <2>4
  <2>9. Capped'
    BY <1>1, <1>3, <1>4, <1>5, <1>6, <2>2, <2>3, <2>5, <2>8 DEF Capped
  <2> QED
    BY <2>6, <2>7, <2>9 DEF ClockInv
<1>7. CASE now < clock.next
  <2> ~(now >= clock.next)
    BY <1>1, <1>3, <1>7
  <2>1. clock' = [next |-> clock.next, last |-> now, interval |-> r, started |-> TRUE]
    BY DEF HandPlanned, Attempt, NextDeadline
  <2>2. clock'.next = clock.next /\ clock'.last = now /\ clock'.interval = r
    BY <2>1
  <2>3. planned' = planned
    BY DEF HandPlanned
  <2>4. ClockTyped'
    <3>1. clock' \in Clocks(Nat, Intervals \cup {0})
      BY <1>1, <1>3, <2>1 DEF Clocks
    <3>2. now' \in Times /\ anchor' \in Times /\ planned' \in Nat
      BY <1>1, <1>3, <1>5, <2>3
    <3>3. due' \in BOOLEAN
      BY <1>5
    <3> QED
      BY <3>1, <3>2, <3>3 DEF ClockTyped
  <2>5. Counted'
    BY <1>1, <1>2, <1>3, <1>4, <1>5, <2>2, <2>3 DEF Counted
  <2>6. (planned' - 1) * r <= now - anchor
    <3>1. (planned - 1) * r \in Int
      BY <1>1, <1>3
    <3> QED
      BY <1>1, <1>2, <1>3, <1>4, <2>3, <3>1
  <2>7. Capped'
    BY <1>1, <1>2, <1>3, <1>4, <1>5, <1>7, <2>2, <2>6 DEF Capped
  <2> QED
    BY <2>4, <2>5, <2>7 DEF ClockInv
<1> QED
  BY <1>1, <1>3, <1>6, <1>7

\* Every step keeps the invariant.
LEMMA NextKeepsClock == ClockInv /\ [ClockNext]_clockVars => ClockInv'
<1> SUFFICES ASSUME ClockInv, [ClockNext]_clockVars PROVE ClockInv'
  OBVIOUS
<1>1. ASSUME NEW t \in Times, Pass(t) PROVE ClockInv'
  BY <1>1, HandClockConstants DEF ClockInv, ClockTyped, Counted, Capped, Pass, Clocks, Times
<1>2. ASSUME NEW r \in Intervals, HandDue(r) PROVE ClockInv'
  BY <1>2 DEF ClockInv, ClockTyped, Counted, Capped, HandDue
<1>3. CASE HandUnplanned
  BY <1>3 DEF ClockInv, ClockTyped, Counted, Capped, HandUnplanned
<1>4. ASSUME NEW r \in Intervals, HandPlanned(r) PROVE ClockInv'
  BY <1>4, RestartKeepsClock, PlanKeepsClock
<1>5. CASE UNCHANGED clockVars
  BY <1>5 DEF ClockInv, ClockTyped, Counted, Capped, clockVars
<1> QED
  BY <1>1, <1>2, <1>3, <1>4, <1>5 DEF ClockNext

\* The hand clock's variables keep their types for ever.
THEOREM ClockTypeHolds == ClockSpec => []ClockTyped
<1>1. ClockInv => ClockTyped
  BY DEF ClockInv
<1> QED
  BY <1>1, ClockStarts, NextKeepsClock, PTL DEF ClockSpec

\* Whole steps of r keep a distance a multiple of r.
LEMMA ModStep ==
  ASSUME NEW a \in Nat, NEW r \in Nat, r > 0, a % r = 0, NEW m \in Nat
  PROVE  (a + m * r) % r = 0
<1> DEFINE b == a + m * r
           x == a \div r + m - b \div r
<1>1. m * r \in Nat
  OBVIOUS
<1>2. b \in Nat
  BY <1>1
<1>3. a = r * (a \div r) /\ a \div r \in Int
  OBVIOUS
<1>4. b = r * (b \div r) + (b % r) /\ b % r \in 0 .. r - 1 /\ b \div r \in Int
  BY <1>2
<1>5. x \in Int /\ r * x = r * (a \div r) + r * m - r * (b \div r)
  BY <1>3, <1>4
<1>6. r * x = (b % r)
  <2>1. r * m = m * r
    OBVIOUS
  <2> HIDE DEF x
  <2> QED
    BY <1>3, <1>4, <1>5, <2>1
<1> HIDE DEF x, b
<1>7. x >= 1 => r * x >= r
  BY <1>5
<1>8. x <= -1 => r * x <= -r
  BY <1>5
<1>9. x = 0
  <2> DEFINE y == b % r
  <2>1. y \in 0 .. r - 1 /\ r * x = y
    BY <1>4, <1>6
  <2> HIDE DEF y
  <2>2. ~(x >= 1)
    BY <1>7, <2>1
  <2>3. ~(x <= -1)
    BY <1>8, <2>1
  <2> QED
    BY <1>5, <2>2, <2>3
<1>10. r * x = 0
  BY <1>9
<1> QED
  BY <1>6, <1>10 DEF b

\* And the grid.
LEMMA NextKeepsGrid == ClockInv /\ OnGrid /\ [ClockNext]_clockVars => OnGrid'
<1> SUFFICES ASSUME ClockInv, OnGrid, [ClockNext]_clockVars PROVE OnGrid'
  OBVIOUS
<1>1. ASSUME NEW r \in Intervals, HandPlanned(r) PROVE OnGrid'
  <2>1. r \in Nat /\ now \in Nat
    BY HandClockConstants DEF ClockInv, ClockTyped, Times
  <2>2. CASE Restarts(clock, now, r)
    <3>1. clock'.next = now + r /\ clock'.interval = r /\ anchor' = now
      BY <1>1, <2>2 DEF HandPlanned, Attempt, NextDeadline
    <3>2. (now + r) - now = r
      BY <2>1
    <3>3. r > 0 => r % r = 0
      <4>1. r > 0 => (0 + 1 * r) % r = 0
        BY <2>1, ModStep
      <4> QED
        BY <2>1, <4>1
    <3> QED
      BY <3>1, <3>2, <3>3 DEF OnGrid
  <2>3. CASE ~Restarts(clock, now, r)
    <3>1. clock.started /\ clock.interval = r /\ r > 0 /\ anchor' = anchor
      BY <1>1, <2>1, <2>3 DEF Restarts, HandPlanned
    <3>2. /\ clock.next \in Nat /\ anchor \in Nat /\ clock.next - anchor \in Nat
          /\ (clock.next - anchor) % r = 0
      <4>1. clock.next \in Nat /\ anchor \in Nat /\ clock.last \in Nat
        BY HandClockConstants DEF ClockInv, ClockTyped, Clocks, Times
      <4>2. anchor <= clock.last /\ clock.last < clock.next
        BY <3>1 DEF ClockInv, Counted, Capped
      <4> QED
        BY <3>1, <4>1, <4>2 DEF OnGrid
    <3>3. CASE now >= clock.next
      <4> DEFINE m == (now - clock.next) \div r + 1
      <4>1. clock'.next = clock.next + m * r /\ clock'.interval = r
        BY <1>1, <2>3, <3>3 DEF HandPlanned, Attempt, NextDeadline, Following
      <4>2. m \in Nat
        <5>1. now - clock.next \in Nat
          BY <2>1, <3>2, <3>3
        <5> DEFINE q == (now - clock.next) \div r
        <5>2. q \in Int /\ q >= 0
          BY <2>1, <3>1, <5>1
        <5> HIDE DEF q
        <5>3. q + 1 \in Nat
          BY <5>2
        <5> QED
          BY <5>3 DEF q
      <4> HIDE DEF m
      <4>3. ((clock.next - anchor) + m * r) % r = 0
        BY <2>1, <3>1, <3>2, <4>2, ModStep
      <4>4. (clock.next - anchor) + m * r = (clock.next + m * r) - anchor
        <5>1. m * r \in Int
          BY <2>1, <4>2
        <5> QED
          BY <3>2, <5>1
      <4> QED
        BY <3>1, <4>1, <4>3, <4>4 DEF OnGrid
    <3>4. CASE ~(now >= clock.next)
      <4>1. clock'.next = clock.next /\ clock'.interval = r
        BY <1>1, <2>3, <3>4 DEF HandPlanned, Attempt, NextDeadline
      <4> QED
        BY <3>1, <3>2, <4>1 DEF OnGrid
    <3> QED
      BY <3>3, <3>4
  <2> QED
    BY <2>2, <2>3
<1>2. CASE \E t \in Times : Pass(t)
  BY <1>2 DEF Pass, OnGrid
<1>3. CASE \E r \in Intervals : HandDue(r)
  BY <1>3 DEF HandDue, OnGrid
<1>4. CASE HandUnplanned
  BY <1>4 DEF HandUnplanned, OnGrid
<1>5. CASE UNCHANGED clockVars
  BY <1>5 DEF clockVars, OnGrid
<1> QED
  BY <1>1, <1>2, <1>3, <1>4, <1>5 DEF ClockNext

\* The refresh cap holds, the clock never stalls and its deadlines keep their
\* grid, for any settings and any changes of them between the two reads of a
\* fence.
THEOREM CadenceHolds == ClockSpec => []Cadence
<1>1. ClockInit => OnGrid
  BY DEF ClockInit, NewClock, OnGrid
<1>2. ClockInv /\ OnGrid => Cadence
  BY DEF ClockInv, Cadence
<1> QED
  BY <1>1, <1>2, ClockStarts, NextKeepsClock, NextKeepsGrid, PTL DEF ClockSpec

-----------------------------------------------------------------------------
(* The fleet.  GraceOnce is not inductive: that the count starts once per    *)
(* image needs what the entry remembers of the image it let pass last        *)
(* (Remembered), and that an image on show has a capture of its own          *)
(* (Numbered).                                                               *)

\* Images and entries.
ImageSet == [lifetime : Nat, at : Nat, capture : Nat]

EntrySet == [lifetime : Nat, clock : Clocks(Nat, Intervals \cup {0}), visible : BOOLEAN,
             resumeSource : Nat, resumeCapture : Nat, expired : Nat]

\* The types; the counters only grow.
FleetTyped ==
  /\ frame \in Nat /\ lifetime \in Nat \ {0} /\ slot \in Nat
  /\ image \in ImageSet
  /\ grace \in [capture : Nat, first : Nat, last : Nat]
  /\ entry \in EntrySet

\* Every published image has a capture number, frames number from 1, and no
\* entry resumes in a frame to come.
Numbered ==
  /\ stage # "fenced" => frame # 0
  /\ image.lifetime # 0 => image.capture # 0
  /\ entry.resumeSource <= frame

\* The entry still knows the image it let pass last, and when that began.
Remembered ==
  \/ grace = NoGrace
  \/ /\ grace.capture # 0 /\ entry.lifetime # 0
     /\ entry.resumeCapture = grace.capture
     /\ entry.resumeSource <= grace.first
     /\ grace.last - entry.resumeSource < 3

\* Together they are inductive.
FleetInv == FleetTyped /\ Numbered /\ Remembered

\* A clock keeps its type when it is woken or has attempted a capture.
LEMMA WakeType ==
  ASSUME NEW c \in Clocks(Nat, Intervals \cup {0})
  PROVE  Wake(c) \in Clocks(Nat, Intervals \cup {0})
  BY DEF Wake, Clocks

\* So does a clock that has attempted a capture.
LEMMA AttemptType ==
  ASSUME NEW c \in Clocks(Nat, Intervals \cup {0}), NEW t \in Nat, NEW r \in Intervals
  PROVE  Attempt(c, t, r) \in Clocks(Nat, Intervals \cup {0})
<1>1. r \in Nat
  BY HandClockConstants
<1>2. ~Restarts(c, t, r) /\ t >= c.next => Following(c.next, t, r) \in Nat
  <2>1. SUFFICES ASSUME ~Restarts(c, t, r), t >= c.next PROVE Following(c.next, t, r) \in Nat
    OBVIOUS
  <2>2. r > 0 /\ c.next \in Nat
    BY <1>1, <2>1 DEF Restarts, Clocks
  <2>3. (t - c.next) \div r \in Nat
    BY <1>1, <2>1, <2>2
  <2>4. ((t - c.next) \div r + 1) * r \in Nat
    BY <1>1, <2>3
  <2> QED
    BY <2>2, <2>4 DEF Following
<1>3. NextDeadline(c, t, r) \in Nat
  BY <1>1, <1>2 DEF NextDeadline, Clocks
<1> QED
  BY <1>3 DEF Attempt, Clocks

\* e is an entry that remembers of its grace what f remembers.
Alike(e, f) ==
  /\ e \in EntrySet
  /\ e.lifetime = f.lifetime
  /\ e.resumeSource = f.resumeSource /\ e.resumeCapture = f.resumeCapture

\* At the start nothing is shown.
LEMMA FleetStarts == FleetInit => FleetInv
<1> SUFFICES ASSUME FleetInit PROVE FleetInv
  OBVIOUS
<1>1. NewClock \in Clocks(Nat, Intervals \cup {0})
  BY DEF NewClock, Clocks
<1> QED
  BY <1>1 DEF FleetInit, FleetInv, FleetTyped, Numbered, Remembered, NoEntry, NoImage, NoGrace, ImageSet, EntrySet

\* What a first return leaves in the entry.
LEMMA ResumedFact ==
  ASSUME NEW e \in EntrySet, NEW c \in Nat, frame \in Nat, Resumed(e, c) # e
  PROVE  /\ Resumed(e, c) \in EntrySet
         /\ Found(e) /\ e.resumeCapture # c
         /\ Resumed(e, c).lifetime = e.lifetime
         /\ Resumed(e, c).resumeSource = frame /\ Resumed(e, c).resumeCapture = c
<1> DEFINE w == Wake(e.clock)
<1>1. /\ Found(e) /\ e.resumeCapture # c
      /\ Resumed(e, c) = [e EXCEPT !.resumeSource = frame, !.resumeCapture = c, !.clock = w]
  BY DEF Resumed
<1>2. w \in Clocks(Nat, Intervals \cup {0})
  BY WakeType DEF EntrySet
<1> HIDE DEF w
<1> QED
  BY <1>1, <1>2 DEF EntrySet

\* An image noted as expired changes nothing that is remembered.
LEMMA ExpiredFact ==
  ASSUME NEW c \in Nat, entry \in EntrySet
  PROVE  Alike(Expired(entry, c), entry)
<1> DEFINE w == Wake(entry.clock)
<1>1. w \in Clocks(Nat, Intervals \cup {0})
  BY WakeType DEF EntrySet
<1>2. Expired(entry, c) \in {entry, [entry EXCEPT !.expired = c, !.clock = w]}
  BY DEF Expired
<1> HIDE DEF w
<1> QED
  BY <1>1, <1>2 DEF EntrySet, Alike

\* A delivery changes what the entry remembers only together with the grace.
LEMMA DeliveryKeepsFleet ==
  ASSUME FleetInv, NEW covered \in BOOLEAN, DeliverAged(covered)
  PROVE  FleetInv'
<1> DEFINE old == Expired(entry, image.capture)
           new == IF covered THEN Resumed(old, image.capture) ELSE old
           passes == covered /\ ResumeImage(new, image)
           again == [grace EXCEPT !.last = frame]
           first == [capture |-> image.capture, first |-> frame, last |-> frame]
<1>1. Alike(old, entry)
  BY ExpiredFact DEF FleetInv, FleetTyped, ImageSet
<1>2. /\ image.lifetime = lifetime /\ image.capture # 0
      /\ image.at < frame /\ frame - frame < 3
  BY FleetConstants DEF FleetInv, FleetTyped, Numbered, ImageSet, DeliverAged
<1>3. /\ entry' = new
      /\ grace' = IF ~passes THEN grace ELSE IF grace.capture = image.capture THEN again ELSE first
      /\ UNCHANGED <<frame, stage, lifetime, slot, image>>
  BY DEF DeliverAged
<1>4. again \in [capture : Nat, first : Nat, last : Nat] /\ again.capture = grace.capture
      /\ again.first = grace.first /\ again.last = frame
  BY DEF FleetInv, FleetTyped
<1>5. first \in [capture : Nat, first : Nat, last : Nat] /\ first.capture = image.capture
      /\ first.first = frame /\ first.last = frame
  BY DEF FleetInv, FleetTyped, ImageSet
<1>6. passes <=> covered /\ Found(new) /\ new.resumeCapture = image.capture
                 /\ image.at < new.resumeSource /\ frame - new.resumeSource < 3
  BY DEF ResumeImage
<1> HIDE DEF old, passes, again, first
<1>7. CASE new = old
  <2>1. new \in EntrySet /\ new.lifetime = entry.lifetime /\ new.resumeSource = entry.resumeSource
        /\ new.resumeCapture = entry.resumeCapture
    BY <1>1, <1>7 DEF Alike
  <2> HIDE DEF new
  <2>2. CASE ~passes
    BY <1>3, <2>1, <2>2 DEF FleetInv, FleetTyped, Numbered, Remembered
  <2>3. CASE passes
    <3>1. /\ new.lifetime = lifetime /\ new.resumeCapture = image.capture
          /\ frame - new.resumeSource < 3
      BY <1>6, <2>3 DEF Found
    <3> QED
      BY <1>2, <1>3, <1>4, <1>5, <2>1, <2>3, <3>1
      DEF FleetInv, FleetTyped, Numbered, Remembered, NoGrace, ImageSet
  <2> QED
    BY <2>2, <2>3
<1>8. CASE new # old
  <2>1. covered /\ new = Resumed(old, image.capture) /\ new # old
    BY <1>8
  <2>2. /\ new \in EntrySet /\ Found(old) /\ old.resumeCapture # image.capture
        /\ new.lifetime = old.lifetime
        /\ new.resumeSource = frame /\ new.resumeCapture = image.capture
    BY <1>1, <2>1, ResumedFact DEF Alike, FleetInv, FleetTyped, ImageSet
  <2> HIDE DEF new
  <2>3. new.lifetime = lifetime /\ lifetime # 0
    BY <2>2 DEF Found, FleetInv, FleetTyped
  <2>4. grace.capture # image.capture
    BY <1>1, <1>2, <2>2 DEF FleetInv, Remembered, Alike, NoGrace
  <2>5. grace' = first
    BY <1>2, <1>3, <1>6, <2>1, <2>2, <2>3, <2>4 DEF Found
  <2> QED
    BY <1>2, <1>3, <1>5, <2>2, <2>3, <2>5 DEF FleetInv, FleetTyped, Numbered, Remembered, ImageSet
<1> QED
  BY <1>7, <1>8

-----------------------------------------------------------------------------
\* Nor does a request.
LEMMA RequestedFact ==
  ASSUME NEW e \in EntrySet, NEW visible \in BOOLEAN
  PROVE  Alike(Requested(e, visible), e)
<1> DEFINE c == IF visible /\ ~e.visible THEN Wake(e.clock) ELSE e.clock
<1>1. c \in Clocks(Nat, Intervals \cup {0})
  BY WakeType DEF EntrySet
<1>2. Requested(e, visible) \in {e, [e EXCEPT !.clock = c, !.visible = visible]}
  BY DEF Requested
<1> HIDE DEF c
<1> QED
  BY <1>1, <1>2 DEF EntrySet, Alike

\* Nor does a plan.
LEMMA PlannedFact ==
  ASSUME NEW e \in EntrySet, frame \in Nat, NEW demanded, NEW plans, NEW r \in Intervals,
         PlannedFor(e, demanded, plans, r)
  PROVE  Alike(entry', e)
<1> DEFINE c == Attempt(e.clock, frame, r)
<1>1. c \in Clocks(Nat, Intervals \cup {0})
  BY AttemptType DEF EntrySet
<1>2. entry' \in {e, [e EXCEPT !.clock = c]}
  BY DEF PlannedFor
<1> HIDE DEF c
<1> QED
  BY <1>1, <1>2 DEF EntrySet, Alike

\* What a fence leaves of the image, whatever slot it gives the mirror.
LEMMA SlotFact ==
  ASSUME FleetInv, NEW to, SlotReconciled(to)
  PROVE  image' \in ImageSet /\ (image'.lifetime # 0 => image'.capture # 0)
  BY DEF SlotReconciled, FleetInv, FleetTyped, Numbered, NoImage, ImageSet

\* The fence keeps the entry's memory, or starts an entry whose grace is new.
LEMMA FenceKeepsFleet ==
  ASSUME FleetInv, NEW admitted \in BOOLEAN, NEW complete \in [slots : BOOLEAN, entries : BOOLEAN],
         NEW visible \in BOOLEAN, NEW filtered \in BOOLEAN, NEW plans \in BOOLEAN,
         NEW interval \in Intervals, NEW again \in Intervals,
         WallFence(admitted, complete, visible, filtered, plans, interval, again)
  PROVE  FleetInv'
<1>1. PICK e \in Reconciled(admitted, complete.entries) :
        /\ PlannedFor(IF admitted THEN Requested(e, visible) ELSE e,
                      filtered => Demands(IF admitted THEN Requested(e, visible) ELSE e,
                                          visible, interval), plans, again)
        /\ grace' = IF e.lifetime # entry.lifetime THEN NoGrace ELSE grace
  BY DEF WallFence
<1> DEFINE to == IF ~complete.slots THEN slot ELSE IF admitted THEN lifetime ELSE 0
           asked == IF admitted THEN Requested(e, visible) ELSE e
<1>2. SlotReconciled(to) /\ UNCHANGED <<frame, lifetime>> /\ stage = "ahead"
  BY DEF WallFence
<1>3. e \in {entry, NoEntry} \/ (e = Entered(lifetime) /\ entry.lifetime # lifetime)
  <2>1. e \in Reconciled(admitted, complete.entries)
    BY <1>1
  <2>2. CASE admitted /\ entry.lifetime = lifetime
    BY <2>1, <2>2 DEF Reconciled, Found
  <2>3. CASE admitted /\ entry.lifetime # lifetime
    <3>1. Reconciled(admitted, complete.entries) \subseteq {Entered(lifetime), entry}
      BY <2>3 DEF Reconciled, Found
    <3> QED
      BY <2>1, <2>3, <3>1
  <2>4. CASE ~admitted
    BY <2>1, <2>4 DEF Reconciled
  <2> QED
    BY <2>2, <2>3, <2>4
<1>4. NoEntry \in EntrySet /\ NoEntry.lifetime = 0 /\ NoEntry.resumeSource = 0
  BY DEF NoEntry, EntrySet, NewClock, Clocks
<1>5. Entered(lifetime) \in EntrySet /\ Entered(lifetime).lifetime = lifetime
      /\ Entered(lifetime).resumeSource = 0
  BY <1>4 DEF Entered, EntrySet, FleetInv, FleetTyped
<1>6. e \in EntrySet /\ e.resumeSource <= frame
  BY <1>3, <1>4, <1>5 DEF FleetInv, FleetTyped, Numbered
<1>7. Alike(asked, e)
  BY <1>6, RequestedFact DEF Alike
<1>8. Alike(entry', asked)
  <2>1. asked \in EntrySet /\ frame \in Nat
    BY <1>7 DEF Alike, FleetInv, FleetTyped
  <2> QED
    BY <1>1, <2>1, PlannedFact
<1>9. Alike(entry', e)
  BY <1>7, <1>8 DEF Alike
<1>10. image' \in ImageSet /\ (image'.lifetime # 0 => image'.capture # 0) /\ slot' \in Nat
  BY <1>2, SlotFact DEF SlotReconciled, FleetInv, FleetTyped
<1>11. stage' # "fenced" => frame # 0
  BY <1>2 DEF FleetInv, Numbered
<1>12. e.lifetime = entry.lifetime => e = entry \/ grace = NoGrace
  BY <1>3, <1>4, <1>5 DEF FleetInv, Remembered
<1>13. FleetTyped'
  BY <1>1, <1>2, <1>9, <1>10 DEF FleetInv, FleetTyped, Alike, NoGrace
<1>14. Numbered'
  BY <1>2, <1>6, <1>9, <1>10, <1>11 DEF Numbered, Alike
<1>15. Remembered'
  BY <1>1, <1>9, <1>12 DEF FleetInv, Remembered, Alike
<1> QED
  BY <1>13, <1>14, <1>15 DEF FleetInv

\* A fence without a selection, or none, keeps the invariant.
LEMMA UnselectedKeepsFleet ==
  ASSUME FleetInv, NEW plans \in BOOLEAN, NEW interval \in Intervals, WallUnselected(plans, interval)
  PROVE  FleetInv'
<1>1. /\ SlotReconciled(slot) /\ PlannedFor(entry, TRUE, plans, interval)
      /\ stage = "ahead" /\ UNCHANGED <<frame, lifetime, grace>>
  BY DEF WallUnselected
<1>2. Alike(entry', entry)
  BY <1>1, PlannedFact DEF FleetInv, FleetTyped
<1>3. image' \in ImageSet /\ (image'.lifetime # 0 => image'.capture # 0) /\ slot' \in Nat
  BY <1>1, SlotFact DEF SlotReconciled, FleetInv, FleetTyped
<1> QED
  BY <1>1, <1>2, <1>3 DEF FleetInv, FleetTyped, Numbered, Remembered, Alike

\* Every step keeps the invariant.
LEMMA NextKeepsFleet == FleetInv /\ [FleetNext]_<<clockVars, wall>> => FleetInv'
<1> SUFFICES ASSUME FleetInv, [FleetNext]_<<clockVars, wall>> PROVE FleetInv'
  OBVIOUS
<1>1. CASE UNCHANGED wall
  BY <1>1 DEF wall, FleetInv, FleetTyped, Numbered, Remembered
<1>2. CASE NextFrame
  BY <1>2 DEF NextFrame, FleetInv, FleetTyped, Numbered, Remembered, EntrySet
<1>3. CASE MirrorReloads
  BY <1>3 DEF MirrorReloads, FleetInv, FleetTyped, Numbered, Remembered, NoImage, ImageSet
<1>4. CASE \E covered \in BOOLEAN : DeliverAged(covered)
  BY <1>4, DeliveryKeepsFleet
<1>5. CASE \E admitted, visible, filtered, plans \in BOOLEAN :
             \E complete \in [slots : BOOLEAN, entries : BOOLEAN], interval, again \in Intervals :
               WallFence(admitted, complete, visible, filtered, plans, interval, again)
  BY <1>5, FenceKeepsFleet
<1>6. CASE \E plans \in BOOLEAN, interval \in Intervals : WallUnselected(plans, interval)
  BY <1>6, UnselectedKeepsFleet
<1>7. CASE \E success \in BOOLEAN : WallCaptured(success)
  <2>1. PICK success \in BOOLEAN : WallCaptured(success)
    BY <1>7
  <2>2. frame # 0 /\ UNCHANGED <<frame, lifetime, slot, entry, grace>> /\ stage' = "fenced"
        /\ image' \in {image, [lifetime |-> lifetime, at |-> frame, capture |-> frame]}
    BY <2>1 DEF WallCaptured, FleetInv, Numbered
  <2> QED
    BY <2>2 DEF FleetInv, FleetTyped, Numbered, Remembered, ImageSet
<1> QED
  BY <1>1, <1>2, <1>3, <1>4, <1>5, <1>6, <1>7 DEF FleetNext, WallNext, clockVars, wall

\* The grace lasts three frames at most.
LEMMA GraceFollows == FleetInv => GraceOnce
  BY DEF FleetInv, FleetTyped, Remembered, GraceOnce, NoGrace, EntrySet

\* The grace for a returning image (Fleet::ResumeImage): for every number of
\* departures, failed draws and failed captures, an entry lets an aged image
\* pass in three successive frames at most.
THEOREM GraceOnceHolds == FleetSpec => []GraceOnce
<1>1. FleetSpec => []FleetInv
  BY FleetStarts, NextKeepsFleet, PTL DEF FleetSpec
<1> QED
  BY <1>1, GraceFollows, PTL

-----------------------------------------------------------------------------
(* Recognition.  A pane that is hidden is owed by a thread only if that      *)
(* thread still acts for this load (RestoreOwed), and a picture fits the     *)
(* mirror in hand because a generation is never given twice (Known).         *)

\* What a lookup can find of a reference, where it can be, and what is kept of it.
Statuses == {"eligible", "transient", "gone"}
PlaceSet == Poses \cup {Flat, NoBounds}
SightingSet == [form : Forms, life : Nat, generation : Nat, status : Statuses, place : PlaceSet]
CandidateSet == [generation : Nat \ {0}, life : Nat, place : PlaceSet]
PictureSet == [form : Forms, generation : Nat, life : Nat, place : PlaceSet]
WorkSet == [at : {"noticed", "seen", "owing", "refresh"}, epoch : Nat, session : Nat,
            seen : SUBSET SightingSet, then : {"idle", "refresh"}, owes : SUBSET Forms]
NextSet == [at : {"next"}, use : {"delivery"}, todo : SUBSET PictureSet]
\* The render thread has a mirror in hand.
InHand == {"looking", "owing", "found", "capturing", "drawn", "hiding"}
LookSet == [at : InHand \cup {"next"}, use : {"capture", "delivery"}, form : Forms, wanted : Nat,
            seen : SightingSet, todo : SUBSET PictureSet, image : PictureSet \cup {NoFrame},
            live : BOOLEAN]

\* The types.
RecognitionTyped ==
  /\ actual \in [Forms -> [life : Nat, status : Statuses, place : PlaceSet]]
  /\ session \in Nat /\ loadEpoch \in Nat /\ lastGeneration \in Nat
  /\ loading \in {"no", "suspended", "counted", "cleared", "revoked", "replaced"}
  /\ candidates \in [Forms -> CandidateSet \cup {NoCandidate}]
  /\ frames \in [Forms -> PictureSet \cup {NoFrame}]
  /\ kept \in SUBSET PictureSet
  /\ hidden \in [Forms -> Nat]
  /\ work \in [Threads -> WorkSet \cup {Idle}]
  /\ \A t \in Threads : work[t].at = "seen" => IsFiniteSet(work[t].seen)
  /\ pass \in LookSet \cup NextSet \cup {Idle}

\* No candidate has a generation that is still to be given.
GenerationsGiven ==
  \A f \in Forms : candidates[f] # NoCandidate => candidates[f].generation <= lastGeneration

\* A picture, or a sighting that a lookup accepted, shows what the record of its
\* generation says, as long as there is that record.
Known(x) ==
  /\ x.generation <= lastGeneration
  /\ Current(x.form, x.generation) =>
       candidates[x.form].life = x.life /\ candidates[x.form].place = x.place

\* So do the published pictures, the kept ones, and those a delivery has to do.
PicturesKnown ==
  /\ \A f \in Forms : frames[f] # NoFrame => Known(frames[f])
  /\ \A x \in kept : Known(x)
  /\ pass.at # "idle" => \A x \in pass.todo : Known(x)

\* What the render thread holds is about one mirror and one generation.
PassKnown ==
  /\ pass.at \in InHand =>
       /\ pass.seen.form = pass.form /\ pass.seen.generation # 0
       /\ pass.use = "delivery" =>
            /\ pass.image \in PictureSet /\ Known(pass.image)
            /\ pass.image.form = pass.form /\ pass.image.generation = pass.wanted
  /\ pass.at \in InHand \ {"looking", "owing"} =>
       pass.seen.generation = pass.wanted /\ Known(pass.seen)

\* A thread of this load has yet to restore the pane.
Owed(f) ==
  \E t \in Threads : work[t].at = "owing" /\ f \in work[t].owes /\ work[t].epoch = loadEpoch

\* HiddenIsOwed, of threads whose revocation will count; a pane about to be
\* hidden is hidden for the candidate or owed already.
RestoreOwed ==
  /\ \A f \in Forms : hidden[f] # 0 =>
       \/ Current(f, hidden[f]) \/ Owed(f)
       \/ pass.at = "owing" /\ pass.form = f
       \/ loading \in {"suspended", "counted", "cleared"}
  /\ pass.at = "hiding" => Current(pass.form, pass.wanted) \/ Owed(pass.form)

\* A load finds the render thread between two mirrors, and its events are of
\* the load that is counted.
LoadsApart ==
  /\ Suspended => pass.at \in {"idle", "next"}
  /\ \A t \in Threads : work[t].at # "idle" =>
       /\ work[t].epoch <= loadEpoch
       /\ loading \notin {"no", "suspended"} => work[t].epoch # loadEpoch
       /\ work[t].epoch = loadEpoch => work[t].session = session

\* Together they are inductive.
RecognitionInv ==
  RecognitionTyped /\ GenerationsGiven /\ PicturesKnown /\ PassKnown /\ RestoreOwed /\ LoadsApart

-----------------------------------------------------------------------------
\* What a commit does to the records.
LEMMA RecordFacts ==
  ASSUME RecognitionTyped, NEW S \in SUBSET SightingSet, IsFiniteSet(S), Record(S)
  PROVE  /\ lastGeneration' \in Nat /\ lastGeneration <= lastGeneration'
         /\ candidates' \in [Forms -> CandidateSet \cup {NoCandidate}]
         /\ \A f \in Forms :
              \/ candidates'[f] = candidates[f]
              \/ /\ f \in Stale(S)
                 /\ \/ candidates'[f] = NoCandidate
                    \/ /\ lastGeneration < candidates'[f].generation
                       /\ candidates'[f].generation <= lastGeneration'
<1> DEFINE new == Changed(S)
           Of(f) == CHOOSE s \in new : s.form = f
           F == {s.form : s \in new}
<1>1. IsFiniteSet(new) /\ Cardinality(new) \in Nat
  BY FS_Subset, FS_CardinalityType DEF Changed
<1>2. lastGeneration \in Nat /\ candidates \in [Forms -> CandidateSet \cup {NoCandidate}]
  BY DEF RecognitionTyped
<1>3. PICK number \in Bijection(F, 1 .. Cardinality(new)) :
        candidates' = [f \in Forms |->
             IF f \in Lost(S) THEN NoCandidate
             ELSE IF f \in DOMAIN number
             THEN [generation |-> lastGeneration + number[f],
                   life |-> Of(f).life, place |-> Of(f).place]
             ELSE candidates[f]]
  BY DEF Record
<1>4. number \in [F -> 1 .. Cardinality(new)]
  BY <1>3 DEF Bijection, Injection, Surjection
<1>5. lastGeneration' = lastGeneration + Cardinality(new)
  BY DEF Record
<1>6. \A f \in F : number[f] \in Nat /\ 1 <= number[f] /\ number[f] <= Cardinality(new)
  BY <1>1, <1>4
<1>7. \A f \in F : Of(f) \in SightingSet
  BY DEF Changed
<1>8. F \subseteq Forms /\ F \subseteq Stale(S) /\ Lost(S) \subseteq Stale(S)
  BY DEF Changed, Stale, SightingSet
<1> HIDE DEF F, Of, new
<1>9. ASSUME NEW f \in F
      PROVE  [generation |-> lastGeneration + number[f], life |-> Of(f).life,
              place |-> Of(f).place] \in CandidateSet
  BY <1>2, <1>6, <1>7, <1>9 DEF CandidateSet, SightingSet
<1>10. DOMAIN number = F
  BY <1>4
<1>11. candidates' \in [Forms -> CandidateSet \cup {NoCandidate}]
  BY <1>2, <1>3, <1>9, <1>10
<1>12. ASSUME NEW f \in Forms
       PROVE  \/ candidates'[f] = candidates[f]
              \/ /\ f \in Stale(S)
                 /\ \/ candidates'[f] = NoCandidate
                    \/ /\ lastGeneration < candidates'[f].generation
                       /\ candidates'[f].generation <= lastGeneration'
  <2>1. CASE f \in Lost(S)
    BY <1>3, <1>8, <2>1
  <2>2. CASE f \notin Lost(S) /\ f \in F
    <3>1. candidates'[f].generation = lastGeneration + number[f]
      BY <1>3, <1>10, <2>2
    <3> QED
      BY <1>1, <1>2, <1>5, <1>6, <1>8, <2>2, <3>1
  <2>3. CASE f \notin Lost(S) /\ f \notin F
    BY <1>3, <1>10, <2>3
  <2> QED
    BY <2>1, <2>2, <2>3
<1> QED
  BY <1>1, <1>2, <1>5, <1>11, <1>12

-----------------------------------------------------------------------------
(* Types *)

\* What a lookup sees.
LEMMA SightingTyped ==
  ASSUME RecognitionTyped, NEW f \in Forms, NEW life \in Nat, NEW g \in Nat
  PROVE  Sighting(f, life, g) \in SightingSet
  BY DEF Sighting, SightingSet, RecognitionTyped, PlaceSet, Statuses

\* A sighting under another generation.
LEMMA SightingOfTyped ==
  ASSUME RecognitionTyped, NEW f \in Forms, candidates[f] # NoCandidate
  PROVE  SightingOf(f) \in SightingSet
<1>1. candidates[f].life \in Nat /\ candidates[f].generation \in Nat
  BY DEF RecognitionTyped, CandidateSet
<1> QED
  BY <1>1, SightingTyped DEF SightingOf

\* A render thread with a mirror in hand has all that belongs to one.
LEMMA Holding ==
  ASSUME RecognitionTyped
  PROVE  /\ pass.at \in InHand => pass \in LookSet
         /\ pass.at = "next" => pass \in LookSet \cup NextSet /\ pass.todo \in SUBSET PictureSet
         /\ pass.at = "idle" <=> pass = Idle
         /\ pass.at \in InHand \cup {"idle", "next"}
  BY DEF RecognitionTyped, LookSet, NextSet, Idle, InHand

\* A thread of events has all that belongs to its work.
LEMMA Working ==
  ASSUME RecognitionTyped, NEW t \in Threads
  PROVE  /\ work[t].at # "idle" => work[t] \in WorkSet
         /\ work[t].at = "idle" <=> work[t] = Idle
  BY DEF RecognitionTyped, WorkSet, Idle

\* Revocations and replacements keep the types.
LEMMA RevokeTyped ==
  ASSUME RecognitionTyped, NEW F \in SUBSET Forms, Revoke(F)
  PROVE  /\ frames' \in [Forms -> PictureSet \cup {NoFrame}]
         /\ hidden' \in [Forms -> Nat]
         /\ kept' \in SUBSET PictureSet
  BY DEF RecognitionTyped, Revoke

\* So does a replaced candidate.
LEMMA ReplacedTyped ==
  ASSUME RecognitionTyped, NEW F \in SUBSET Forms, Replaced(F)
  PROVE  actual' \in [Forms -> [life : Nat, status : Statuses, place : PlaceSet]]
<1>1. PICK place \in [F -> Poses] :
        actual' = [f \in Forms |->
         IF f \in F THEN [life |-> actual[f].life + 1, status |-> "eligible", place |-> place[f]]
         ELSE actual[f]]
  BY DEF Replaced
<1> QED
  BY <1>1 DEF RecognitionTyped, Statuses, PlaceSet

\* Only the thread t goes on.
LEMMA GoesTyped ==
  ASSUME RecognitionTyped, NEW t \in Threads, NEW w \in WorkSet \cup {Idle}, Goes(t, w),
         w.at = "seen" => IsFiniteSet(w.seen)
  PROVE  /\ work' \in [Threads -> WorkSet \cup {Idle}]
         /\ \A u \in Threads : work'[u].at = "seen" => IsFiniteSet(work'[u].seen)
  BY DEF RecognitionTyped, Goes

\* A delivery that starts, and one that looks for its next mirror.
LEMMA StartedTyped ==
  ASSUME RecognitionTyped, NEW at \in {"noticed", "seen"}, NEW S \in SUBSET SightingSet
  PROVE  Started(at, S) \in WorkSet /\ Started(at, S).seen = S
  BY DEF RecognitionTyped, Started, WorkSet

\* A look at one mirror.
LEMMA LookingTyped ==
  ASSUME RecognitionTyped, NEW use \in {"capture", "delivery"}, NEW f \in Forms,
         candidates[f] # NoCandidate, NEW g \in Nat, NEW todo \in SUBSET PictureSet
  PROVE  Looking(use, f, g, todo) \in LookSet
  BY SightingOfTyped DEF Looking, LookSet, InHand

\* Every variable keeps its type.
LEMMA EventsKeepTypes ==
  ASSUME RecognitionTyped, NEW t \in Threads,
         \/ \E f \in Forms : Notices(t, f) \/ Unloads(t, f)
         \/ Reads(t) \/ Refreshes(t) \/ Commits(t) \/ Revokes(t)
  PROVE  RecognitionTyped'
<1>1. ASSUME NEW f \in Forms, Notices(t, f) PROVE RecognitionTyped'
  <2>1. Sighting(f, actual[f].life, 0) \in SightingSet
    BY SightingTyped DEF RecognitionTyped
  <2>2. Started("noticed", {Sighting(f, actual[f].life, 0)}) \in WorkSet
    BY <2>1, StartedTyped
  <2>3. Started("noticed", {Sighting(f, actual[f].life, 0)}).at # "seen"
    BY DEF Started
  <2> QED
    BY <1>1, <2>2, <2>3, GoesTyped DEF RecognitionTyped, Notices, recognised, shown
<1>2. ASSUME NEW f \in Forms, Unloads(t, f) PROVE RecognitionTyped'
  <2> DEFINE s == [form |-> f, life |-> actual[f].life, generation |-> 0,
                   status |-> "gone", place |-> NoBounds]
  <2>1. s \in SightingSet
    BY DEF RecognitionTyped, SightingSet, Statuses, PlaceSet
  <2> HIDE DEF s
  <2>2. Started("seen", {s}) \in WorkSet /\ Started("seen", {s}).seen = {s} /\ IsFiniteSet({s})
    BY <2>1, StartedTyped, FS_Singleton
  <2>3. Goes(t, Started("seen", {s}))
    BY <1>2 DEF Unloads, s
  <2> QED
    BY <1>2, <2>2, <2>3, GoesTyped DEF RecognitionTyped, Unloads, recognised, shown
<1>3. CASE Reads(t)
  <2>1. work[t] \in WorkSet /\ work[t].at = "noticed"
    BY <1>3, Working DEF Reads
  <2>2. PICK s \in work[t].seen :
          LET now1 == Sighting(s.form, s.life, 0)
              sight == IF now1.place = Flat THEN [now1 EXCEPT !.status = "gone"] ELSE now1
          IN  Goes(t, IF Preserved(sight) THEN Idle
                      ELSE [work[t] EXCEPT !.at = "seen", !.seen = {sight},
                              !.then = IF sight.status = "gone" THEN "idle" ELSE "refresh"])
    BY <1>3 DEF Reads
  <2> DEFINE now1 == Sighting(s.form, s.life, 0)
             sight == IF now1.place = Flat THEN [now1 EXCEPT !.status = "gone"] ELSE now1
             w == [work[t] EXCEPT !.at = "seen", !.seen = {sight},
                     !.then = IF sight.status = "gone" THEN "idle" ELSE "refresh"]
  <2>3. now1 \in SightingSet
    <3>1. s \in SightingSet
      BY <2>1 DEF WorkSet
    <3> QED
      BY <3>1, SightingTyped DEF SightingSet
  <2> HIDE DEF now1
  <2>4. sight \in SightingSet
    BY <2>3 DEF SightingSet, Statuses
  <2> HIDE DEF sight
  <2>5. w \in WorkSet /\ w.seen = {sight}
    BY <2>1, <2>4 DEF WorkSet
  <2>6. Goes(t, IF Preserved(sight) THEN Idle ELSE w)
    BY <2>2 DEF sight, now1
  <2> HIDE DEF w
  <2>7. (IF Preserved(sight) THEN Idle ELSE w).at = "seen" =>
          IsFiniteSet((IF Preserved(sight) THEN Idle ELSE w).seen)
    BY <2>5, FS_Singleton DEF Idle
  <2>8. /\ work' \in [Threads -> WorkSet \cup {Idle}]
        /\ \A u \in Threads : work'[u].at = "seen" => IsFiniteSet(work'[u].seen)
    BY <2>5, <2>6, <2>7, GoesTyped
  <2> QED
    BY <1>3, <2>8 DEF RecognitionTyped, Reads, recognised, shown
<1>4. CASE Refreshes(t)
  <2> DEFINE C == {x \in Forms : candidates[x] # NoCandidate}
             S == {SightingOf(f) : f \in C}
  <2>1. S \in SUBSET SightingSet
    BY SightingOfTyped
  <2>2. IsFiniteSet(C)
    BY FS_Subset, RecognitionConstants
  <2>3. IsFiniteSet(S)
    <3> DEFINE sight == [f \in C |-> SightingOf(f)]
    <3>1. sight \in Surjection(C, S)
      BY DEF Surjection
    <3> HIDE DEF sight, C, S
    <3> QED
      BY <2>2, <3>1, FS_Surjection
  <2> HIDE DEF S
  <2>4. Started("seen", S) \in WorkSet /\ Started("seen", S).seen = S
    BY <2>1, StartedTyped
  <2>5. Goes(t, IF Suspended THEN Idle ELSE Started("seen", S))
    BY <1>4 DEF Refreshes, S
  <2>6. /\ work' \in [Threads -> WorkSet \cup {Idle}]
        /\ \A u \in Threads : work'[u].at = "seen" => IsFiniteSet(work'[u].seen)
    <3>1. CASE Suspended
      BY <2>5, <3>1, GoesTyped DEF Idle
    <3>2. CASE ~Suspended
      BY <2>3, <2>4, <2>5, <3>2, GoesTyped
    <3> QED
      BY <3>1, <3>2
  <2> QED
    BY <1>4, <2>6 DEF RecognitionTyped, Refreshes, recognised, shown
<1>5. CASE Commits(t)
  <2>1. work[t] \in WorkSet /\ work[t].at = "seen" /\ IsFiniteSet(work[t].seen)
    BY <1>5, Working DEF Commits, RecognitionTyped
  <2>2. CASE SameLoad(work[t])
    <3> DEFINE S == {s \in work[t].seen : Counts(s)}
    <3>1. S \in SUBSET SightingSet /\ IsFiniteSet(S) /\ Stale(S) \subseteq Forms
      <4>1. S \in SUBSET SightingSet /\ IsFiniteSet(S)
        BY <2>1, FS_Subset DEF WorkSet
      <4> QED
        BY <4>1 DEF Stale, Lost, Changed, SightingSet
    <3>2. Record(S) /\ Goes(t, Left(work[t], S))
      BY <1>5, <2>2 DEF Commits
    <3> HIDE DEF S
    <3>3. Left(work[t], S) \in WorkSet \cup {Idle} /\ Left(work[t], S).at # "seen"
      BY <2>1, <3>1 DEF Left, WorkSet, Idle
    <3>4. /\ work' \in [Threads -> WorkSet \cup {Idle}]
          /\ \A u \in Threads : work'[u].at = "seen" => IsFiniteSet(work'[u].seen)
      BY <3>2, <3>3, GoesTyped
    <3>5. lastGeneration' \in Nat /\ candidates' \in [Forms -> CandidateSet \cup {NoCandidate}]
      BY <3>1, <3>2, RecordFacts
    <3> QED
      BY <1>5, <3>4, <3>5 DEF RecognitionTyped, Commits, shown
  <2>3. CASE ~SameLoad(work[t])
    <3>1. Goes(t, Idle) /\ UNCHANGED recognised
      BY <1>5, <2>3 DEF Commits
    <3>2. /\ work' \in [Threads -> WorkSet \cup {Idle}]
          /\ \A u \in Threads : work'[u].at = "seen" => IsFiniteSet(work'[u].seen)
      BY <3>1, GoesTyped DEF Idle
    <3> QED
      BY <1>5, <3>1, <3>2 DEF RecognitionTyped, Commits, recognised, shown
  <2> QED
    BY <2>2, <2>3
<1>6. CASE Revokes(t)
  <2>1. work[t] \in WorkSet /\ work[t].at = "owing"
    BY <1>6, Working DEF Revokes
  <2>2. PICK f \in work[t].owes :
          /\ IF Revoked(work[t]) THEN Revoke({f}) /\ Withdrawn({f}) ELSE UNCHANGED <<shown, pass>>
          /\ Goes(t, IF work[t].owes # {f} THEN [work[t] EXCEPT !.owes = @ \ {f}]
                     ELSE IF work[t].then = "refresh" THEN [work[t] EXCEPT !.at = "refresh", !.owes = {}]
                     ELSE Idle)
    BY <1>6 DEF Revokes
  <2> DEFINE w == IF work[t].owes # {f} THEN [work[t] EXCEPT !.owes = @ \ {f}]
                  ELSE IF work[t].then = "refresh" THEN [work[t] EXCEPT !.at = "refresh", !.owes = {}]
                  ELSE Idle
  <2>3. w \in WorkSet \cup {Idle} /\ w.at # "seen"
    BY <2>1 DEF WorkSet, Idle
  <2>4. Goes(t, w)
    BY <2>2
  <2> HIDE DEF w
  <2>5. /\ work' \in [Threads -> WorkSet \cup {Idle}]
        /\ \A u \in Threads : work'[u].at = "seen" => IsFiniteSet(work'[u].seen)
    BY <2>3, <2>4, GoesTyped
  <2>6. f \in Forms
    BY <2>1 DEF WorkSet
  <2>7. /\ frames' \in [Forms -> PictureSet \cup {NoFrame}] /\ hidden' \in [Forms -> Nat]
        /\ kept' \in SUBSET PictureSet
    <3>1. CASE Revoked(work[t])
      BY <2>2, <2>6, <3>1, RevokeTyped
    <3>2. CASE ~Revoked(work[t])
      BY <2>2, <3>2 DEF shown, RecognitionTyped
    <3> QED
      BY <3>1, <3>2
  <2>8. pass' \in LookSet \cup NextSet \cup {Idle}
    <3>1. CASE pass' = pass
      BY <3>1 DEF RecognitionTyped
    <3>2. CASE pass.at = "capturing" /\ pass' = [pass EXCEPT !.live = FALSE]
      BY <3>2, Holding DEF InHand, LookSet
    <3> QED
      BY <2>2, <3>1, <3>2 DEF Withdrawn
  <2> QED
    BY <1>6, <2>5, <2>7, <2>8 DEF RecognitionTyped, Revokes, recognised
<1> QED
  BY <1>1, <1>2, <1>3, <1>4, <1>5, <1>6

\* The steps of the render thread keep the types.
LEMMA PassKeepsTypes ==
  ASSUME RecognitionTyped,
         \/ LookupRecords \/ LookupRevokes
         \/ \E f \in Forms : CaptureSeeks(f)
         \/ CaptureBegins \/ CaptureEnds
         \/ DeliveryStarts \/ DeliveryEnds
         \/ \E picture \in (IF pass.at = "next" THEN pass.todo ELSE {}) :
              DeliverySkips(picture) \/ DeliverySeeks(picture)
         \/ LocationRejects \/ Draws \/ NotHidden \/ HideChecks \/ Hides
  PROVE  RecognitionTyped'
<1>0. pass.at \in InHand => pass \in LookSet
  BY Holding
<1>1. CASE LookupRecords
  <2> DEFINE S == {s \in {pass.seen} : Counts(s)}
  <2>1. pass \in LookSet /\ pass.at = "looking"
    BY <1>0, <1>1 DEF LookupRecords, InHand
  <2>2. S \in SUBSET SightingSet /\ IsFiniteSet(S)
    <3>1. IsFiniteSet({pass.seen}) /\ S \subseteq {pass.seen}
      BY FS_Singleton
    <3>2. IsFiniteSet(S)
      BY <3>1, FS_Subset
    <3> QED
      BY <2>1, <3>2 DEF LookSet
  <2>3. Record(S)
    BY <1>1 DEF LookupRecords
  <2>4. pass' \in {[pass EXCEPT !.at = "owing"], [pass EXCEPT !.at = "found"], Failed}
    BY <1>1 DEF LookupRecords
  <2>5. pass' \in LookSet \cup NextSet \cup {Idle}
    BY <2>1, <2>4 DEF Failed, LookSet, InHand
  <2> HIDE DEF S
  <2>6. lastGeneration' \in Nat /\ candidates' \in [Forms -> CandidateSet \cup {NoCandidate}]
    BY <2>2, <2>3, RecordFacts
  <2> QED
    BY <1>1, <2>5, <2>6 DEF RecognitionTyped, LookupRecords, shown
<1>2. CASE LookupRevokes
  <2>1. pass \in LookSet
    BY <1>0, <1>2 DEF LookupRevokes, InHand
  <2>2. pass.form \in Forms /\ pass' \in LookSet \cup {Idle}
    BY <1>2, <2>1 DEF LookupRevokes, Failed, LookSet
  <2>3. /\ frames' \in [Forms -> PictureSet \cup {NoFrame}] /\ hidden' \in [Forms -> Nat]
        /\ kept' \in SUBSET PictureSet
    BY <1>2, <2>2, RevokeTyped DEF LookupRevokes
  <2> QED
    BY <1>2, <2>2, <2>3 DEF RecognitionTyped, LookupRevokes, recognised
<1>3. ASSUME NEW f \in Forms, CaptureSeeks(f) PROVE RecognitionTyped'
  <2>1. candidates[f].generation \in Nat /\ {} \in SUBSET PictureSet
    BY <1>3 DEF CaptureSeeks, RecognitionTyped, CandidateSet
  <2>2. pass' \in LookSet
    BY <1>3, <2>1, LookingTyped DEF CaptureSeeks
  <2> QED
    BY <1>3, <2>2 DEF RecognitionTyped, CaptureSeeks, recognised, shown
<1>4. CASE CaptureBegins
  <2>1. pass \in LookSet
    BY <1>0, <1>4 DEF CaptureBegins, InHand
  <2>2. pass' \in LookSet
    BY <1>4, <2>1 DEF CaptureBegins, LookSet, InHand
  <2> QED
    BY <1>4, <2>1, <2>2 DEF RecognitionTyped, CaptureBegins, recognised
<1>5. CASE CaptureEnds
  <2>1. pass \in LookSet
    BY <1>0, <1>5 DEF CaptureEnds, InHand
  <2>2. pass.form \in Forms /\ Captured \in PictureSet
    BY <2>1 DEF LookSet, Captured, PictureSet, SightingSet
  <2>3. frames' \in [Forms -> PictureSet \cup {NoFrame}]
    BY <1>5, <2>2 DEF CaptureEnds, RecognitionTyped
  <2> QED
    BY <1>5, <2>3 DEF RecognitionTyped, CaptureEnds, recognised
<1>6. CASE DeliveryStarts
  <2>1. kept' \in SUBSET PictureSet
    BY <1>6 DEF DeliveryStarts, Published, RecognitionTyped
  <2>2. pass' \in NextSet
    BY <1>6, <2>1 DEF DeliveryStarts, NextSet
  <2>3. hidden' \in [Forms -> Nat]
    BY <1>6 DEF DeliveryStarts, Uncovered
  <2> QED
    BY <1>6, <2>1, <2>2, <2>3 DEF RecognitionTyped, DeliveryStarts, recognised
<1>7. CASE DeliveryEnds
  BY <1>7 DEF RecognitionTyped, DeliveryEnds, recognised, shown
<1>8. ASSUME pass.at = "next", NEW picture \in pass.todo, DeliverySkips(picture)
      PROVE  RecognitionTyped'
  <2>1. pass \in LookSet \cup NextSet
    BY <1>8, Holding
  <2>2. pass' \in LookSet \cup NextSet
    BY <1>8, <2>1 DEF DeliverySkips, LookSet, NextSet
  <2> QED
    BY <1>8, <2>2 DEF RecognitionTyped, DeliverySkips, recognised, shown
<1>9. ASSUME pass.at = "next", NEW picture \in pass.todo, DeliverySeeks(picture)
      PROVE  RecognitionTyped'
  <2>1. picture \in PictureSet /\ pass.todo \ {picture} \in SUBSET PictureSet
    BY <1>9, Holding
  <2> DEFINE look == Looking("delivery", picture.form, picture.generation, pass.todo \ {picture})
  <2>2. look \in LookSet
    BY <1>9, <2>1, LookingTyped DEF DeliverySeeks, PictureSet
  <2>3. pass' = [look EXCEPT !.image = picture]
    BY <1>9 DEF DeliverySeeks
  <2> HIDE DEF look
  <2>4. pass' \in LookSet
    BY <2>1, <2>2, <2>3 DEF LookSet
  <2> QED
    BY <1>9, <2>4 DEF RecognitionTyped, DeliverySeeks, recognised, shown
<1>10. CASE LocationRejects
  <2>1. pass \in LookSet
    BY <1>0, <1>10 DEF LocationRejects, InHand
  <2>2. pass.form \in Forms /\ pass' \in LookSet
    BY <1>10, <2>1 DEF LocationRejects, LookSet
  <2>3. /\ frames' \in [Forms -> PictureSet \cup {NoFrame}] /\ hidden' \in [Forms -> Nat]
        /\ kept' \in SUBSET PictureSet
    BY <1>10, <2>2, RevokeTyped DEF LocationRejects
  <2> QED
    BY <1>10, <2>2, <2>3 DEF RecognitionTyped, LocationRejects, recognised
<1>11. CASE Draws \/ HideChecks
  <2>1. pass \in LookSet
    BY <1>0, <1>11 DEF Draws, HideChecks, InHand
  <2>2. pass' \in LookSet
    BY <1>11, <2>1 DEF Draws, HideChecks, LookSet, InHand
  <2> QED
    BY <1>11, <2>2 DEF RecognitionTyped, Draws, HideChecks, recognised, shown
<1>12. CASE NotHidden \/ Hides
  <2>1. pass \in LookSet
    BY <1>0, <1>12 DEF NotHidden, Hides, InHand
  <2>2. pass' \in LookSet /\ hidden' \in [Forms -> Nat]
    BY SMTT(40), <1>12, <2>1 DEF NotHidden, Hides, LookSet, RecognitionTyped
  <2> QED
    BY <1>12, <2>2 DEF RecognitionTyped, NotHidden, Hides, recognised
<1> QED
  BY <1>1, <1>2, <1>3, <1>4, <1>5, <1>6, <1>7, <1>8, <1>9, <1>10, <1>11, <1>12

\* The steps of the game and of its loads.
WorldStep ==
  \/ \E f \in Forms : ReferenceChanges(f) \/ FormReused(f)
  \/ SuspendLoad \/ CountLoad \/ ClearLoad \/ RevokeLoad \/ WorldReplaced \/ GameLoaded
  \/ NewGame

\* So do the game's.
LEMMA WorldKeepsTypes ==
  ASSUME RecognitionTyped, WorldStep
  PROVE  RecognitionTyped'
<1>1. ASSUME NEW f \in Forms, ReferenceChanges(f) PROVE RecognitionTyped'
  <2>1. PICK sight \in {<<"gone", NoBounds>>, <<"transient", NoBounds>>}
                       \cup ({"eligible"} \X (Poses \cup {Flat, NoBounds})) :
          actual' = [actual EXCEPT ![f] = [life |-> @.life, status |-> sight[1], place |-> sight[2]]]
    BY <1>1 DEF ReferenceChanges
  <2>2. sight[1] \in Statuses /\ sight[2] \in PlaceSet
    BY DEF Statuses, PlaceSet
  <2>3. actual' \in [Forms -> [life : Nat, status : Statuses, place : PlaceSet]]
    BY <2>1, <2>2 DEF RecognitionTyped
  <2> QED
    BY <1>1, <2>3 DEF RecognitionTyped, ReferenceChanges, recognised, shown
<1>2. ASSUME NEW f \in Forms, FormReused(f) PROVE RecognitionTyped'
  BY <1>2, ReplacedTyped DEF RecognitionTyped, FormReused, recognised, shown
<1>3. CASE SuspendLoad \/ CountLoad
  BY <1>3 DEF RecognitionTyped, SuspendLoad, CountLoad, LoadGoes, recognised, shown
<1>4. CASE ClearLoad
  BY <1>4 DEF RecognitionTyped, ClearLoad, ClearCandidates, LoadGoes, shown
<1>5. CASE RevokeLoad
  BY <1>5, RevokeTyped DEF RecognitionTyped, RevokeLoad, LoadGoes, recognised
<1>6. CASE WorldReplaced
  BY <1>6, ReplacedTyped DEF RecognitionTyped, WorldReplaced, LoadGoes, recognised, shown
<1>7. CASE GameLoaded
  BY <1>7, RevokeTyped DEF RecognitionTyped, GameLoaded, ClearCandidates, LoadGoes
<1>8. CASE NewGame
  BY <1>8, RevokeTyped, ReplacedTyped DEF RecognitionTyped, NewGame, ClearCandidates, LoadGoes
<1> QED
  BY <1>1, <1>2, <1>3, <1>4, <1>5, <1>6, <1>7, <1>8 DEF WorldStep

-----------------------------------------------------------------------------
(* Records and generations *)

\* The steps of a thread of events.
EventStep ==
  \E t \in Threads :
    \/ \E f \in Forms : Notices(t, f) \/ Unloads(t, f)
    \/ Reads(t) \/ Refreshes(t) \/ Commits(t) \/ Revokes(t)

\* The steps of the render thread.
PassStep ==
  \/ LookupRecords \/ LookupRevokes
  \/ \E f \in Forms : CaptureSeeks(f)
  \/ CaptureBegins \/ CaptureEnds
  \/ DeliveryStarts \/ DeliveryEnds
  \/ \E picture \in (IF pass.at = "next" THEN pass.todo ELSE {}) :
       DeliverySkips(picture) \/ DeliverySeeks(picture)
  \/ LocationRejects \/ Draws \/ NotHidden \/ HideChecks \/ Hides

\* A step is of a thread of events, of the render thread, or of the game.
LEMMA StepKinds == RecognitionNext => EventStep \/ PassStep \/ WorldStep
  BY Zenon DEF RecognitionNext, EventStep, PassStep, WorldStep

\* Every step keeps the types.
LEMMA TypesStay ==
  ASSUME RecognitionTyped, RecognitionNext
  PROVE  RecognitionTyped'
<1>1. CASE EventStep
  BY <1>1, EventsKeepTypes DEF EventStep
<1>2. CASE PassStep
  BY <1>2, PassKeepsTypes DEF PassStep
<1>3. CASE WorldStep
  BY <1>3, WorldKeepsTypes
<1> QED
  BY <1>1, <1>2, <1>3, StepKinds

\* A record is left, removed, or given a generation of its own.
Renumbered ==
  /\ lastGeneration <= lastGeneration'
  /\ \A f \in Forms :
       \/ candidates'[f] = candidates[f]
       \/ candidates'[f] = NoCandidate
       \/ /\ lastGeneration < candidates'[f].generation
          /\ candidates'[f].generation <= lastGeneration'

\* What an event or a lookup commits: the sightings that count.
LEMMA Sightings ==
  ASSUME RecognitionTyped
  PROVE  /\ \A t \in Threads : work[t].at = "seen" =>
              LET S == {s \in work[t].seen : Counts(s)}
              IN  S \in SUBSET SightingSet /\ IsFiniteSet(S)
         /\ pass.at = "looking" =>
              LET S == {s \in {pass.seen} : Counts(s)}
              IN  S \in SUBSET SightingSet /\ IsFiniteSet(S)
<1>1. ASSUME NEW t \in Threads, work[t].at = "seen"
      PROVE  LET S == {s \in work[t].seen : Counts(s)}
             IN  S \in SUBSET SightingSet /\ IsFiniteSet(S)
  <2>1. work[t] \in WorkSet /\ IsFiniteSet(work[t].seen)
    BY <1>1, Working DEF RecognitionTyped
  <2>2. IsFiniteSet({s \in work[t].seen : Counts(s)})
    BY <2>1, FS_Subset
  <2> QED
    BY <2>1, <2>2 DEF WorkSet
<1>2. ASSUME pass.at = "looking"
      PROVE  LET S == {s \in {pass.seen} : Counts(s)}
             IN  S \in SUBSET SightingSet /\ IsFiniteSet(S)
  <2>1. pass \in LookSet
    BY <1>2, Holding DEF InHand
  <2>2. IsFiniteSet({s \in {pass.seen} : Counts(s)})
    <3>1. IsFiniteSet({pass.seen})
      BY FS_Singleton
    <3> QED
      BY <3>1, FS_Subset
  <2> QED
    BY <2>1, <2>2 DEF LookSet
<1> QED
  BY <1>1, <1>2

\* Which records a step can touch: one is kept, gone, or has a new generation.
LEMMA Renumbers ==
  ASSUME RecognitionTyped, RecognitionNext
  PROVE  Renumbered
<1>1. lastGeneration \in Nat
  BY DEF RecognitionTyped
<1>2. UNCHANGED recognised => Renumbered
  BY <1>1 DEF recognised, Renumbered
<1>3. ClearCandidates => Renumbered
  BY <1>1 DEF ClearCandidates, Renumbered
<1>4. ASSUME NEW S \in SUBSET SightingSet, IsFiniteSet(S), Record(S) PROVE Renumbered
  BY <1>4, RecordFacts DEF Renumbered
<1>5. CASE EventStep
  <2>1. ASSUME NEW t \in Threads, Commits(t), SameLoad(work[t]) PROVE Renumbered
    BY <1>4, <2>1, Sightings DEF Commits
  <2>2. ASSUME NEW t \in Threads, Commits(t), ~SameLoad(work[t]) PROVE UNCHANGED recognised
    BY <2>2 DEF Commits
  <2>3. ASSUME NEW t \in Threads,
               \/ \E f \in Forms : Notices(t, f) \/ Unloads(t, f)
               \/ Reads(t) \/ Refreshes(t) \/ Revokes(t)
        PROVE  UNCHANGED recognised
    BY <2>3 DEF Notices, Unloads, Reads, Refreshes, Revokes
  <2> QED
    BY <1>2, <1>5, <2>1, <2>2, <2>3 DEF EventStep
<1>6. CASE PassStep
  <2>1. LookupRecords => Renumbered
    BY <1>4, Sightings DEF LookupRecords
  <2>2. ASSUME PassStep, ~LookupRecords PROVE UNCHANGED recognised
    BY <2>2 DEF PassStep, LookupRevokes, CaptureSeeks, CaptureBegins, CaptureEnds,
                DeliveryStarts, DeliveryEnds, DeliverySkips, DeliverySeeks, LocationRejects,
                Draws, NotHidden, HideChecks, Hides
  <2> QED
    BY <1>2, <1>6, <2>1, <2>2
<1>7. CASE WorldStep
  BY <1>2, <1>3, <1>7 DEF WorldStep, ReferenceChanges, FormReused, SuspendLoad, CountLoad,
     ClearLoad, RevokeLoad, WorldReplaced, GameLoaded, NewGame
<1> QED
  BY <1>5, <1>6, <1>7, StepKinds

\* What is known of a generation stays known when the records are renumbered.
LEMMA KnownStays ==
  ASSUME RecognitionTyped, Renumbered, RecognitionTyped', NEW x \in PictureSet \cup SightingSet, Known(x)
  PROVE  Known(x)'
<1>1. x.form \in Forms /\ x.generation \in Nat
  BY DEF PictureSet, SightingSet
<1>2. lastGeneration \in Nat /\ lastGeneration' \in Nat
  BY DEF RecognitionTyped
<1>3. x.generation <= lastGeneration'
  BY <1>1, <1>2 DEF Known, Renumbered
<1>4. ASSUME Current(x.form, x.generation)'
      PROVE  candidates'[x.form] = candidates[x.form]
  <2>1. candidates'[x.form] # NoCandidate /\ candidates'[x.form].generation = x.generation
    BY <1>4 DEF Current
  <2>2. ~(lastGeneration < candidates'[x.form].generation)
    BY <1>1, <1>2, <2>1 DEF Known
  <2> QED
    BY <1>1, <2>1, <2>2 DEF Renumbered
<1> QED
  BY <1>3, <1>4 DEF Known, Current

\* Generations are given in order.
LEMMA GenerationsStay ==
  ASSUME RecognitionTyped, GenerationsGiven, Renumbered, RecognitionTyped'
  PROVE  GenerationsGiven'
<1> SUFFICES ASSUME NEW f \in Forms, candidates'[f] # NoCandidate
             PROVE  candidates'[f].generation <= lastGeneration'
  BY DEF GenerationsGiven
<1>1. lastGeneration \in Nat /\ lastGeneration' \in Nat
  BY DEF RecognitionTyped
<1>2. CASE candidates'[f] = candidates[f]
  <2>1. candidates[f].generation <= lastGeneration /\ candidates[f].generation \in Nat
    BY <1>2 DEF GenerationsGiven, RecognitionTyped, CandidateSet
  <2> QED
    BY <1>1, <1>2, <2>1 DEF Renumbered
<1> QED
  BY <1>2 DEF Renumbered

-----------------------------------------------------------------------------
(* Pictures *)

\* Where a picture comes from: it was there, or the capture in hand is published.
LEMMA PicturesStay ==
  ASSUME RecognitionTyped, PicturesKnown, PassKnown, RecognitionNext, Renumbered, RecognitionTyped'
  PROVE  PicturesKnown'
<1> DEFINE All == {frames[f] : f \in {g \in Forms : frames[g] # NoFrame}} \cup kept
                  \cup (IF pass.at # "idle" THEN pass.todo ELSE {})
<1>0. All \subseteq PictureSet /\ \A x \in All : Known(x)
  <2>1. pass.at # "idle" => pass.todo \in SUBSET PictureSet
    BY Holding DEF LookSet, InHand
  <2> QED
    BY <2>1 DEF RecognitionTyped, PicturesKnown
<1>1. \A x \in All : Known(x)'
  BY <1>0, KnownStays
<1>2. ASSUME UNCHANGED shown, pass'.at # "idle" => pass.at # "idle" /\ pass'.todo \subseteq pass.todo
      PROVE  PicturesKnown'
  BY <1>1, <1>2 DEF PicturesKnown, shown
<1>3. ASSUME NEW F \in SUBSET Forms, Revoke(F),
             pass'.at # "idle" => pass.at # "idle" /\ pass'.todo \subseteq pass.todo
      PROVE  PicturesKnown'
  BY <1>1, <1>3 DEF PicturesKnown, Revoke
<1>4. pass.at \in InHand => pass \in LookSet /\ pass.form \in Forms
  BY Holding DEF LookSet
<1>5. CASE EventStep
  <2>1. ASSUME NEW t \in Threads, Revokes(t) PROVE PicturesKnown'
    <3>1. work[t] \in WorkSet
      BY <2>1, Working DEF Revokes
    <3>2. PICK f \in work[t].owes :
            IF Revoked(work[t]) THEN Revoke({f}) /\ Withdrawn({f}) ELSE UNCHANGED <<shown, pass>>
      BY <2>1 DEF Revokes
    <3>3. f \in Forms
      BY <3>1 DEF WorkSet
    <3>4. Withdrawn({f}) => (pass'.at # "idle" => pass.at # "idle" /\ pass'.todo \subseteq pass.todo)
      BY <1>4 DEF Withdrawn, LookSet, InHand
    <3> QED
      BY <1>2, <1>3, <3>2, <3>3, <3>4
  <2>2. ASSUME NEW t \in Threads,
               \/ \E f \in Forms : Notices(t, f) \/ Unloads(t, f)
               \/ Reads(t) \/ Refreshes(t) \/ Commits(t)
        PROVE  UNCHANGED <<shown, pass>>
    BY <2>2 DEF Notices, Unloads, Reads, Refreshes, Commits
  <2> QED
    BY <1>2, <1>5, <2>1, <2>2 DEF EventStep
<1>6. CASE LookupRecords
  <2>1. pass \in LookSet /\ pass.at # "idle"
    BY <1>4, <1>6 DEF LookupRecords, InHand
  <2>2. pass'.at # "idle" => pass'.todo = pass.todo
    BY <1>6, <2>1 DEF LookupRecords, Failed, LookSet, Idle
  <2> QED
    BY <1>2, <1>6, <2>1, <2>2 DEF LookupRecords
<1>7. CASE LookupRevokes \/ LocationRejects
  <2>1. pass \in LookSet /\ pass.form \in Forms /\ pass.at # "idle"
    BY <1>4, <1>7 DEF LookupRevokes, LocationRejects, InHand
  <2>2. pass'.at # "idle" => pass'.todo = pass.todo
    BY <1>7, <2>1 DEF LookupRevokes, LocationRejects, Failed, LookSet, Idle
  <2> QED
    BY <1>3, <1>7, <2>1, <2>2 DEF LookupRevokes, LocationRejects
<1>8. ASSUME NEW f \in Forms, CaptureSeeks(f) PROVE PicturesKnown'
  <2>1. pass'.todo = {}
    BY <1>8 DEF CaptureSeeks, Looking
  <2> QED
    BY <1>1, <1>8, <2>1 DEF PicturesKnown, CaptureSeeks, shown
<1>9. CASE CaptureBegins
  <2>1. pass \in LookSet /\ pass.at # "idle" /\ pass.form \in Forms
    BY <1>4, <1>9 DEF CaptureBegins, InHand
  <2>2. pass'.todo = pass.todo
    BY <1>9, <2>1 DEF CaptureBegins, LookSet
  <2> QED
    BY <1>1, <1>9, <2>1, <2>2 DEF PicturesKnown, CaptureBegins, RecognitionTyped
<1>10. CASE CaptureEnds
  <2>1. pass \in LookSet /\ pass.form \in Forms /\ pass.at = "capturing"
    BY <1>4, <1>10 DEF CaptureEnds, InHand
  <2>2. Known(pass.seen) /\ pass.seen.generation = pass.wanted /\ pass.seen.form = pass.form
    BY <2>1 DEF PassKnown, InHand
  <2>3. Captured \in PictureSet /\ Known(Captured)
    BY <2>1, <2>2 DEF LookSet, Captured, PictureSet, SightingSet, Known
  <2>4. \A x \in PictureSet : Known(x) => Known(x)'
    BY KnownStays
  <2>5. \A f \in Forms : frames'[f] # NoFrame => frames'[f] \in All \cup {Captured}
    BY <1>10, <2>1 DEF CaptureEnds, RecognitionTyped
  <2>6. \A x \in All \cup {Captured} : Known(x)'
    BY <1>1, <2>3, <2>4
  <2> QED
    BY <1>10, <2>5, <2>6 DEF PicturesKnown, CaptureEnds, Idle
<1>11. CASE DeliveryStarts
  <2>1. kept' \subseteq All /\ pass'.todo = kept'
    BY <1>11 DEF DeliveryStarts, Published
  <2> QED
    BY <1>1, <1>11, <2>1 DEF PicturesKnown, DeliveryStarts
<1>12. CASE DeliveryEnds
  BY <1>2, <1>12 DEF DeliveryEnds, Idle
<1>13. ASSUME pass.at = "next", NEW picture \in pass.todo,
              DeliverySkips(picture) \/ DeliverySeeks(picture)
       PROVE  PicturesKnown'
  <2>1. pass'.todo \subseteq pass.todo
    <3>1. CASE DeliverySkips(picture)
      <4>1. pass \in LookSet \cup NextSet
        BY <1>13, Holding
      <4> QED
        BY <3>1, <4>1 DEF DeliverySkips, LookSet, NextSet
    <3>2. CASE DeliverySeeks(picture)
      BY <3>2 DEF DeliverySeeks, Looking
    <3> QED
      BY <1>13, <3>1, <3>2
  <2> QED
    BY <1>2, <1>13, <2>1 DEF DeliverySkips, DeliverySeeks
<1>14. CASE Draws \/ HideChecks \/ NotHidden \/ Hides
  <2>1. pass \in LookSet /\ pass.at # "idle"
    BY <1>4, <1>14 DEF Draws, HideChecks, NotHidden, Hides, InHand
  <2>2. pass'.todo = pass.todo
    BY <1>14, <2>1 DEF Draws, HideChecks, NotHidden, Hides, LookSet
  <2>3. UNCHANGED <<frames, kept>>
    BY <1>14 DEF Draws, HideChecks, NotHidden, Hides, shown
  <2> QED
    BY <1>1, <2>1, <2>2, <2>3 DEF PicturesKnown
<1>15. CASE WorldStep
  <2>1. RevokeLoad \/ GameLoaded \/ NewGame => Revoke(Forms) /\ UNCHANGED pass
    BY DEF RevokeLoad, GameLoaded, NewGame
  <2>2. WorldStep /\ ~(RevokeLoad \/ GameLoaded \/ NewGame) => UNCHANGED <<shown, pass>>
    BY DEF WorldStep, ReferenceChanges, FormReused, SuspendLoad, CountLoad, ClearLoad, WorldReplaced
  <2> QED
    BY <1>2, <1>3, <1>15, <2>1, <2>2
<1> QED
  BY <1>5, <1>6, <1>7, <1>8, <1>9, <1>10, <1>11, <1>12, <1>13, <1>14, <1>15, StepKinds DEF PassStep

\* What the render thread holds stays about one mirror.
LEMMA PassStays ==
  ASSUME RecognitionTyped, GenerationsGiven, PicturesKnown, PassKnown, RecognitionNext,
         Renumbered, RecognitionTyped'
  PROVE  PassKnown'
<1>0. \A x \in PictureSet \cup SightingSet : Known(x) => Known(x)'
  BY KnownStays
<1>1. pass.at \in InHand => pass \in LookSet /\ pass.form \in Forms /\ pass.seen \in SightingSet
  BY Holding DEF LookSet
\* The same hand goes on to a step for which nothing new is asked.
<1>2. ASSUME pass.at \in InHand, pass'.at \in InHand,
             pass'.at \in {"looking", "owing"} \/ pass.at \notin {"looking", "owing"},
             pass'.form = pass.form, pass'.seen = pass.seen, pass'.use = pass.use,
             pass'.wanted = pass.wanted, pass'.image = pass.image
      PROVE  PassKnown'
  BY <1>0, <1>1, <1>2 DEF PassKnown
<1>3. pass'.at \in {"idle", "next"} => PassKnown'
  BY DEF PassKnown, InHand
<1>4. CASE UNCHANGED pass
  BY <1>2, <1>3, <1>4, Holding
<1>5. CASE EventStep
  <2>1. ASSUME NEW t \in Threads, Revokes(t), ~UNCHANGED pass PROVE PassKnown'
    <3>1. pass.at = "capturing" /\ pass' = [pass EXCEPT !.live = FALSE]
      BY <2>1 DEF Revokes, Withdrawn
    <3> QED
      BY <1>1, <1>2, <3>1 DEF LookSet, InHand
  <2>2. ASSUME NEW t \in Threads,
               \/ \E f \in Forms : Notices(t, f) \/ Unloads(t, f)
               \/ Reads(t) \/ Refreshes(t) \/ Commits(t)
        PROVE  UNCHANGED pass
    BY <2>2 DEF Notices, Unloads, Reads, Refreshes, Commits
  <2> QED
    BY <1>4, <1>5, <2>1, <2>2 DEF EventStep
<1>6. CASE LookupRecords
  <2> DEFINE S == {s \in {pass.seen} : Counts(s)}
  <2>1. pass \in LookSet /\ pass.at = "looking" /\ Record(S)
    BY <1>1, <1>6 DEF LookupRecords, InHand
  <2>2. CASE pass' = [pass EXCEPT !.at = "owing"]
    BY <1>2, <2>1, <2>2 DEF LookSet, InHand
  <2>3. CASE pass' = Failed
    BY <1>3, <2>1, <2>3 DEF Failed, Idle, LookSet
  <2>4. CASE Stale(S) = {} /\ IsWanted(pass.seen) /\ pass' = [pass EXCEPT !.at = "found"]
    <3>1. pass.seen.generation # 0 /\ pass.seen.form = pass.form
      BY <2>1 DEF PassKnown, InHand
    <3>2. S = {pass.seen} /\ Current(pass.seen.form, pass.seen.generation)
          /\ candidates[pass.seen.form].life = pass.seen.life
      BY <2>4, <3>1 DEF IsWanted, Counts
    <3>3. pass.seen.status # "gone"
      BY <2>4, <3>2 DEF Stale, Lost, Current
    <3>4. SameRecord(pass.seen)
      BY <2>4, <3>2, <3>3 DEF Stale, Changed
    <3>5. pass.seen.generation <= lastGeneration
      BY <1>1, <2>1, <3>2 DEF GenerationsGiven, Current, SightingSet, InHand
    <3>6. Known(pass.seen) /\ pass.seen.generation = pass.wanted
      BY <2>4, <3>2, <3>4, <3>5 DEF Known, SameRecord, IsWanted
    <3>7. /\ pass'.at = "found" /\ pass'.form = pass.form /\ pass'.seen = pass.seen
          /\ pass'.use = pass.use /\ pass'.wanted = pass.wanted /\ pass'.image = pass.image
      BY <2>1, <2>4 DEF LookSet
    <3> QED
      BY <1>0, <1>1, <2>1, <3>1, <3>6, <3>7 DEF PassKnown, InHand
  <2> QED
    BY <1>6, <2>2, <2>3, <2>4 DEF LookupRecords
<1>7. CASE LookupRevokes \/ LocationRejects \/ NotHidden \/ Hides
  <2>1. pass \in LookSet
    BY <1>1, <1>7 DEF LookupRevokes, LocationRejects, NotHidden, Hides, InHand
  <2> QED
    BY <1>3, <1>7, <2>1 DEF LookupRevokes, LocationRejects, NotHidden, Hides, Failed, LookSet, Idle
<1>8. ASSUME NEW f \in Forms, CaptureSeeks(f) PROVE PassKnown'
  <2>1. candidates[f].generation # 0
    BY <1>8 DEF CaptureSeeks, RecognitionTyped, CandidateSet
  <2> QED
    BY <1>8, <2>1 DEF CaptureSeeks, Looking, SightingOf, Sighting, PassKnown, InHand
<1>9. CASE CaptureBegins \/ Draws \/ HideChecks
  <2>1. pass \in LookSet /\ pass.at \in InHand \ {"looking", "owing"}
    BY <1>1, <1>9 DEF CaptureBegins, Draws, HideChecks, InHand
  <2> QED
    BY <1>2, <1>9, <2>1 DEF CaptureBegins, Draws, HideChecks, LookSet, InHand
<1>10. CASE CaptureEnds \/ DeliveryStarts \/ DeliveryEnds
  BY <1>3, <1>10 DEF CaptureEnds, DeliveryStarts, DeliveryEnds, Idle
<1>11. ASSUME pass.at = "next", NEW picture \in pass.todo, DeliverySkips(picture)
       PROVE  PassKnown'
  <2>1. pass \in LookSet \cup NextSet
    BY <1>11, Holding
  <2>2. pass'.at = "next"
    BY <1>11, <2>1 DEF DeliverySkips, LookSet, NextSet
  <2> QED
    BY <1>3, <2>2
<1>12. ASSUME pass.at = "next", NEW picture \in pass.todo, DeliverySeeks(picture)
       PROVE  PassKnown'
  <2>1. picture \in PictureSet /\ Known(picture)
    BY <1>12, Holding DEF PicturesKnown
  <2>2. candidates[picture.form].generation # 0
    BY <1>12, <2>1 DEF DeliverySeeks, RecognitionTyped, CandidateSet, PictureSet
  <2>3. /\ pass'.at = "looking" /\ pass'.form = picture.form /\ pass'.wanted = picture.generation
        /\ pass'.seen = SightingOf(picture.form) /\ pass'.image = picture
    BY <1>12 DEF DeliverySeeks, Looking
  <2>4. pass'.seen.form = pass'.form /\ pass'.seen.generation # 0
    BY <2>2, <2>3 DEF SightingOf, Sighting
  <2> QED
    BY <1>0, <2>1, <2>3, <2>4 DEF PassKnown, InHand
<1>13. CASE WorldStep
  BY <1>4, <1>13 DEF WorldStep, ReferenceChanges, FormReused, SuspendLoad, CountLoad, ClearLoad,
     RevokeLoad, WorldReplaced, GameLoaded, NewGame
<1> QED
  BY <1>5, <1>6, <1>7, <1>8, <1>9, <1>10, <1>11, <1>12, <1>13, StepKinds DEF PassStep

-----------------------------------------------------------------------------
(* Threads and loads *)

\* What one step does to the work of a thread: nothing; it starts afresh outside
\* a load; or it goes on, in its load.
LEMMA WorkStep ==
  ASSUME RecognitionTyped, RecognitionNext, NEW t \in Threads
  PROVE  \/ work'[t] = work[t] \/ work'[t].at = "idle"
         \/ /\ ~Suspended /\ UNCHANGED <<loading, loadEpoch, session>>
            /\ work'[t].epoch = loadEpoch /\ work'[t].session = session
         \/ /\ work[t].at # "idle" /\ UNCHANGED <<loading, loadEpoch, session>>
            /\ work'[t].epoch = work[t].epoch /\ work'[t].session = work[t].session
<1> DEFINE Fine == \/ work'[t] = work[t] \/ work'[t].at = "idle"
                   \/ /\ ~Suspended /\ UNCHANGED <<loading, loadEpoch, session>>
                      /\ work'[t].epoch = loadEpoch /\ work'[t].session = session
                   \/ /\ work[t].at # "idle" /\ UNCHANGED <<loading, loadEpoch, session>>
                      /\ work'[t].epoch = work[t].epoch /\ work'[t].session = work[t].session
<1>0. work \in [Threads -> WorkSet \cup {Idle}]
  BY DEF RecognitionTyped
<1>1. ASSUME NEW u \in Threads, NEW w, Goes(u, w)
      PROVE  work'[t] = IF t = u THEN w ELSE work[t]
  BY <1>1 DEF Goes, RecognitionTyped
<1>2. ASSUME NEW u \in Threads, NEW f \in Forms, Notices(u, f) \/ Unloads(u, f) PROVE Fine
  <2>1. PICK w : Goes(u, w) /\ w.epoch = loadEpoch /\ w.session = session
    BY <1>2 DEF Notices, Unloads, Started
  <2>2. ~Suspended /\ UNCHANGED <<loading, loadEpoch, session>>
    BY <1>2 DEF Notices, Unloads
  <2> QED
    BY <1>1, <2>1, <2>2
<1>3. ASSUME NEW u \in Threads, Reads(u) PROVE Fine
  <2>1. work[u] \in WorkSet
    BY <1>3, Working DEF Reads
  <2>2. work'[u].at # "idle" => work'[u].epoch = work[u].epoch /\ work'[u].session = work[u].session
    BY <1>0, <1>3, <2>1 DEF Reads, Goes, WorkSet, Idle
  <2>3. work[u].at # "idle" /\ UNCHANGED <<loading, loadEpoch, session>>
    BY <1>3 DEF Reads
  <2> QED
    BY <1>0, <1>3, <2>2, <2>3 DEF Reads, Goes
<1>4. ASSUME NEW u \in Threads, Refreshes(u) PROVE Fine
  <2>1. PICK w : Goes(u, w) /\ (w.at # "idle" => ~Suspended /\ w.epoch = loadEpoch /\ w.session = session)
    BY <1>4 DEF Refreshes, Started, Idle
  <2>2. UNCHANGED <<loading, loadEpoch, session>>
    BY <1>4 DEF Refreshes
  <2> QED
    BY <1>1, <2>1, <2>2
<1>5. ASSUME NEW u \in Threads, Commits(u) PROVE Fine
  <2>1. work[u] \in WorkSet
    BY <1>5, Working DEF Commits
  <2>2. work'[u].at # "idle" => work'[u].epoch = work[u].epoch /\ work'[u].session = work[u].session
    <3>1. CASE SameLoad(work[u])
      <4>1. PICK S : Goes(u, Left(work[u], S))
        BY <1>5, <3>1 DEF Commits
      <4>2. work'[u] = Left(work[u], S)
        BY <1>0, <4>1 DEF Goes
      <4> QED
        BY <2>1, <4>2 DEF Left, WorkSet, Idle
    <3>2. CASE ~SameLoad(work[u])
      BY <1>0, <1>5, <3>2 DEF Commits, Goes, Idle
    <3> QED
      BY <3>1, <3>2
  <2>3. work[u].at # "idle" /\ UNCHANGED <<loading, loadEpoch, session>>
    BY <1>5 DEF Commits
  <2> QED
    BY <1>0, <1>5, <2>2, <2>3 DEF Commits, Goes
<1>6. ASSUME NEW u \in Threads, Revokes(u) PROVE Fine
  <2>1. work[u] \in WorkSet
    BY <1>6, Working DEF Revokes
  <2>2. work'[u].at # "idle" => work'[u].epoch = work[u].epoch /\ work'[u].session = work[u].session
    BY <1>0, <1>6, <2>1 DEF Revokes, Goes, WorkSet, Idle
  <2>3. work[u].at # "idle" /\ UNCHANGED <<loading, loadEpoch, session>>
    BY <1>6 DEF Revokes
  <2> QED
    BY <1>0, <1>6, <2>2, <2>3 DEF Revokes, Goes
<1>7. CASE EventStep
  BY <1>2, <1>3, <1>4, <1>5, <1>6, <1>7 DEF EventStep
<1>8. CASE PassStep
  <2>1. UNCHANGED work
    BY <1>8 DEF PassStep, LookupRecords, LookupRevokes, CaptureSeeks, CaptureBegins, CaptureEnds,
       DeliveryStarts, DeliveryEnds, DeliverySkips, DeliverySeeks, LocationRejects,
       Draws, NotHidden, HideChecks, Hides
  <2> QED
    BY <2>1
<1>9. CASE WorldStep
  BY <1>9 DEF WorldStep, ReferenceChanges, FormReused, SuspendLoad, CountLoad, ClearLoad,
     RevokeLoad, WorldReplaced, GameLoaded, NewGame
<1> QED
  BY <1>7, <1>8, <1>9, StepKinds

\* A load finds the render thread between two mirrors.
LEMMA PassApart ==
  ASSUME RecognitionTyped, RecognitionNext, LoadsApart
  PROVE  Suspended' => pass'.at \in {"idle", "next"}
<1> SUFFICES ASSUME Suspended' PROVE pass'.at \in {"idle", "next"}
  OBVIOUS
<1>1. Suspended => pass = Idle \/ pass.at = "next"
  BY Holding DEF LoadsApart
<1>2. CASE EventStep
  <2>1. Suspended /\ UNCHANGED loading
    BY <1>2 DEF EventStep, Notices, Unloads, Reads, Refreshes, Commits, Revokes, Suspended
  <2>2. ASSUME NEW t \in Threads, Revokes(t) PROVE UNCHANGED pass
    BY <1>1, <2>1, <2>2 DEF Revokes, Withdrawn, Idle
  <2>3. UNCHANGED pass
    BY <1>2, <2>2 DEF EventStep, Notices, Unloads, Reads, Refreshes, Commits
  <2> QED
    BY <1>1, <2>1, <2>3 DEF Idle
<1>3. CASE PassStep
  <2>1. Suspended
    BY <1>3 DEF PassStep, LookupRecords, LookupRevokes, CaptureSeeks, CaptureBegins, CaptureEnds,
       DeliveryStarts, DeliveryEnds, DeliverySkips, DeliverySeeks, LocationRejects,
       Draws, NotHidden, HideChecks, Hides, Suspended
  <2>2. CASE DeliveryStarts \/ DeliveryEnds
    BY <2>2 DEF DeliveryStarts, DeliveryEnds, Idle
  <2>3. ASSUME pass.at = "next", NEW picture \in pass.todo, DeliverySkips(picture)
        PROVE  pass'.at = "next"
    BY <2>3, Holding DEF DeliverySkips, LookSet, NextSet
  <2> QED
    BY <1>1, <1>3, <2>1, <2>2, <2>3 DEF PassStep, LookupRecords, LookupRevokes, CaptureSeeks,
       CaptureBegins, CaptureEnds, DeliverySeeks, LocationRejects, Draws, NotHidden, HideChecks,
       Hides, Idle
<1>4. CASE WorldStep
  <2>1. UNCHANGED pass /\ (Suspended \/ pass = Idle)
    BY <1>4 DEF WorldStep, ReferenceChanges, FormReused, SuspendLoad, CountLoad, ClearLoad,
       RevokeLoad, WorldReplaced, GameLoaded, NewGame, LoadGoes, Suspended
  <2> QED
    BY <1>1, <2>1 DEF Idle
<1> QED
  BY <1>2, <1>3, <1>4, StepKinds

\* Loads only move on: they are counted once, and the world is replaced after.
LoadStep ==
  \/ UNCHANGED <<loading, loadEpoch, session>>
  \/ loading = "no" /\ loading' = "suspended" /\ UNCHANGED <<loadEpoch, session>>
  \/ loading = "suspended" /\ loading' = "counted" /\ loadEpoch' = loadEpoch + 1 /\ UNCHANGED session
  \/ /\ loading \notin {"no", "suspended"} /\ loading' \notin {"no", "suspended"}
     /\ UNCHANGED loadEpoch
  \/ loading = "replaced" /\ loading' = "no" /\ UNCHANGED <<loadEpoch, session>>
  \/ \A t \in Threads : work'[t].at = "idle"

\* What the steps of a load, and the others, do to its stage.
LEMMA LoadSteps ==
  ASSUME RecognitionTyped, RecognitionNext
  PROVE  LoadStep
<1>1. CASE EventStep
  BY <1>1 DEF EventStep, Notices, Unloads, Reads, Refreshes, Commits, Revokes, LoadStep
<1>2. CASE PassStep
  BY <1>2 DEF PassStep, LookupRecords, LookupRevokes, CaptureSeeks, CaptureBegins, CaptureEnds,
       DeliveryStarts, DeliveryEnds, DeliverySkips, DeliverySeeks, LocationRejects,
       Draws, NotHidden, HideChecks, Hides, LoadStep
<1>3. CASE WorldStep
  <2>1. NewGame => LoadStep
    BY DEF NewGame, LoadStep, Idle
  <2>2. ClearLoad \/ RevokeLoad \/ WorldReplaced => LoadStep
    BY DEF ClearLoad, RevokeLoad, WorldReplaced, LoadGoes, LoadStep
  <2>3. SuspendLoad \/ CountLoad \/ GameLoaded => LoadStep
    BY DEF SuspendLoad, CountLoad, GameLoaded, LoadGoes, LoadStep
  <2> QED
    BY <1>3, <2>1, <2>2, <2>3 DEF WorldStep, ReferenceChanges, FormReused, LoadStep
<1> QED
  BY <1>1, <1>2, <1>3, StepKinds

\* Work of an earlier load stays recognisable as such.
LEMMA LoadsStayApart ==
  ASSUME RecognitionTyped, RecognitionNext, LoadsApart, RecognitionTyped'
  PROVE  LoadsApart'
<1> SUFFICES ASSUME NEW t \in Threads, work'[t].at # "idle"
             PROVE  /\ work'[t].epoch <= loadEpoch'
                    /\ loading' \notin {"no", "suspended"} => work'[t].epoch # loadEpoch'
                    /\ work'[t].epoch = loadEpoch' => work'[t].session = session'
  BY PassApart DEF LoadsApart
<1>1. loadEpoch \in Nat /\ (work[t].at # "idle" => work[t].epoch \in Nat)
  BY Working DEF RecognitionTyped, WorkSet
<1>2. work[t].at # "idle" =>
        /\ work[t].epoch <= loadEpoch
        /\ loading \notin {"no", "suspended"} => work[t].epoch # loadEpoch
        /\ work[t].epoch = loadEpoch => work[t].session = session
  BY DEF LoadsApart
<1>3. CASE work'[t] = work[t]
  BY <1>1, <1>2, <1>3, LoadSteps DEF LoadStep
<1>4. CASE ~Suspended /\ UNCHANGED <<loading, loadEpoch, session>>
           /\ work'[t].epoch = loadEpoch /\ work'[t].session = session
  BY <1>1, <1>4 DEF Suspended
<1>5. CASE work[t].at # "idle" /\ UNCHANGED <<loading, loadEpoch, session>>
           /\ work'[t].epoch = work[t].epoch /\ work'[t].session = work[t].session
  BY <1>2, <1>5
<1> QED
  BY <1>3, <1>4, <1>5, WorkStep

-----------------------------------------------------------------------------
(* Hidden panes *)

\* A commit owes what it changes.
LEMMA CommitOwes ==
  ASSUME RecognitionTyped, NEW t \in Threads, Commits(t), NEW f \in Forms
  PROVE  candidates'[f] = candidates[f] \/ Owed(f)'
<1>1. CASE SameLoad(work[t])
  <2> DEFINE S == {s \in work[t].seen : Counts(s)}
  <2>1. S \in SUBSET SightingSet /\ IsFiniteSet(S)
    BY Sightings DEF Commits
  <2>2. Record(S) /\ Goes(t, Left(work[t], S)) /\ UNCHANGED loadEpoch
    BY <1>1 DEF Commits
  <2>3. work[t] \in WorkSet /\ work[t].epoch = loadEpoch
    BY <1>1, Working DEF Commits, SameLoad
  <2> HIDE DEF S
  <2>4. CASE f \in Stale(S)
    <3>1. work'[t] = [work[t] EXCEPT !.at = "owing", !.seen = {}, !.owes = Stale(S)]
      BY <2>2, <2>4 DEF Left, Goes, RecognitionTyped
    <3>2. work'[t].at = "owing" /\ f \in work'[t].owes /\ work'[t].epoch = loadEpoch'
      BY <2>2, <2>3, <2>4, <3>1 DEF WorkSet
    <3> QED
      BY <3>2 DEF Owed
  <2>5. CASE f \notin Stale(S)
    BY <2>1, <2>2, <2>5, RecordFacts
  <2> QED
    BY <2>4, <2>5
<1>2. CASE ~SameLoad(work[t])
  BY <1>2 DEF Commits, recognised
<1> QED
  BY <1>1, <1>2

\* What is owed stays owed until it is restored.
LEMMA StaysOwed ==
  ASSUME RecognitionTyped, NEW t \in Threads, NEW f \in Forms, Owed(f), UNCHANGED loadEpoch,
         \/ \E g \in Forms : Notices(t, g) \/ Unloads(t, g)
         \/ Reads(t) \/ Refreshes(t) \/ Commits(t)
  PROVE  Owed(f)'
<1>1. PICK u \in Threads : work[u].at = "owing" /\ f \in work[u].owes /\ work[u].epoch = loadEpoch
  BY DEF Owed
<1>2. work[t].at # "owing"
  <2>1. (\E g \in Forms : Notices(t, g) \/ Unloads(t, g)) => work[t].at = "idle"
    BY DEF Notices, Unloads, Idle
  <2>2. Reads(t) \/ Refreshes(t) \/ Commits(t) => work[t].at \in {"noticed", "idle", "refresh", "seen"}
    BY DEF Reads, Refreshes, Commits
  <2> QED
    BY <2>1, <2>2
<1>3. work'[u] = work[u]
  BY <1>1, <1>2 DEF Notices, Unloads, Reads, Refreshes, Commits, Goes, RecognitionTyped
<1> QED
  BY <1>1, <1>3 DEF Owed

\* Every step leaves a hidden pane its owner.
LEMMA RestoreStaysOwed ==
  ASSUME RecognitionInv, RecognitionNext, RecognitionTyped'
  PROVE  RestoreOwed'
<1> USE DEF RecognitionInv
<1> DEFINE Sweeping == loading \in {"suspended", "counted", "cleared"}
\* Nothing that RestoreOwed is about changes, but what the hand no longer does.
<1>1. ASSUME UNCHANGED <<hidden, candidates, work, loadEpoch, loading>>,
             pass.at # "owing" \/ pass' = pass,
             pass'.at = "hiding" => pass' = pass \/ Current(pass'.form, pass'.wanted)
      PROVE  RestoreOwed'
  BY <1>1 DEF RestoreOwed, Current, Owed
<1>2. pass.at \in InHand => pass \in LookSet /\ pass.form \in Forms
  BY Holding DEF LookSet
<1>3. ASSUME \A f \in Forms : hidden'[f] = 0, pass'.at # "hiding" PROVE RestoreOwed'
  BY <1>3 DEF RestoreOwed
<1>4. ASSUME NEW t \in Threads,
             \/ \E f \in Forms : Notices(t, f) \/ Unloads(t, f)
             \/ Reads(t) \/ Refreshes(t) \/ Commits(t)
      PROVE  RestoreOwed'
  <2>1. UNCHANGED <<hidden, loadEpoch, loading, pass>>
    BY <1>4 DEF Notices, Unloads, Reads, Refreshes, Commits, shown
  <2>2. \A f \in Forms : Owed(f) => Owed(f)'
    BY <1>4, <2>1, StaysOwed
  <2>3. \A f \in Forms : candidates'[f] = candidates[f] \/ Owed(f)'
    BY <1>4, CommitOwes DEF Notices, Unloads, Reads, Refreshes, recognised
  <2>4. \A f \in Forms : \A g : Current(f, g) => Current(f, g)' \/ Owed(f)'
    BY <2>3 DEF Current
  <2> QED
    BY <1>2, <2>1, <2>2, <2>4 DEF RestoreOwed, InHand
<1>5. ASSUME NEW t \in Threads, Revokes(t) PROVE RestoreOwed'
  <2>1. work[t] \in WorkSet /\ work[t].at = "owing" /\ pass.at # "hiding"
        /\ UNCHANGED <<candidates, loadEpoch, loading>>
    BY <1>5, Working DEF Revokes, recognised
  <2>2. PICK f \in work[t].owes :
          /\ IF Revoked(work[t]) THEN Revoke({f}) /\ Withdrawn({f}) ELSE UNCHANGED <<shown, pass>>
          /\ Goes(t, IF work[t].owes # {f} THEN [work[t] EXCEPT !.owes = @ \ {f}]
                     ELSE IF work[t].then = "refresh" THEN [work[t] EXCEPT !.at = "refresh", !.owes = {}]
                     ELSE Idle)
    BY <1>5 DEF Revokes
  <2>3. f \in Forms
    BY <2>1 DEF WorkSet
  <2>4. pass'.at = pass.at /\ (pass.at = "owing" => pass' = pass)
    BY <1>2, <2>2 DEF Withdrawn, shown, InHand, LookSet
  <2>5. ASSUME NEW g \in Forms, g # f \/ (~Suspended /\ ~Revoked(work[t])), Owed(g) PROVE Owed(g)'
    <3>1. PICK u \in Threads : work[u].at = "owing" /\ g \in work[u].owes /\ work[u].epoch = loadEpoch
      BY <2>5 DEF Owed
    <3>2. work'[u].at = "owing" /\ g \in work'[u].owes /\ work'[u].epoch = loadEpoch
      <4>1. CASE u = t
        <5>0. g # f
          BY <2>5, <3>1, <4>1 DEF Revoked, SameLoad
        <5>1. work[t].owes # {f}
          BY <3>1, <4>1, <5>0
        <5>2. work'[t] = [work[t] EXCEPT !.owes = @ \ {f}]
          BY <2>2, <5>1 DEF Goes, RecognitionTyped
        <5> QED
          BY <2>1, <3>1, <4>1, <5>0, <5>2 DEF WorkSet
      <4>2. CASE u # t
        BY <2>2, <3>1, <4>2 DEF Goes, RecognitionTyped
      <4> QED
        BY <4>1, <4>2
    <3> QED
      BY <2>1, <3>2 DEF Owed
  <2>6. ASSUME NEW g \in Forms, hidden'[g] # 0
        PROVE  \/ Current(g, hidden[g])' \/ Owed(g)'
               \/ pass'.at = "owing" /\ pass'.form = g
               \/ loading' \in {"suspended", "counted", "cleared"}
    <3>1. hidden'[g] = hidden[g] /\ (g # f \/ ~Revoked(work[t]))
      BY <2>2, <2>3, <2>6 DEF Revoke, shown, RecognitionTyped
    <3>2. \/ Current(g, hidden[g]) \/ Owed(g) \/ (pass.at = "owing" /\ pass.form = g) \/ Sweeping
      BY <2>6, <3>1 DEF RestoreOwed
    <3>3. CASE Owed(g)
      <4>1. Suspended => Sweeping
        BY <3>3 DEF Owed, LoadsApart, Suspended, RecognitionTyped
      <4>2. ~Suspended => Owed(g)'
        BY <2>5, <3>1, <3>3
      <4> QED
        BY <2>1, <4>1, <4>2
    <3> QED
      BY <2>1, <2>4, <3>1, <3>2, <3>3 DEF Current
  <2> QED
    BY <2>1, <2>4, <2>6 DEF RestoreOwed
<1>6. CASE LookupRecords
  <2> DEFINE S == {s \in {pass.seen} : Counts(s)}
  <2>1. pass \in LookSet /\ pass.at = "looking" /\ Record(S)
    BY <1>2, <1>6 DEF LookupRecords, InHand
  <2>2. S \in SUBSET SightingSet /\ IsFiniteSet(S)
    BY <2>1, Sightings
  <2>3. Stale(S) \subseteq {pass.form}
    BY <2>1 DEF Stale, Lost, Changed, PassKnown, InHand
  <2>4. \A f \in Forms \ Stale(S) : candidates'[f] = candidates[f]
    BY <2>1, <2>2, RecordFacts
  <2>5. Stale(S) # {} => pass'.at = "owing" /\ pass'.form = pass.form
    BY <1>6, <2>1 DEF LookupRecords, LookSet
  <2>6. pass'.at # "hiding"
    BY <1>6, <2>1 DEF LookupRecords, LookSet, Failed, Idle
  <2>7. UNCHANGED <<hidden, work, loadEpoch, loading>>
    BY <1>6 DEF LookupRecords, shown
  <2> HIDE DEF S
  <2>8. ASSUME NEW f \in Forms, hidden'[f] # 0
        PROVE  \/ Current(f, hidden[f])' \/ Owed(f)'
               \/ pass'.at = "owing" /\ pass'.form = f
               \/ loading' \in {"suspended", "counted", "cleared"}
    <3>1. CASE f \in Stale(S)
      BY <2>3, <2>5, <3>1
    <3>2. CASE f \notin Stale(S)
      <4>1. Current(f, hidden[f]) \/ Owed(f) \/ Sweeping
        BY <2>1, <2>7, <2>8 DEF RestoreOwed
      <4> QED
        BY <2>4, <2>7, <3>2, <4>1 DEF Current, Owed
    <3> QED
      BY <3>1, <3>2
  <2> QED
    BY <2>6, <2>8 DEF RestoreOwed
<1>7. CASE LookupRevokes \/ LocationRejects
  <2>1. pass \in LookSet /\ Revoke({pass.form}) /\ UNCHANGED <<candidates, work, loadEpoch, loading>>
    BY <1>2, <1>7 DEF LookupRevokes, LocationRejects, InHand, recognised
  <2>2. pass'.at \in {"idle", "next"}
    BY <1>7, <2>1 DEF LookupRevokes, LocationRejects, Failed, LookSet, Idle
  <2>3. \A f \in Forms : hidden'[f] # 0 => hidden'[f] = hidden[f] /\ f # pass.form
    BY <2>1 DEF Revoke, RecognitionTyped
  <2> QED
    BY <2>1, <2>2, <2>3 DEF RestoreOwed, Current, Owed
<1>8. CASE DeliveryStarts
  BY <1>3, <1>8 DEF DeliveryStarts, Uncovered
<1>9. CASE HideChecks
  <2>1. pass \in LookSet /\ pass.at = "drawn"
    BY <1>2, <1>9 DEF HideChecks, InHand
  <2>2. pass'.form = pass.form /\ pass'.wanted = pass.wanted
    BY <1>9, <2>1 DEF HideChecks, LookSet
  <2> QED
    BY <1>1, <1>9, <2>1, <2>2 DEF HideChecks, IsCandidateCurrent, Ready, shown, recognised
<1>10. CASE Hides
  <2>1. pass \in LookSet /\ pass.at = "hiding" /\ UNCHANGED <<candidates, work, loadEpoch, loading>>
    BY <1>2, <1>10 DEF Hides, InHand, recognised
  <2>2. pass'.at = "next" /\ hidden' = [hidden EXCEPT ![pass.form] = pass.wanted]
    BY <1>10, <2>1 DEF Hides, LookSet
  <2>3. \A f \in Forms : hidden'[f] = IF f = pass.form THEN pass.wanted ELSE hidden[f]
    BY <2>2 DEF RecognitionTyped
  <2> QED
    BY <2>1, <2>2, <2>3 DEF RestoreOwed, Current, Owed
<1>11. CASE NotHidden
  <2>1. pass \in LookSet /\ pass.at \in {"found", "drawn"} /\ UNCHANGED <<candidates, work, loadEpoch, loading>>
    BY <1>2, <1>11 DEF NotHidden, InHand, recognised
  <2>2. pass'.at = "next" /\ \A f \in Forms : hidden'[f] # 0 => hidden'[f] = hidden[f]
    BY <1>11, <2>1 DEF NotHidden, LookSet, RecognitionTyped
  <2> QED
    BY <2>1, <2>2 DEF RestoreOwed, Current, Owed
<1>12. ASSUME NEW f \in Forms, CaptureSeeks(f) PROVE RestoreOwed'
  BY <1>1, <1>12 DEF CaptureSeeks, Looking, Idle, shown, recognised
<1>13. CASE CaptureBegins \/ CaptureEnds \/ DeliveryEnds \/ Draws
  <2>1. pass.at # "owing" /\ pass'.at # "hiding"
    <3>1. CASE CaptureBegins \/ Draws
      BY <1>2, <3>1 DEF CaptureBegins, Draws, LookSet, InHand
    <3>2. CASE CaptureEnds \/ DeliveryEnds
      BY <3>2 DEF CaptureEnds, DeliveryEnds, Idle
    <3> QED
      BY <1>13, <3>1, <3>2
  <2> QED
    BY <1>1, <1>13, <2>1 DEF CaptureBegins, CaptureEnds, DeliveryEnds, Draws, shown, recognised
<1>14. ASSUME pass.at = "next", NEW picture \in pass.todo,
              DeliverySkips(picture) \/ DeliverySeeks(picture)
       PROVE  RestoreOwed'
  <2>1. pass'.at # "hiding"
    BY <1>14, Holding DEF DeliverySkips, DeliverySeeks, Looking, LookSet, NextSet
  <2> QED
    BY <1>1, <1>14, <2>1 DEF DeliverySkips, DeliverySeeks, shown, recognised
<1>15. CASE WorldStep
  <2>1. CASE RevokeLoad \/ GameLoaded \/ NewGame
    BY <1>3, <2>1 DEF RevokeLoad, GameLoaded, NewGame, LoadGoes, Revoke, Idle
  <2>2. CASE SuspendLoad \/ CountLoad \/ ClearLoad
    <3>1. loading' \in {"suspended", "counted", "cleared"} /\ pass'.at # "hiding"
      BY <2>2 DEF SuspendLoad, CountLoad, ClearLoad, LoadGoes, Idle
    <3> QED
      BY <3>1 DEF RestoreOwed
  <2>3. CASE WorldReplaced
    <3>1. pass'.at = "idle" /\ pass.at = "idle" /\ loading = "revoked"
          /\ UNCHANGED <<hidden, candidates, work, loadEpoch>>
      BY <2>3 DEF WorldReplaced, LoadGoes, Idle, shown, recognised
    <3> QED
      BY <3>1 DEF RestoreOwed, Current, Owed
  <2>4. CASE \E f \in Forms : ReferenceChanges(f) \/ FormReused(f)
    BY <1>1, <2>4 DEF ReferenceChanges, FormReused, shown, recognised
  <2> QED
    BY <1>15, <2>1, <2>2, <2>3, <2>4 DEF WorldStep
<1> QED
  BY <1>4, <1>5, <1>6, <1>7, <1>8, <1>9, <1>10, <1>11, <1>12, <1>13, <1>14, <1>15, StepKinds
     DEF PassStep, EventStep

-----------------------------------------------------------------------------
\* At the start nothing is known and nothing hidden.
LEMMA InitRecognitionInv == RecognitionInit => RecognitionInv
<1> SUFFICES ASSUME RecognitionInit PROVE RecognitionInv
  OBVIOUS
<1>1. RecognitionTyped
  <2>1. actual \in [Forms -> [life : Nat, status : Statuses, place : PlaceSet]]
    <3>1. {1} \subseteq Nat /\ {"eligible"} \subseteq Statuses /\ Poses \subseteq PlaceSet
      BY DEF Statuses, PlaceSet
    <3> QED
      BY <3>1 DEF RecognitionInit
  <2> QED
    BY <2>1 DEF RecognitionInit, RecognitionTyped, Idle
<1> QED
  BY <1>1 DEF RecognitionInit, RecognitionInv, GenerationsGiven, PicturesKnown, PassKnown,
     RestoreOwed, LoadsApart, Idle, InHand, Suspended

\* Every step keeps the invariant.
LEMMA NextRecognitionInv == RecognitionInv /\ [RecognitionNext]_recognitionVars => RecognitionInv'
<1> SUFFICES ASSUME RecognitionInv, [RecognitionNext]_recognitionVars PROVE RecognitionInv'
  OBVIOUS
<1>1. CASE RecognitionNext
  <2>1. RecognitionTyped' /\ Renumbered
    BY <1>1, TypesStay, Renumbers DEF RecognitionInv
  <2> QED
    BY <1>1, <2>1, GenerationsStay, PicturesStay, PassStays, RestoreStaysOwed, LoadsStayApart
       DEF RecognitionInv
<1>2. CASE UNCHANGED recognitionVars
  BY <1>2 DEF recognitionVars, recognised, shown, RecognitionInv, RecognitionTyped, GenerationsGiven,
     PicturesKnown, PassKnown, RestoreOwed, LoadsApart, Known, Current, Owed, Suspended
<1> QED
  BY <1>1, <1>2

\* The inductive invariant holds, for any mirrors, poses and threads.
THEOREM RecognitionInvariant == RecognitionSpec => []RecognitionInv
  BY InitRecognitionInv, NextRecognitionInv, PTL DEF RecognitionSpec

\* No pane stays hidden without a candidate it is hidden for, or someone who will
\* show it again: for any number of mirrors, threads, events and loads.
THEOREM HiddenIsOwedHolds == RecognitionSpec => []HiddenIsOwed
<1>1. RecognitionInv => HiddenIsOwed
  BY DEF RecognitionInv, RestoreOwed, HiddenIsOwed, Owed
<1> QED
  BY <1>1, RecognitionInvariant, PTL

\* Only a picture of the pose in hand, and on record, is drawn over a pane.
THEOREM DrawnAsSeenHolds == RecognitionSpec => DrawnAsSeen
<1>1. ASSUME RecognitionInv, Draws
      PROVE  /\ pass.image.place = pass.seen.place /\ pass.image.life = pass.seen.life
             /\ pass.image.place = candidates[pass.form].place
             /\ pass.image.life = candidates[pass.form].life
  BY <1>1 DEF RecognitionInv, PassKnown, Draws, Known, Ready, InHand
<1>2. RecognitionInv /\ [RecognitionNext]_recognitionVars =>
        [Draws => /\ pass.image.place = pass.seen.place /\ pass.image.life = pass.seen.life
                  /\ pass.image.place = candidates[pass.form].place
                  /\ pass.image.life = candidates[pass.form].life]_recognitionVars
  BY <1>1
<1> QED
  BY <1>2, RecognitionInvariant, PTL DEF RecognitionSpec, DrawnAsSeen

\* An event that was noticed before a load changes no candidate after it, however
\* late its thread commits.
THEOREM OwnLoadOnlyHolds == RecognitionSpec => OwnLoadOnly
<1>1. ASSUME RecognitionInv, RecognitionNext, NEW t \in Threads,
             work[t].at = "seen", work'[t] # work[t], recognised' # recognised
      PROVE  work[t].session = session
  <2>1. CASE EventStep
    <3>1. PICK u \in Threads : Commits(u) /\ SameLoad(work[u])
      BY <1>1, <2>1 DEF EventStep, Notices, Unloads, Reads, Refreshes, Commits, Revokes
    <3>2. u = t
      BY <1>1, <3>1 DEF Commits, Goes, RecognitionInv, RecognitionTyped
    <3> QED
      BY <1>1, <3>1, <3>2 DEF SameLoad, RecognitionInv, LoadsApart
  <2>2. CASE PassStep
    BY <1>1, <2>2 DEF PassStep, LookupRecords, LookupRevokes, CaptureSeeks, CaptureBegins, CaptureEnds,
       DeliveryStarts, DeliveryEnds, DeliverySkips, DeliverySeeks, LocationRejects,
       Draws, NotHidden, HideChecks, Hides
  <2>3. CASE WorldStep
    BY <1>1, <2>3 DEF WorldStep, ReferenceChanges, FormReused, SuspendLoad, CountLoad, ClearLoad,
       RevokeLoad, WorldReplaced, GameLoaded, NewGame
  <2> QED
    BY <1>1, <2>1, <2>2, <2>3, StepKinds
<1>2. RecognitionInv /\ [RecognitionNext]_recognitionVars =>
        [\A t \in Threads :
           work[t].at = "seen" /\ work'[t] # work[t] /\ recognised' # recognised =>
             work[t].session = session]_recognitionVars
  BY <1>1
<1> QED
  BY <1>2, RecognitionInvariant, PTL DEF RecognitionSpec, OwnLoadOnly

-----------------------------------------------------------------------------
(* Occlusion.  That retained evidence was observed needs that every entry    *)
(* holds only what was observed in its own life (Backed), that no later      *)
(* answer was read before (NoneNewer), and that revoked queries are older    *)
(* than those that count (Ordered).                                          *)

\* Evidence, the entries of the panes, and the observations.
EvidenceSet == [frame : Nat, view : Views, place : Places, hidden : BOOLEAN, valid : BOOLEAN]
AnswerSet == EvidenceSet \cup {NoEvidence}
PaneEntrySet == [life : Lives, slots : [1 .. QuerySlots -> AnswerSet], result : AnswerSet, lastCulled : Nat]
EntriesOver(P) == [P -> PaneEntrySet]
ProbesOver(P) == [P -> [life : Lives, place : Places]]
QueriesOver(P) == [epoch : Nat, frame : Nat, submitted : Nat,
                   probes : ProbesOver(P), entries : EntriesOver(P)]
ObservationSet == [pane : Panes, life : Lives, place : Places, view : Views, frame : Nat,
                   epoch : Nat, hidden : BOOLEAN, read : BOOLEAN]

\* The types.
OcclusionTyped ==
  /\ epoch \in Nat /\ worldFrame \in Nat /\ depthFault \in BOOLEAN
  /\ seen \in SUBSET ObservationSet
  /\ queries # NoQueries => \E P \in SUBSET Panes : queries \in QueriesOver(P)

\* The evidence an entry holds: its result and its pending queries.
Holds(e, v) == v # NoEvidence /\ (v = e.result \/ \E k \in 1 .. QuerySlots : v = e.slots[k])

\* The evidence is what was observed of the pane in this life, if that is not too
\* old to matter (S: the observations; w: the frame; n: the epoch).
Backed(p, e, S, w, n) ==
  \A v \in EvidenceSet : Holds(e, v) /\ w - v.frame < MaxAge + Bridge =>
    \E o \in S : /\ o.pane = p /\ o.life = e.life /\ o.epoch = n
                 /\ o.frame = v.frame /\ o.place = v.place /\ o.view = v.view /\ o.hidden = v.hidden

\* No answer read before is newer than the result, or, without one, than a query
\* whose answer counts.
NoneNewer(p, e, S) ==
  \A o \in S : o.pane = p /\ o.read =>
    IF e.result # NoEvidence THEN o.frame <= e.result.frame
    ELSE \A k \in Pending(e) : e.slots[k].valid => o.frame < e.slots[k].frame

\* A revoked query is older than what counts.
Ordered(e) ==
  \A k \in Pending(e) : ~e.slots[k].valid =>
    /\ e.result # NoEvidence => e.slots[k].frame < e.result.frame
    /\ \A j \in Pending(e) : e.slots[j].valid => e.slots[k].frame < e.slots[j].frame

\* No evidence of a frame before the first, or after the last one submitted.
NoLater(e, f) == \A v \in EvidenceSet : Holds(e, v) => 0 < v.frame /\ v.frame <= f

\* The mirror was hidden when it was last culled, which is forgotten with it.
CulledHidden(p, e, S, w, n) ==
  e.lastCulled # 0 /\ w - e.lastCulled < Bridge =>
    \E o \in S : /\ o.pane = p /\ o.life = e.life /\ o.epoch = n /\ o.hidden
                 /\ e.lastCulled - o.frame <= MaxAge

\* Together they are what an entry claims.
EntrySound(p, e, S, w, n, f) ==
  /\ Backed(p, e, S, w, n) /\ NoneNewer(p, e, S) /\ Ordered(e) /\ NoLater(e, f)
  /\ CulledHidden(p, e, S, w, n)

\* Every entry is sound, and no observation is of a frame to come.
OcclusionInv ==
  /\ OcclusionTyped
  /\ \A o \in seen : o.frame <= worldFrame
  /\ queries # NoQueries =>
       /\ queries.frame <= worldFrame + 1 /\ queries.submitted <= worldFrame
       /\ queries.frame = worldFrame /\ queries.submitted # worldFrame =>
            \A o \in seen : o.frame # worldFrame
       /\ \A p \in DOMAIN queries.entries :
            EntrySound(p, queries.entries[p], seen, worldFrame, queries.epoch, queries.submitted)

-----------------------------------------------------------------------------
\* A set of numbers that is not empty has a least one, and a greatest if bounded.
LEMMA HasLeast ==
  ASSUME NEW T \in SUBSET Nat, T # {} PROVE \E x \in T : \A y \in T : x <= y
<1> DEFINE R == OpToRel(<, Nat)
<1>1. IsWellFoundedOn(R, Nat)
  BY NatLessThanWellFounded
<1>2. \A y \in Nat, x \in Nat : y < x => <<y, x>> \in R
  BY DEF OpToRel
<1> HIDE DEF R
<1>3. PICK x \in T : \A y \in T : ~ (<<y, x>> \in R)
  BY <1>1, WFMin
<1>4. \A y \in T : ~ (y < x)
  <2> TAKE y \in T
  <2>1. y \in Nat /\ x \in Nat
    OBVIOUS
  <2>2. y < x => <<y, x>> \in R
    BY <1>2, <2>1
  <2>3. ~ (<<y, x>> \in R)
    BY <1>3
  <2> QED
    BY <2>2, <2>3
<1>5. \A y \in T : x <= y
  BY <1>4
<1> QED
  BY <1>5

\* So a bounded one has a greatest.
LEMMA HasGreatest ==
  ASSUME NEW T \in SUBSET Nat, T # {}, NEW b \in Nat, \A x \in T : x <= b
  PROVE  \E x \in T : \A y \in T : y <= x
<1> DEFINE D == {b - x : x \in T}
<1>0. \A x \in T : b - x \in Nat
  OBVIOUS
<1>1. D \in SUBSET Nat /\ D # {}
  BY <1>0
<1>2. PICK d \in D : \A y \in D : d <= y
  BY <1>1, HasLeast
<1>3. PICK x \in T : d = b - x
  OBVIOUS
<1>4. \A y \in T : b - x <= b - y
  BY <1>2, <1>3
<1> QED
  BY <1>4

-----------------------------------------------------------------------------
\* Queries that start from nothing.
LEMMA NewEntrySound ==
  ASSUME NEW life \in Lives
  PROVE  /\ NewEntry(life) \in PaneEntrySet
         /\ NewEntry(life).life = life
         /\ \A p, S, w, n, f : EntrySound(p, NewEntry(life), S, w, n, f)
<1> DEFINE e == NewEntry(life)
<1>1. /\ e.life = life /\ e.result = NoEvidence /\ e.lastCulled = 0
      /\ e.slots = [k \in 1 .. QuerySlots |-> NoEvidence]
  BY DEF NewEntry
<1>2. e \in PaneEntrySet
  BY DEF NewEntry, PaneEntrySet, AnswerSet
<1>3. Pending(e) = {}
  BY <1>1 DEF Pending
<1>4. \A v : ~ Holds(e, v)
  BY <1>1 DEF Holds
<1> HIDE DEF e
<1>5. \A p, S, w, n, f : EntrySound(p, e, S, w, n, f)
  BY <1>1, <1>3, <1>4 DEF EntrySound, Backed, NoneNewer, Ordered, NoLater, CulledHidden
<1> QED
  BY <1>1, <1>2, <1>5 DEF e

\* An entry all of whose evidence is revoked.
LEMMA InvalidateEntrySound ==
  ASSUME NEW p, NEW S, NEW w, NEW n, NEW f, NEW e \in PaneEntrySet,
         Backed(p, e, S, w, n), NoLater(e, f)
  PROVE  /\ InvalidateEntry(e) \in PaneEntrySet
         /\ InvalidateEntry(e).life = e.life /\ InvalidateEntry(e).result = NoEvidence
         /\ EntrySound(p, InvalidateEntry(e), S, w, n, f)
<1> DEFINE i == InvalidateEntry(e)
           Slot(k) == IF k \in Pending(e) THEN [e.slots[k] EXCEPT !.valid = FALSE] ELSE NoEvidence
<1>0. /\ e.slots \in [1 .. QuerySlots -> AnswerSet] /\ e.life \in Lives
      /\ e.result \in AnswerSet /\ e.lastCulled \in Nat
  BY DEF PaneEntrySet
<1>1. \A k \in Pending(e) : k \in 1 .. QuerySlots /\ e.slots[k] \in EvidenceSet
  BY <1>0 DEF Pending, AnswerSet
<1>2. \A k \in Pending(e) :
        /\ [e.slots[k] EXCEPT !.valid = FALSE] \in EvidenceSet
        /\ [e.slots[k] EXCEPT !.valid = FALSE].valid = FALSE
        /\ [e.slots[k] EXCEPT !.valid = FALSE].frame = e.slots[k].frame
        /\ [e.slots[k] EXCEPT !.valid = FALSE].place = e.slots[k].place
        /\ [e.slots[k] EXCEPT !.valid = FALSE].view = e.slots[k].view
        /\ [e.slots[k] EXCEPT !.valid = FALSE].hidden = e.slots[k].hidden
  BY <1>1 DEF EvidenceSet
<1>3. \A k \in 1 .. QuerySlots : Slot(k) \in AnswerSet
  BY <1>2 DEF AnswerSet
<1>4. i = [life |-> e.life, slots |-> [k \in 1 .. QuerySlots |-> Slot(k)],
           result |-> NoEvidence, lastCulled |-> 0]
  <2> DEFINE emptied == [k \in 1 .. QuerySlots |-> Slot(k)]
  <2>1. i = [e EXCEPT !.result = NoEvidence, !.lastCulled = 0, !.slots = emptied]
    BY DEF InvalidateEntry
  <2> HIDE DEF emptied, i
  <2>2. i = [life |-> e.life, slots |-> emptied, result |-> NoEvidence, lastCulled |-> 0]
    BY <2>1 DEF PaneEntrySet
  <2> QED
    BY <2>2 DEF emptied
<1>5. /\ i.life = e.life /\ i.result = NoEvidence /\ i.lastCulled = 0
      /\ \A k \in 1 .. QuerySlots : i.slots[k] = Slot(k)
  BY <1>4
<1>6. i \in PaneEntrySet
  BY <1>0, <1>3, <1>4 DEF PaneEntrySet, AnswerSet
<1>7. \A k \in Pending(i) : ~ i.slots[k].valid
  BY ZenonT(60), <1>2, <1>5 DEF Pending
<1>8. \A v \in EvidenceSet : Holds(i, v) =>
        \E u \in EvidenceSet : /\ Holds(e, u) /\ u.frame = v.frame /\ u.place = v.place
                               /\ u.view = v.view /\ u.hidden = v.hidden
  <2> SUFFICES ASSUME NEW v \in EvidenceSet, Holds(i, v)
               PROVE  \E u \in EvidenceSet :
                        /\ Holds(e, u) /\ u.frame = v.frame /\ u.place = v.place
                        /\ u.view = v.view /\ u.hidden = v.hidden
    OBVIOUS
  <2>1. PICK k \in 1 .. QuerySlots : v = Slot(k) /\ v # NoEvidence
    BY <1>5 DEF Holds
  <2>2. k \in Pending(e) /\ v = [e.slots[k] EXCEPT !.valid = FALSE]
    BY <2>1
  <2>3. Holds(e, e.slots[k])
    BY <2>2 DEF Holds, Pending
  <2> QED
    BY <1>1, <1>2, <2>2, <2>3
<1> HIDE DEF i
<1>9. Backed(p, i, S, w, n)
  <2> SUFFICES ASSUME NEW v \in EvidenceSet, Holds(i, v), w - v.frame < MaxAge + Bridge
               PROVE  \E o \in S : /\ o.pane = p /\ o.life = i.life /\ o.epoch = n
                                   /\ o.frame = v.frame /\ o.place = v.place
                                   /\ o.view = v.view /\ o.hidden = v.hidden
    BY DEF Backed
  <2>1. PICK u \in EvidenceSet : /\ Holds(e, u) /\ u.frame = v.frame /\ u.place = v.place
                                 /\ u.view = v.view /\ u.hidden = v.hidden
    BY <1>8
  <2> QED
    BY <1>5, <2>1 DEF Backed
<1>10. NoLater(i, f)
  BY <1>8 DEF NoLater
<1>11. NoneNewer(p, i, S) /\ Ordered(i)
  BY <1>5, <1>7 DEF NoneNewer, Ordered
<1>12. CulledHidden(p, i, S, w, n)
  BY <1>5 DEF CulledHidden
<1> QED
  BY <1>5, <1>6, <1>9, <1>10, <1>11, <1>12 DEF EntrySound, i

-----------------------------------------------------------------------------
\* Nothing that was observed is lost.
KeepsObservations(S, T) ==
  \A o \in S : \E q \in T : /\ q.pane = o.pane /\ q.life = o.life /\ q.place = o.place
                            /\ q.view = o.view /\ q.frame = o.frame /\ q.epoch = o.epoch
                            /\ q.hidden = o.hidden

\* What is read after a poll was read before it, or the poll has read it.
ReadByPoll(p, e, n, S, T) ==
  \A q \in T : q.pane = p /\ q.read =>
    \/ \E o \in S : o.pane = p /\ o.read /\ o.frame = q.frame
    \/ \E k \in Answered(e, n) : e.slots[k].frame = q.frame

\* What PollEvidence leaves of an entry.
PolledEntry(e, n) ==
  [e EXCEPT !.result = NewestRead(e, n),
            !.slots = [k \in 1 .. QuerySlots |->
              IF k \in Answered(e, n) THEN NoEvidence ELSE e.slots[k]]]

\* Evidence stays backed while the observations are kept and frames pass.
LEMMA BackedKept ==
  ASSUME NEW p, NEW e, NEW d, NEW S, NEW T, NEW w, NEW n,
         Backed(p, e, S, w, n), KeepsObservations(S, T), d.life = e.life,
         \A v \in EvidenceSet : Holds(d, v) => Holds(e, v)
  PROVE  Backed(p, d, T, w, n)
<1> SUFFICES ASSUME NEW v \in EvidenceSet, Holds(d, v), w - v.frame < MaxAge + Bridge
             PROVE  \E q \in T : /\ q.pane = p /\ q.life = d.life /\ q.epoch = n
                                 /\ q.frame = v.frame /\ q.place = v.place
                                 /\ q.view = v.view /\ q.hidden = v.hidden
  BY DEF Backed
<1>1. PICK o \in S : /\ o.pane = p /\ o.life = e.life /\ o.epoch = n
                     /\ o.frame = v.frame /\ o.place = v.place
                     /\ o.view = v.view /\ o.hidden = v.hidden
  BY DEF Backed
<1>2. PICK q \in T : /\ q.pane = o.pane /\ q.life = o.life /\ q.place = o.place
                     /\ q.view = o.view /\ q.frame = o.frame /\ q.epoch = o.epoch
                     /\ q.hidden = o.hidden
  BY DEF KeepsObservations
<1> QED
  BY <1>1, <1>2

\* So does the last cull.
LEMMA CulledKept ==
  ASSUME NEW p, NEW e, NEW d, NEW S, NEW T, NEW w, NEW n,
         CulledHidden(p, e, S, w, n), KeepsObservations(S, T),
         d.life = e.life, d.lastCulled = e.lastCulled
  PROVE  CulledHidden(p, d, T, w, n)
<1> SUFFICES ASSUME d.lastCulled # 0, w - d.lastCulled < Bridge
             PROVE  \E q \in T : /\ q.pane = p /\ q.life = d.life /\ q.epoch = n /\ q.hidden
                                 /\ d.lastCulled - q.frame <= MaxAge
  BY DEF CulledHidden
<1>1. PICK o \in S : /\ o.pane = p /\ o.life = e.life /\ o.epoch = n /\ o.hidden
                     /\ e.lastCulled - o.frame <= MaxAge
  BY DEF CulledHidden
<1>2. PICK q \in T : /\ q.pane = o.pane /\ q.life = o.life /\ q.place = o.place
                     /\ q.view = o.view /\ q.frame = o.frame /\ q.epoch = o.epoch
                     /\ q.hidden = o.hidden
  BY DEF KeepsObservations
<1> QED
  BY <1>1, <1>2

\* The newest of the answers is one of them, and none is newer.
LEMMA NewestReadIsNewest ==
  ASSUME NEW e \in PaneEntrySet, NEW n \in Nat, NEW f \in Nat, NoLater(e, f)
  PROVE  LET answers == {e.result} \cup
                        {e.slots[k] : k \in {j \in Answered(e, n) : e.slots[j].valid}}
         IN  /\ NewestRead(e, n) \in answers
             /\ \A a \in answers : FrameOf(a) <= FrameOf(NewestRead(e, n))
<1> DEFINE answers == {e.result} \cup
                        {e.slots[k] : k \in {j \in Answered(e, n) : e.slots[j].valid}}
           framesOf == {FrameOf(a) : a \in answers}
<1>1. e.slots \in [1 .. QuerySlots -> AnswerSet] /\ e.result \in AnswerSet
  BY DEF PaneEntrySet
<1>2. \A a \in answers : a = NoEvidence \/ (a \in EvidenceSet /\ Holds(e, a))
  <2>1. \A k \in Answered(e, n) :
          k \in 1 .. QuerySlots /\ e.slots[k] \in EvidenceSet /\ e.slots[k] # NoEvidence
    BY <1>1 DEF Answered, Pending, AnswerSet
  <2> QED
    BY <1>1, <2>1 DEF Holds, AnswerSet
<1>3. \A a \in answers : FrameOf(a) \in Nat /\ FrameOf(a) <= f
  <2> SUFFICES ASSUME NEW a \in answers PROVE FrameOf(a) \in Nat /\ FrameOf(a) <= f
    OBVIOUS
  <2>1. CASE a = NoEvidence
    BY <2>1 DEF FrameOf
  <2>2. CASE a \in EvidenceSet /\ Holds(e, a)
    BY <2>2 DEF FrameOf, NoLater, EvidenceSet, Holds
  <2> QED
    BY <1>2, <2>1, <2>2
<1>4. e.result \in answers
  OBVIOUS
<1> HIDE DEF answers
<1>5. framesOf \in SUBSET Nat /\ framesOf # {} /\ \A x \in framesOf : x <= f
  BY <1>3, <1>4
<1>6. PICK m \in framesOf : \A x \in framesOf : x <= m
  BY <1>5, HasGreatest
<1>7. PICK r \in answers : FrameOf(r) = m
  BY <1>6
<1>8. \A a \in answers : FrameOf(a) <= FrameOf(r)
  BY <1>6, <1>7
<1>9. NewestRead(e, n) = CHOOSE x \in answers : \A a \in answers : FrameOf(a) <= FrameOf(x)
  BY DEF NewestRead, answers
<1>10. /\ NewestRead(e, n) \in answers
       /\ \A a \in answers : FrameOf(a) <= FrameOf(NewestRead(e, n))
  BY <1>8, <1>9
<1> QED
  BY <1>10 DEF answers

\* A poll reads the newest answer, which leaves the entry sound.
LEMMA PollSound ==
  ASSUME NEW p, NEW e \in PaneEntrySet, NEW n \in Nat, NEW w, NEW g, NEW f \in Nat,
         NEW S \in SUBSET ObservationSet, NEW T \in SUBSET ObservationSet,
         KeepsObservations(S, T), ReadByPoll(p, e, n, S, T), EntrySound(p, e, S, w, g, f)
  PROVE  /\ PolledEntry(e, n) \in PaneEntrySet /\ PolledEntry(e, n).life = e.life
         /\ EntrySound(p, PolledEntry(e, n), T, w, g, f)
<1> DEFINE d == PolledEntry(e, n)
           r == NewestRead(e, n)
           left == [k \in 1 .. QuerySlots |->
                     IF k \in Answered(e, n) THEN NoEvidence ELSE e.slots[k]]
           answers == {e.result} \cup
                        {e.slots[k] : k \in {j \in Answered(e, n) : e.slots[j].valid}}
<1>0. /\ e.slots \in [1 .. QuerySlots -> AnswerSet] /\ e.life \in Lives
      /\ e.result \in AnswerSet /\ e.lastCulled \in Nat
  BY DEF PaneEntrySet
<1>1. \A k \in Pending(e) : /\ k \in 1 .. QuerySlots /\ e.slots[k] \in EvidenceSet
                            /\ e.slots[k] # NoEvidence /\ Holds(e, e.slots[k])
  BY <1>0 DEF Pending, AnswerSet, Holds
<1>2. \A k \in Answered(e, n) : k \in Pending(e)
  BY DEF Answered
<1>3. r \in answers /\ \A a \in answers : FrameOf(a) <= FrameOf(r)
  BY NewestReadIsNewest DEF EntrySound
<1>4. d = [life |-> e.life, slots |-> left, result |-> r, lastCulled |-> e.lastCulled]
  <2>1. d = [e EXCEPT !.result = r, !.slots = left]
    BY DEF PolledEntry
  <2> HIDE DEF left, d, r
  <2> QED
    BY <2>1 DEF PaneEntrySet
<1>5. /\ d.life = e.life /\ d.result = r /\ d.lastCulled = e.lastCulled
      /\ \A k \in 1 .. QuerySlots :
           d.slots[k] = IF k \in Answered(e, n) THEN NoEvidence ELSE e.slots[k]
  BY <1>4
<1>6. r = e.result \/ \E k \in Answered(e, n) : r = e.slots[k] /\ e.slots[k].valid
  BY <1>3
<1>7. r \in AnswerSet
  BY <1>0, <1>1, <1>2, <1>6 DEF AnswerSet
<1>8. left \in [1 .. QuerySlots -> AnswerSet]
  BY <1>0 DEF AnswerSet
<1>9. d \in PaneEntrySet
  BY <1>0, <1>4, <1>7, <1>8 DEF PaneEntrySet
<1>10. \A k \in Pending(d) : k \in Pending(e) /\ k \notin Answered(e, n) /\ d.slots[k] = e.slots[k]
  BY <1>5 DEF Pending
<1>11. e.result \in answers /\ \A k \in Answered(e, n) : e.slots[k].valid => e.slots[k] \in answers
  OBVIOUS
<1> HIDE DEF d, r, answers, left
<1>12. \A v \in EvidenceSet : Holds(d, v) => Holds(e, v)
  BY <1>1, <1>2, <1>5, <1>6, <1>10 DEF Holds, Pending
<1>13. Backed(p, d, T, w, g)
  BY <1>5, <1>12, BackedKept DEF EntrySound
<1>14. CulledHidden(p, d, T, w, g)
  BY <1>5, CulledKept DEF EntrySound
<1>15. NoLater(d, f)
  BY <1>12 DEF EntrySound, NoLater
<1>16. r # NoEvidence => r \in EvidenceSet /\ r.frame \in Nat /\ FrameOf(r) = r.frame
  BY <1>7 DEF AnswerSet, EvidenceSet, FrameOf
<1>17. e.result # NoEvidence => /\ e.result.frame \in Nat /\ 0 < e.result.frame
                                /\ FrameOf(e.result) = e.result.frame
  BY <1>0 DEF AnswerSet, EvidenceSet, FrameOf, EntrySound, NoLater, Holds
<1>18. \A k \in Pending(e) : /\ e.slots[k].frame \in Nat /\ 0 < e.slots[k].frame
                             /\ FrameOf(e.slots[k]) = e.slots[k].frame
  BY <1>1 DEF EvidenceSet, FrameOf, EntrySound, NoLater
<1>19. r = NoEvidence => /\ e.result = NoEvidence
                         /\ \A k \in Answered(e, n) : ~ e.slots[k].valid
  <2> SUFFICES ASSUME r = NoEvidence
               PROVE  e.result = NoEvidence /\ \A k \in Answered(e, n) : ~ e.slots[k].valid
    OBVIOUS
  <2>1. FrameOf(r) = 0
    BY DEF FrameOf
  <2> QED
    BY <1>2, <1>3, <1>11, <1>17, <1>18, <2>1
<1>20. Ordered(d)
  <2> SUFFICES ASSUME NEW k \in Pending(d), ~ d.slots[k].valid
               PROVE  /\ d.result # NoEvidence => d.slots[k].frame < d.result.frame
                      /\ \A j \in Pending(d) : d.slots[j].valid =>
                           d.slots[k].frame < d.slots[j].frame
    BY DEF Ordered
  <2>1. k \in Pending(e) /\ d.slots[k] = e.slots[k] /\ ~ e.slots[k].valid
    BY <1>10
  <2>2. /\ e.result # NoEvidence => e.slots[k].frame < e.result.frame
        /\ \A j \in Pending(e) : e.slots[j].valid => e.slots[k].frame < e.slots[j].frame
    BY <2>1 DEF EntrySound, Ordered
  <2>3. d.result # NoEvidence => d.slots[k].frame < d.result.frame
    BY <1>2, <1>5, <1>6, <2>1, <2>2
  <2>4. \A j \in Pending(d) : d.slots[j].valid => d.slots[k].frame < d.slots[j].frame
    BY <1>10, <2>1, <2>2
  <2> QED
    BY <2>3, <2>4
<1>21. NoneNewer(p, d, T)
  <2> SUFFICES ASSUME NEW q \in T, q.pane = p, q.read
               PROVE  IF d.result # NoEvidence THEN q.frame <= d.result.frame
                      ELSE \A k \in Pending(d) : d.slots[k].valid => q.frame < d.slots[k].frame
    BY DEF NoneNewer
  <2>0. q.frame \in Nat
    BY DEF ObservationSet
  <2>1. CASE \E o \in S : o.pane = p /\ o.read /\ o.frame = q.frame
    <3>1. IF e.result # NoEvidence THEN q.frame <= e.result.frame
          ELSE \A k \in Pending(e) : e.slots[k].valid => q.frame < e.slots[k].frame
      BY <2>1 DEF EntrySound, NoneNewer
    <3>2. CASE r = NoEvidence
      BY <1>5, <1>10, <1>19, <3>1, <3>2
    <3>3. CASE r # NoEvidence /\ e.result # NoEvidence
      BY <1>3, <1>5, <1>11, <1>16, <1>17, <2>0, <3>1, <3>3
    <3>4. CASE r # NoEvidence /\ e.result = NoEvidence
      <4>1. PICK k \in Answered(e, n) : r = e.slots[k] /\ e.slots[k].valid
        BY <1>6, <3>4
      <4>2. q.frame < e.slots[k].frame
        BY <1>2, <3>1, <3>4, <4>1
      <4>3. q.frame < r.frame /\ r.frame \in Nat
        BY <1>16, <3>4, <4>1, <4>2
      <4> QED
        BY <1>5, <2>0, <3>4, <4>3
    <3> QED
      BY <3>2, <3>3, <3>4
  <2>2. CASE \E k \in Answered(e, n) : e.slots[k].frame = q.frame
    <3>1. PICK k \in Answered(e, n) : e.slots[k].frame = q.frame
      BY <2>2
    <3>2. CASE e.slots[k].valid
      <4>1. r # NoEvidence
        BY <1>19, <3>2
      <4>2. q.frame <= r.frame
        BY <1>2, <1>3, <1>11, <1>16, <1>18, <3>1, <3>2, <4>1
      <4> QED
        BY <1>5, <4>1, <4>2
    <3>3. CASE ~ e.slots[k].valid
      <4>1. /\ e.result # NoEvidence => e.slots[k].frame < e.result.frame
            /\ \A j \in Pending(e) : e.slots[j].valid => e.slots[k].frame < e.slots[j].frame
        BY <1>2, <3>3 DEF EntrySound, Ordered
      <4>2. CASE r = NoEvidence
        BY <1>5, <1>10, <3>1, <4>1, <4>2
      <4>3. CASE r # NoEvidence
        <5>1. q.frame < r.frame
          BY <1>2, <1>6, <3>1, <4>1, <4>3
        <5> QED
          BY <1>5, <1>16, <2>0, <4>3, <5>1
      <4> QED
        BY <4>2, <4>3
    <3> QED
      BY <3>2, <3>3
  <2> QED
    BY <2>1, <2>2 DEF ReadByPoll
<1> QED
  BY <1>5, <1>9, <1>13, <1>14, <1>15, <1>20, <1>21 DEF EntrySound, d

-----------------------------------------------------------------------------
\* What a poll marks, and that it changes nothing else of what is seen.
LEMMA MarkReadKeeps ==
  ASSUME seen \in SUBSET ObservationSet, NEW entries, NEW n
  PROVE  /\ MarkRead(entries, n) \in SUBSET ObservationSet
         /\ KeepsObservations(seen, MarkRead(entries, n))
         /\ \A q \in MarkRead(entries, n) : \E o \in seen : q.frame = o.frame
         /\ \A p \in DOMAIN entries :
              ReadByPoll(p, entries[p], n, seen, MarkRead(entries, n))
<1> DEFINE answered == {o \in seen : o.pane \in DOMAIN entries /\
                     \E k \in Answered(entries[o.pane], n) :
                       entries[o.pane].slots[k].frame = o.frame}
           T == MarkRead(entries, n)
           Read(o) == [o EXCEPT !.read = TRUE]
<1>1. \A o \in ObservationSet :
        /\ Read(o) \in ObservationSet
        /\ Read(o).pane = o.pane /\ Read(o).life = o.life /\ Read(o).place = o.place
        /\ Read(o).view = o.view /\ Read(o).frame = o.frame /\ Read(o).epoch = o.epoch
        /\ Read(o).hidden = o.hidden
  BY DEF ObservationSet
<1>2. T = (seen \ answered) \cup {Read(o) : o \in answered}
  BY DEF MarkRead
<1>3. \A o \in answered : /\ o \in seen /\ o.pane \in DOMAIN entries
                          /\ \E k \in Answered(entries[o.pane], n) :
                               entries[o.pane].slots[k].frame = o.frame
  OBVIOUS
<1>4. answered \subseteq seen
  OBVIOUS
<1> HIDE DEF answered, T, Read
<1>5. T \in SUBSET ObservationSet
  BY <1>1, <1>2, <1>4
<1>6. KeepsObservations(seen, T)
  <2> SUFFICES ASSUME NEW o \in seen
               PROVE  \E q \in T : /\ q.pane = o.pane /\ q.life = o.life /\ q.place = o.place
                                   /\ q.view = o.view /\ q.frame = o.frame
                                   /\ q.epoch = o.epoch /\ q.hidden = o.hidden
    BY DEF KeepsObservations
  <2>1. CASE o \in answered
    BY <1>1, <1>2, <2>1
  <2>2. CASE o \notin answered
    BY <1>2, <2>2
  <2> QED
    BY <2>1, <2>2
<1>7. \A q \in T : \E o \in seen : q.frame = o.frame
  BY <1>1, <1>2, <1>4
<1>8. \A p \in DOMAIN entries : ReadByPoll(p, entries[p], n, seen, T)
  <2> SUFFICES ASSUME NEW p \in DOMAIN entries, NEW q \in T, q.pane = p, q.read
               PROVE  \/ \E o \in seen : o.pane = p /\ o.read /\ o.frame = q.frame
                      \/ \E k \in Answered(entries[p], n) : entries[p].slots[k].frame = q.frame
    BY DEF ReadByPoll
  <2>1. CASE q \in seen
    BY <2>1
  <2>2. CASE \E o \in answered : q = Read(o)
    <3>1. PICK o \in answered : q = Read(o)
      BY <2>2
    <3>2. q.pane = o.pane /\ q.frame = o.frame
      BY <1>1, <1>4, <3>1
    <3> QED
      BY <1>3, <3>2
  <2> QED
    BY <1>2, <2>1, <2>2
<1> QED
  BY <1>5, <1>6, <1>7, <1>8 DEF T

\* The frames of the pending queries are numbers.
LEMMA ProgressIsNat ==
  ASSUME NEW P, NEW entries \in EntriesOver(P) PROVE Progress(entries) \subseteq Nat
<1>1. \A p \in P : \A k \in Pending(entries[p]) : entries[p].slots[k].frame \in Nat
  BY DEF Pending, EntriesOver, PaneEntrySet, AnswerSet, EvidenceSet
<1>2. DOMAIN entries = P
  BY DEF EntriesOver
<1> QED
  BY <1>1, <1>2 DEF Progress

\* Evidence of one frame and one view is the same answer.
LEMMA SameEvidence ==
  ASSUME NEW p, NEW e \in PaneEntrySet, NEW d, NEW S, NEW f,
         d.slots = e.slots, d.result = e.result
  PROVE  /\ \A v \in EvidenceSet : Holds(d, v) => Holds(e, v)
         /\ NoneNewer(p, e, S) => NoneNewer(p, d, S)
         /\ Ordered(e) => Ordered(d)
         /\ NoLater(e, f) => NoLater(d, f)
<1>1. Pending(d) = Pending(e)
  BY DEF Pending
<1>2. \A v : Holds(d, v) => Holds(e, v)
  BY DEF Holds
<1>3. NoneNewer(p, e, S) => NoneNewer(p, d, S)
  BY <1>1 DEF NoneNewer
<1>4. Ordered(e) => Ordered(d)
  BY <1>1 DEF Ordered
<1>5. NoLater(e, f) => NoLater(d, f)
  BY <1>2 DEF NoLater
<1> QED
  BY <1>2, <1>3, <1>4, <1>5

\* The observation that a mirror is hidden, which the fence of frame w goes by.
SeenHidden(o, S, p, life, place, view, w, n) ==
  /\ o.hidden /\ o.epoch = n
  /\ o.pane = p /\ o.life = life /\ o.place = place /\ o.view = view
  /\ o.frame < w /\ w - o.frame <= MaxAge
  /\ \A q \in S : q.pane = p /\ q.read /\ q.frame > o.frame => q.hidden

\* The fence culls a mirror on the word of its newest answer.
LEMMA CullSound ==
  ASSUME NEW p, NEW e \in PaneEntrySet, NEW S \in SUBSET ObservationSet, NEW w \in Nat, NEW n,
         NEW f, NEW place, NEW view, EntrySound(p, e, S, w, n, f),
         Occluded(e.result, place, view, w + 1)
  PROVE  /\ [e EXCEPT !.lastCulled = w + 1] \in PaneEntrySet
         /\ EntrySound(p, [e EXCEPT !.lastCulled = w + 1], S, w, n, f)
         /\ \E o \in S : SeenHidden(o, S, p, e.life, place, view, w + 1, n)
<1> DEFINE d == [e EXCEPT !.lastCulled = w + 1]
           v == e.result
<1>0. {MaxAge, Bridge} \subseteq Nat \ {0}
  BY OcclusionConstants
<1>1. /\ d \in PaneEntrySet /\ d.life = e.life /\ d.slots = e.slots
      /\ d.result = e.result /\ d.lastCulled = w + 1
  BY DEF PaneEntrySet
<1>2. v \in EvidenceSet /\ Holds(e, v)
  BY DEF Occluded, PaneEntrySet, AnswerSet, Holds
<1>3. /\ v.hidden /\ v.frame < w + 1 /\ w + 1 - v.frame <= MaxAge /\ v.frame \in Nat
      /\ v.place = place /\ v.view = view /\ v # NoEvidence
  BY <1>2 DEF Occluded, EvidenceSet
<1>4. w - v.frame < MaxAge + Bridge
  BY <1>0, <1>3
<1>5. PICK o \in S : /\ o.pane = p /\ o.life = e.life /\ o.epoch = n
                     /\ o.frame = v.frame /\ o.place = v.place /\ o.view = v.view
                     /\ o.hidden = v.hidden
  BY <1>2, <1>4 DEF EntrySound, Backed
<1>6. \A q \in S : q.pane = p /\ q.read => q.frame <= o.frame /\ q.frame \in Nat
  BY <1>3, <1>5 DEF EntrySound, NoneNewer, ObservationSet
<1>7. \A q \in S : q.pane = p /\ q.read /\ q.frame > o.frame => q.hidden
  BY <1>3, <1>5, <1>6
<1> HIDE DEF d
<1>8. EntrySound(p, d, S, w, n, f)
  <2>1. NoneNewer(p, d, S) /\ Ordered(d) /\ NoLater(d, f)
    BY <1>1, SameEvidence DEF EntrySound
  <2>2. Backed(p, d, S, w, n)
    <3>1. \A u \in EvidenceSet : Holds(d, u) => Holds(e, u)
      BY <1>1 DEF Holds
    <3> QED
      BY <1>1, <3>1 DEF EntrySound, Backed
  <2>3. CulledHidden(p, d, S, w, n)
    <3>1. o.hidden /\ o.frame = v.frame
      BY <1>3, <1>5
    <3>2. d.lastCulled - o.frame <= MaxAge
      BY <1>1, <1>3, <3>1
    <3> QED
      BY <1>1, <1>5, <3>1, <3>2 DEF CulledHidden
  <2> QED
    BY <2>1, <2>2, <2>3 DEF EntrySound
<1>9. SeenHidden(o, S, p, e.life, place, view, w + 1, n)
  <2>1. o.hidden /\ o.frame = v.frame /\ o.place = place /\ o.view = view
    BY <1>3, <1>5
  <2>3. o.epoch = n /\ o.pane = p /\ o.life = e.life
    BY <1>5
  <2> DEFINE upcoming == w + 1
  <2> HIDE DEF upcoming
  <2>4. o.frame < upcoming /\ upcoming - o.frame <= MaxAge
    BY <1>3, <2>1 DEF upcoming
  <2>5. SeenHidden(o, S, p, e.life, place, view, upcoming, n)
    BY <1>7, <2>1, <2>3, <2>4 DEF SeenHidden
  <2> QED
    BY <2>5 DEF upcoming
<1> QED
  BY <1>1, <1>8, <1>9 DEF d

-----------------------------------------------------------------------------
\* What is newly seen in frame w (T, after S), of a mirror only if it is asked
\* about, and read only if the answer is known at once.
NewlySeen(p, e, outcome, S, T, w) ==
  \A o \in T : o \in S \/ (/\ o.frame = w
                           /\ o.pane = p => /\ o.read => outcome \in {"unknown", "outside"}
                                            /\ outcome \in {"unknown", "outside"}
                                                 \/ FreeSlots(e) # {})

\* The evidence t is what is newly seen of the mirror.
TicketSeen(p, e, outcome, t, T, w, n) ==
  outcome = "outside" \/ (outcome \in {"hidden", "visible"} /\ FreeSlots(e) # {}) =>
    \E o \in T : /\ o.pane = p /\ o.life = e.life /\ o.epoch = n /\ o.frame = w
                 /\ o.place = t.place /\ o.view = t.view /\ o.hidden = t.hidden

\* A mirror is asked about: what nothing is known of forgets, the answer of what is
\* off the screen is known at once, and the others have one more query pending, or none.
LEMMA ProbeSound ==
  ASSUME NEW p, NEW e \in PaneEntrySet, NEW w \in Nat, NEW n, NEW f \in Nat, f < w,
         NEW S \in SUBSET ObservationSet, NEW T \in SUBSET ObservationSet,
         NEW outcome \in Outcomes, NEW t \in EvidenceSet, t.frame = w, t.valid,
         \A o \in S : o.frame < w, S \subseteq T,
         EntrySound(p, e, S, w, n, f), NewlySeen(p, e, outcome, S, T, w),
         TicketSeen(p, e, outcome, t, T, w, n)
  PROVE  /\ Probed(e, outcome, t) \in PaneEntrySet
         /\ Probed(e, outcome, t).life = e.life
         /\ EntrySound(p, Probed(e, outcome, t), T, w, n, w)
<1>1. /\ e.slots \in [1 .. QuerySlots -> AnswerSet] /\ e.life \in Lives
      /\ e.result \in AnswerSet /\ e.lastCulled \in Nat
  BY DEF PaneEntrySet
<1>2. KeepsObservations(S, T)
  BY DEF KeepsObservations
<1>3. Backed(p, e, T, w, n) /\ CulledHidden(p, e, T, w, n)
  BY <1>2, BackedKept, CulledKept DEF EntrySound
<1>4. NoLater(e, w)
  BY DEF EntrySound, NoLater, EvidenceSet
<1>5. t.frame = w /\ t.valid
  OBVIOUS
<1>6. t # NoEvidence
  BY OcclusionConstants DEF EvidenceSet
<1>7. \A k \in Pending(e) : /\ k \in 1 .. QuerySlots /\ e.slots[k] \in EvidenceSet
                            /\ Holds(e, e.slots[k])
  BY <1>1 DEF Pending, AnswerSet, Holds
<1>8. \A k \in Pending(e) : e.slots[k].frame \in Nat /\ e.slots[k].frame <= f
  BY <1>7 DEF EntrySound, NoLater, EvidenceSet
<1>9. \A o \in T : o.frame \in Nat /\ o.frame <= w
  BY DEF ObservationSet, NewlySeen
<1>10. CASE outcome = "unknown"
  <2>1. Probed(e, outcome, t) = InvalidateEntry(e)
    BY <1>10 DEF Probed
  <2> QED
    BY <1>3, <1>4, <2>1, InvalidateEntrySound
<1>11. CASE outcome = "outside"
  <2> DEFINE d == [e EXCEPT !.result = t]
  <2>1. Probed(e, outcome, t) = d
    BY <1>11 DEF Probed
  <2>2. /\ d \in PaneEntrySet /\ d.life = e.life /\ d.slots = e.slots
        /\ d.result = t /\ d.lastCulled = e.lastCulled
    BY DEF PaneEntrySet, AnswerSet
  <2> HIDE DEF d
  <2>3. \A v \in EvidenceSet : Holds(d, v) => v = t \/ Holds(e, v)
    BY <2>2 DEF Holds
  <2>4. Backed(p, d, T, w, n)
    BY <1>3, <1>5, <1>11, <2>2, <2>3 DEF Backed, TicketSeen
  <2>5. CulledHidden(p, d, T, w, n)
    BY <1>3, <2>2 DEF CulledHidden
  <2>6. NoLater(d, w)
    BY <1>4, <1>5, <2>3 DEF NoLater
  <2>7. NoneNewer(p, d, T)
    BY <1>5, <1>6, <1>9, <2>2 DEF NoneNewer
  <2>8. Pending(d) = Pending(e)
    BY <2>2 DEF Pending
  <2>9. Ordered(d)
    <3>1. \A k \in Pending(e) : e.slots[k].frame < t.frame
      BY <1>5, <1>8
    <3> QED
      BY <2>2, <2>8, <3>1 DEF EntrySound, Ordered
  <2> QED
    BY <2>1, <2>2, <2>4, <2>5, <2>6, <2>7, <2>9 DEF EntrySound
<1>12. CASE outcome \in {"hidden", "visible"} /\ FreeSlots(e) = {}
  <2>1. Probed(e, outcome, t) = e
    BY <1>12 DEF Probed
  <2>2. NoneNewer(p, e, T)
    <3>1. \A o \in T : o.pane = p => o \in S
      BY <1>12 DEF NewlySeen
    <3> QED
      BY <3>1 DEF EntrySound, NoneNewer
  <2> QED
    BY <1>3, <1>4, <2>1, <2>2 DEF EntrySound
<1>13. CASE outcome \in {"hidden", "visible"} /\ FreeSlots(e) # {}
  <2> DEFINE free == CHOOSE k \in FreeSlots(e) : \A j \in FreeSlots(e) : k <= j
             d == [e EXCEPT !.slots[free] = t]
  <2>1. Probed(e, outcome, t) = d
    BY <1>13 DEF Probed
  <2>2. free \in FreeSlots(e)
    <3>1. FreeSlots(e) \in SUBSET Nat
      BY OcclusionConstants DEF FreeSlots
    <3>2. \E k \in FreeSlots(e) : \A j \in FreeSlots(e) : k <= j
      BY <1>13, <3>1, HasLeast
    <3> QED
      BY <3>2
  <2> HIDE DEF free
  <2>3. free \in 1 .. QuerySlots /\ free \notin Pending(e)
    BY <2>2 DEF FreeSlots
  <2>4. /\ d.life = e.life /\ d.result = e.result /\ d.lastCulled = e.lastCulled
        /\ d.slots = [e.slots EXCEPT ![free] = t]
    BY DEF PaneEntrySet
  <2>5. d.slots \in [1 .. QuerySlots -> AnswerSet]
    BY <1>1, <2>3, <2>4 DEF AnswerSet
  <2>6. d \in PaneEntrySet
    BY <1>1, <2>3, <2>4, <2>5 DEF PaneEntrySet
  <2> HIDE DEF d
  <2>7. d.slots[free] = t /\ \A k \in 1 .. QuerySlots : k # free => d.slots[k] = e.slots[k]
    BY <1>1, <2>3, <2>4
  <2>8. Pending(d) = Pending(e) \cup {free}
    BY <1>6, <2>3, <2>7 DEF Pending
  <2>9. \A v \in EvidenceSet : Holds(d, v) => v = t \/ Holds(e, v)
    BY <2>4, <2>7 DEF Holds
  <2>10. Backed(p, d, T, w, n)
    BY <1>3, <1>5, <1>13, <2>4, <2>9 DEF Backed, TicketSeen
  <2>11. CulledHidden(p, d, T, w, n)
    BY <1>3, <2>4 DEF CulledHidden
  <2>12. NoLater(d, w)
    BY <1>4, <1>5, <2>9 DEF NoLater
  <2>13. NoneNewer(p, d, T)
    <3>1. \A o \in T : o.pane = p /\ o.read => o \in S
      BY <1>13 DEF NewlySeen
    <3>2. \A o \in S : o.frame < t.frame
      BY <1>5
    <3> QED
      BY <2>3, <2>4, <2>7, <2>8, <3>1, <3>2, <1>7 DEF EntrySound, NoneNewer
  <2>14. Ordered(d)
    <3>1. \A k \in Pending(e) : e.slots[k].frame < t.frame
      BY <1>5, <1>8
    <3> QED
      BY <1>5, <1>7, <2>3, <2>4, <2>7, <2>8, <3>1 DEF EntrySound, Ordered
  <2> QED
    BY <2>1, <2>4, <2>6, <2>10, <2>11, <2>12, <2>13, <2>14 DEF EntrySound
<1> QED
  BY <1>10, <1>11, <1>12, <1>13 DEF Outcomes

-----------------------------------------------------------------------------
\* The entries are sound for what is seen (S) in frame w.
EntriesSound(entries, S, w, n, f) ==
  \A p \in DOMAIN entries :
    entries[p] \in PaneEntrySet /\ EntrySound(p, entries[p], S, w, n, f)

\* The invariant follows from sound entries.
LEMMA InvOfQueries ==
  ASSUME OcclusionInv, queries # NoQueries
  PROVE  \E P \in SUBSET Panes :
           /\ queries = [epoch |-> queries.epoch, frame |-> queries.frame,
                         submitted |-> queries.submitted, probes |-> queries.probes,
                         entries |-> queries.entries]
           /\ queries.epoch \in Nat /\ queries.frame \in Nat /\ queries.submitted \in Nat
           /\ queries.probes \in ProbesOver(P) /\ queries.entries \in EntriesOver(P)
           /\ DOMAIN queries.entries = P /\ DOMAIN queries.probes = P
           /\ EntriesSound(queries.entries, seen, worldFrame, queries.epoch, queries.submitted)
<1>1. PICK P \in SUBSET Panes : queries \in QueriesOver(P)
  BY DEF OcclusionInv, OcclusionTyped
<1>2. /\ queries = [epoch |-> queries.epoch, frame |-> queries.frame,
                    submitted |-> queries.submitted, probes |-> queries.probes,
                    entries |-> queries.entries]
      /\ queries.epoch \in Nat /\ queries.frame \in Nat /\ queries.submitted \in Nat
      /\ queries.probes \in ProbesOver(P) /\ queries.entries \in EntriesOver(P)
  BY <1>1 DEF QueriesOver
<1>3. /\ DOMAIN queries.entries = P /\ DOMAIN queries.probes = P
      /\ \A p \in P : queries.entries[p] \in PaneEntrySet
  BY <1>2 DEF EntriesOver, ProbesOver
<1>4. EntriesSound(queries.entries, seen, worldFrame, queries.epoch, queries.submitted)
  BY <1>3 DEF EntriesSound, OcclusionInv
<1> QED
  BY <1>2, <1>3, <1>4

\* What the fence finds: queries of this epoch.
LEMMA FilteredSound ==
  ASSUME OcclusionInv
  PROVE  LET q == FilteredQueries
         IN  /\ q = [epoch |-> epoch, frame |-> q.frame, submitted |-> q.submitted,
                     probes |-> q.probes, entries |-> q.entries]
             /\ q.submitted \in Nat /\ q.submitted <= worldFrame
             /\ EntriesSound(q.entries, seen, worldFrame, epoch, q.submitted)
<1> DEFINE q == FilteredQueries
<1>1. CASE queries = NoQueries \/ queries.epoch # epoch
  <2>1. q = NewQueries
    BY <1>1 DEF FilteredQueries
  <2>2. /\ q = [epoch |-> epoch, frame |-> q.frame, submitted |-> q.submitted,
                probes |-> q.probes, entries |-> q.entries]
        /\ q.submitted = 0 /\ q.entries = << >>
    BY <2>1 DEF NewQueries
  <2>3. DOMAIN q.entries = {}
    BY <2>2
  <2> QED
    BY <2>2, <2>3 DEF EntriesSound, OcclusionInv, OcclusionTyped
<1>2. CASE ~ (queries = NoQueries \/ queries.epoch # epoch)
  <2>1. q = queries /\ queries # NoQueries /\ queries.epoch = epoch
    BY <1>2 DEF FilteredQueries
  <2> QED
    BY <2>1, InvOfQueries DEF OcclusionInv
<1> QED
  BY <1>1, <1>2

\* ReconcileOcclusion keeps what stays and forgets what goes.
LEMMA ReconciledSound ==
  ASSUME NEW P, NEW probes \in ProbesOver(P), NEW entries, NEW S, NEW w, NEW n, NEW f,
         EntriesSound(entries, S, w, n, f)
  PROVE  LET r == ReconciledEntries(entries, probes)
         IN  /\ r \in EntriesOver(P) /\ DOMAIN r = P
             /\ \A p \in P : r[p].life = probes[p].life
             /\ EntriesSound(r, S, w, n, f)
<1> DEFINE r == ReconciledEntries(entries, probes)
<1>1. DOMAIN probes = P /\ \A p \in P : probes[p].life \in Lives
  BY DEF ProbesOver
<1>2. DOMAIN r = P /\ \A p \in P : r[p] = IF p \in DOMAIN entries /\ entries[p].life = probes[p].life
                                          THEN entries[p] ELSE NewEntry(probes[p].life)
  BY <1>1 DEF ReconciledEntries
<1>3. r = [p \in P |-> r[p]]
  BY <1>1 DEF ReconciledEntries
<1> HIDE DEF r
<1>4. \A p \in P : /\ r[p] \in PaneEntrySet /\ r[p].life = probes[p].life
                   /\ EntrySound(p, r[p], S, w, n, f)
  BY <1>1, <1>2, NewEntrySound DEF EntriesSound
<1>5. r \in EntriesOver(P)
  BY <1>3, <1>4 DEF EntriesOver
<1> QED
  BY <1>2, <1>4, <1>5 DEF EntriesSound, r

\* Invalidation forgets.
LEMMA InvalidatedSound ==
  ASSUME NEW P, NEW entries \in EntriesOver(P), NEW S, NEW w, NEW n, NEW f,
         EntriesSound(entries, S, w, n, f)
  PROVE  LET r == InvalidateEvidence(entries)
         IN  /\ r \in EntriesOver(P) /\ DOMAIN r = P
             /\ \A p \in P : r[p].life = entries[p].life /\ r[p].result = NoEvidence
             /\ EntriesSound(r, S, w, n, f)
<1> DEFINE r == InvalidateEvidence(entries)
<1>1. DOMAIN entries = P
  BY DEF EntriesOver
<1>2. DOMAIN r = P /\ \A p \in P : r[p] = InvalidateEntry(entries[p])
  BY <1>1 DEF InvalidateEvidence
<1>3. r = [p \in P |-> r[p]]
  BY <1>1 DEF InvalidateEvidence
<1> HIDE DEF r
<1>4. \A p \in P : /\ r[p] \in PaneEntrySet /\ r[p].life = entries[p].life
                   /\ r[p].result = NoEvidence /\ EntrySound(p, r[p], S, w, n, f)
  <2> TAKE p \in P
  <2>1. entries[p] \in PaneEntrySet /\ EntrySound(p, entries[p], S, w, n, f)
    BY <1>1 DEF EntriesSound
  <2>2. Backed(p, entries[p], S, w, n) /\ NoLater(entries[p], f)
    BY <2>1 DEF EntrySound
  <2> QED
    BY <1>2, <2>1, <2>2, InvalidateEntrySound
<1>5. r \in EntriesOver(P)
  BY <1>3, <1>4 DEF EntriesOver
<1> QED
  BY <1>2, <1>4, <1>5 DEF EntriesSound, r

\* A poll of every entry keeps them sound.
LEMMA PolledSound ==
  ASSUME NEW P, NEW entries \in EntriesOver(P), NEW n \in Nat, NEW w, NEW g, NEW f \in Nat,
         NEW S \in SUBSET ObservationSet, NEW T \in SUBSET ObservationSet,
         KeepsObservations(S, T),
         \A p \in P : ReadByPoll(p, entries[p], n, S, T),
         EntriesSound(entries, S, w, g, f)
  PROVE  LET r == Polled(entries, n)
         IN  /\ r \in EntriesOver(P) /\ DOMAIN r = P
             /\ \A p \in P : r[p].life = entries[p].life
             /\ EntriesSound(r, T, w, g, f)
<1> DEFINE r == Polled(entries, n)
<1>1. DOMAIN entries = P
  BY DEF EntriesOver
<1>2. DOMAIN r = P /\ \A p \in P : r[p] = PolledEntry(entries[p], n)
  BY <1>1 DEF Polled, PolledEntry
<1>3. r = [p \in P |-> r[p]]
  BY <1>1 DEF Polled
<1> HIDE DEF r
<1>4. \A p \in P : /\ r[p] \in PaneEntrySet /\ r[p].life = entries[p].life
                   /\ EntrySound(p, r[p], T, w, g, f)
  <2> TAKE p \in P
  <2>1. entries[p] \in PaneEntrySet /\ EntrySound(p, entries[p], S, w, g, f)
    BY <1>1 DEF EntriesSound
  <2>2. ReadByPoll(p, entries[p], n, S, T)
    OBVIOUS
  <2>3. /\ PolledEntry(entries[p], n) \in PaneEntrySet
        /\ PolledEntry(entries[p], n).life = entries[p].life
        /\ EntrySound(p, PolledEntry(entries[p], n), T, w, g, f)
    BY <2>1, <2>2, PollSound
  <2>4. r[p] = PolledEntry(entries[p], n)
    BY <1>2
  <2> QED
    BY <2>3, <2>4
<1>5. r \in EntriesOver(P)
  BY <1>3, <1>4 DEF EntriesOver
<1> QED
  BY <1>2, <1>4, <1>5 DEF EntriesSound, r

-----------------------------------------------------------------------------
\* What the fence keeps, and what it takes out of the demand.
CulledAsSeen ==
  \A c \in culls' : \E o \in seen' :
    SeenHidden(o, seen', c.pane, c.life, c.place, c.view, c.frame, epoch)

\* The probes have the types of their panes.
LEMMA ProbesTyped ==
  ASSUME NEW probes \in Probes
  PROVE  \E P \in SUBSET Panes : DOMAIN probes = P /\ probes \in ProbesOver(P)
<1>1. PICK P \in SUBSET Panes : probes \in [P -> [life : Lives, place : Places]]
  BY DEF Probes
<1> QED
  BY <1>1 DEF ProbesOver

\* FilterOccluded polls, then culls only what was seen hidden.
LEMMA FilterSound ==
  ASSUME OcclusionInv, NEW probes \in Probes, NEW view \in Views, NEW sameContext \in BOOLEAN,
         FilterCaptureDemand(probes, view, sameContext)
  PROVE  OcclusionInv' /\ CulledAsSeen
<1> DEFINE q == FilteredQueries
           upcoming == worldFrame + 1
           entries == ReconciledEntries(q.entries, probes)
           polledAt(n) == IF sameContext THEN Polled(entries, n) ELSE InvalidateEvidence(entries)
<1>1. PICK P \in SUBSET Panes : DOMAIN probes = P /\ probes \in ProbesOver(P)
  BY ProbesTyped
<1>2. PICK n \in Progress(entries), timely \in SUBSET P :
        /\ \A p \in timely : Occluded(polledAt(n)[p].result, probes[p].place, view, upcoming)
        /\ queries' = [q EXCEPT !.frame = upcoming, !.probes = probes,
             !.entries = [p \in P |-> IF p \in timely
                                      THEN [polledAt(n)[p] EXCEPT !.lastCulled = upcoming]
                                      ELSE polledAt(n)[p]]]
        /\ culls' = {[pane |-> p, life |-> probes[p].life, view |-> view,
                      place |-> probes[p].place, frame |-> upcoming] : p \in timely}
        /\ seen' = IF sameContext THEN MarkRead(entries, n) ELSE seen
  BY <1>1 DEF FilterCaptureDemand
<1>3. ~ depthFault /\ UNCHANGED <<epoch, depthFault, worldFrame>>
  BY DEF FilterCaptureDemand
<1>4. /\ q = [epoch |-> epoch, frame |-> q.frame, submitted |-> q.submitted,
              probes |-> q.probes, entries |-> q.entries]
      /\ q.submitted \in Nat /\ q.submitted <= worldFrame
      /\ EntriesSound(q.entries, seen, worldFrame, epoch, q.submitted)
  BY FilteredSound
<1> DEFINE polled == polledAt(n)
           leftOver == [p \in P |-> IF p \in timely THEN [polled[p] EXCEPT !.lastCulled = upcoming]
                                ELSE polled[p]]
<1>5. queries' = [epoch |-> epoch, frame |-> upcoming, submitted |-> q.submitted,
                  probes |-> probes, entries |-> leftOver]
  <2>1. queries' = [q EXCEPT !.frame = upcoming, !.probes = probes, !.entries = leftOver]
    BY <1>2
  <2> HIDE DEF leftOver, q, upcoming
  <2>2. PICK f, m, r, e : q = [epoch |-> epoch, frame |-> f, submitted |-> m,
                               probes |-> r, entries |-> e]
    BY <1>4
  <2>3. q.submitted = m
    BY <2>2
  <2>4. queries' = [epoch |-> epoch, frame |-> upcoming, submitted |-> m,
                    probes |-> probes, entries |-> leftOver]
    BY <2>1, <2>2
  <2> QED
    BY <2>3, <2>4
<1>6. /\ entries \in EntriesOver(P) /\ DOMAIN entries = P
      /\ \A p \in P : entries[p].life = probes[p].life
      /\ EntriesSound(entries, seen, worldFrame, epoch, q.submitted)
  BY <1>1, <1>4, ReconciledSound
<1>7. /\ seen \in SUBSET ObservationSet /\ worldFrame \in Nat /\ epoch \in Nat
      /\ \A o \in seen : o.frame <= worldFrame
  BY DEF OcclusionInv, OcclusionTyped
<1>8. n \in Nat
  BY <1>2, <1>6, ProgressIsNat
<1> HIDE DEF entries, q
<1>9. /\ polled \in EntriesOver(P) /\ DOMAIN polled = P
      /\ \A p \in P : polled[p].life = probes[p].life
      /\ EntriesSound(polled, seen', worldFrame, epoch, q.submitted)
      /\ seen' \in SUBSET ObservationSet
      /\ \A o \in seen' : o.frame <= worldFrame
  <2>1. CASE sameContext
    <3>1. seen' = MarkRead(entries, n) /\ polled = Polled(entries, n)
      BY <1>2, <2>1
    <3>2. /\ seen' \in SUBSET ObservationSet
          /\ KeepsObservations(seen, seen')
          /\ \A o \in seen' : \E r \in seen : o.frame = r.frame
          /\ \A p \in P : ReadByPoll(p, entries[p], n, seen, seen')
      BY <1>6, <1>7, <3>1, MarkReadKeeps
    <3>3. /\ polled \in EntriesOver(P) /\ DOMAIN polled = P
          /\ \A p \in P : polled[p].life = entries[p].life
          /\ EntriesSound(polled, seen', worldFrame, epoch, q.submitted)
      <4> HIDE DEF polled
      <4> QED
        BY <1>4, <1>6, <1>7, <1>8, <3>1, <3>2, PolledSound
    <3> QED
      BY <1>6, <1>7, <3>2, <3>3
  <2>2. CASE ~ sameContext
    <3>1. seen' = seen /\ polled = InvalidateEvidence(entries)
      BY <1>2, <2>2
    <3>2. /\ polled \in EntriesOver(P) /\ DOMAIN polled = P
          /\ \A p \in P : polled[p].life = entries[p].life
          /\ EntriesSound(polled, seen, worldFrame, epoch, q.submitted)
      <4> HIDE DEF polled
      <4> QED
        BY <1>6, <3>1, InvalidatedSound
    <3> QED
      BY <1>6, <1>7, <3>1, <3>2
  <2> QED
    BY <2>1, <2>2
<1>10. \A p \in timely : Occluded(polled[p].result, probes[p].place, view, worldFrame + 1)
  BY <1>2
<1>11. culls' = {[pane |-> p, life |-> probes[p].life, view |-> view,
                  place |-> probes[p].place, frame |-> worldFrame + 1] : p \in timely}
  BY <1>2
<1> HIDE DEF polled
<1>12. \A p \in P : polled[p] \in PaneEntrySet
                    /\ EntrySound(p, polled[p], seen', worldFrame, epoch, q.submitted)
  BY <1>9 DEF EntriesSound
<1>13. \A p \in timely :
         /\ [polled[p] EXCEPT !.lastCulled = upcoming] \in PaneEntrySet
         /\ EntrySound(p, [polled[p] EXCEPT !.lastCulled = upcoming], seen', worldFrame, epoch,
                       q.submitted)
         /\ \E o \in seen' : SeenHidden(o, seen', p, polled[p].life, probes[p].place, view,
                                        worldFrame + 1, epoch)
  <2> TAKE p \in timely
  <2> DEFINE e == polled[p]
             place == probes[p].place
  <2>1. e \in PaneEntrySet /\ EntrySound(p, e, seen', worldFrame, epoch, q.submitted)
    BY <1>12
  <2>2. Occluded(e.result, place, view, worldFrame + 1)
    BY <1>10
  <2> HIDE DEF e, place
  <2>3. /\ [e EXCEPT !.lastCulled = worldFrame + 1] \in PaneEntrySet
        /\ EntrySound(p, [e EXCEPT !.lastCulled = worldFrame + 1], seen', worldFrame, epoch,
                      q.submitted)
        /\ \E o \in seen' :
             SeenHidden(o, seen', p, e.life, place, view, worldFrame + 1, epoch)
    BY <1>7, <1>9, <2>1, <2>2, CullSound
  <2> QED
    BY <2>3 DEF e, place
<1>14. CulledAsSeen
  <2> SUFFICES ASSUME NEW c \in culls'
               PROVE  \E o \in seen' :
                        SeenHidden(o, seen', c.pane, c.life, c.place, c.view, c.frame, epoch)
    BY DEF CulledAsSeen
  <2>1. PICK p \in timely : c = [pane |-> p, life |-> probes[p].life, view |-> view,
                                 place |-> probes[p].place, frame |-> worldFrame + 1]
    BY <1>11
  <2>2. /\ c.pane = p /\ c.life = probes[p].life /\ c.view = view
        /\ c.place = probes[p].place /\ c.frame = worldFrame + 1
    BY <2>1
  <2>3. p \in P /\ polled[p].life = probes[p].life
    BY <1>9
  <2> QED
    BY <1>13, <2>2, <2>3
<1>15. \A p \in P : /\ leftOver[p] \in PaneEntrySet
                    /\ EntrySound(p, leftOver[p], seen', worldFrame, epoch, q.submitted)
  BY <1>12, <1>13
<1>16. leftOver \in EntriesOver(P) /\ DOMAIN leftOver = P
  BY <1>15 DEF EntriesOver
<1>17. /\ queries'.epoch = epoch /\ queries'.frame = worldFrame + 1
       /\ queries'.submitted = q.submitted /\ queries'.entries = leftOver
  BY <1>5
<1> HIDE DEF leftOver, upcoming
<1>18. OcclusionTyped'
  <2>1. queries' \in QueriesOver(P)
    BY <1>1, <1>4, <1>5, <1>7, <1>16 DEF QueriesOver, upcoming
  <2> QED
    BY <1>3, <1>7, <1>9, <2>1 DEF OcclusionTyped, OcclusionInv
<1>19. OcclusionInv'
  BY <1>3, <1>4, <1>7, <1>9, <1>15, <1>16, <1>17, <1>18 DEF OcclusionInv
<1> QED
  BY <1>14, <1>19

-----------------------------------------------------------------------------
\* The remaining operations, one by one.
LEMMA InvalidateKeepsOcclusion ==
  ASSUME OcclusionInv, InvalidateOcclusion PROVE OcclusionInv'
<1> USE DEF InvalidateOcclusion
<1>1. OcclusionTyped'
  BY DEF OcclusionInv, OcclusionTyped
<1> QED
  BY <1>1 DEF OcclusionInv

\* A device failure forgets everything.
LEMMA FailKeepsOcclusion ==
  ASSUME OcclusionInv, Fail PROVE OcclusionInv'
BY DEF OcclusionInv, OcclusionTyped, Fail

\* In the next frame only what is too old to matter is forgotten.
LEMMA EnterKeepsOcclusion ==
  ASSUME OcclusionInv, EnterMainWorld PROVE OcclusionInv'
<1>1. /\ worldFrame' = worldFrame + 1
      /\ seen' = {o \in seen : worldFrame + 1 - o.frame < MaxAge + Bridge}
      /\ UNCHANGED <<queries, epoch, depthFault>>
  BY DEF EnterMainWorld
<1>2. {MaxAge, Bridge} \subseteq Nat \ {0}
  BY OcclusionConstants
<1>3. worldFrame \in Nat /\ seen \in SUBSET ObservationSet /\ \A o \in seen : o.frame <= worldFrame
  BY DEF OcclusionInv, OcclusionTyped
<1>4. \A o \in seen : o.frame \in Nat
  BY <1>3 DEF ObservationSet
<1>5. OcclusionTyped'
  BY <1>1 DEF OcclusionInv, OcclusionTyped
<1>6. \A o \in seen' : o.frame < worldFrame'
  BY <1>1, <1>3, <1>4
<1>7. ASSUME queries # NoQueries
      PROVE  /\ queries.frame <= worldFrame' + 1 /\ queries.submitted <= worldFrame'
             /\ \A p \in DOMAIN queries.entries :
                  EntrySound(p, queries.entries[p], seen', worldFrame', queries.epoch,
                             queries.submitted)
  <2>1. PICK P \in SUBSET Panes :
          /\ queries.epoch \in Nat /\ queries.frame \in Nat /\ queries.submitted \in Nat
          /\ queries.entries \in EntriesOver(P) /\ DOMAIN queries.entries = P
          /\ EntriesSound(queries.entries, seen, worldFrame, queries.epoch, queries.submitted)
    BY <1>7, InvOfQueries
  <2>2. queries.frame <= worldFrame' + 1 /\ queries.submitted <= worldFrame'
    BY <1>1, <1>3, <1>7, <2>1 DEF OcclusionInv
  <2>3. ASSUME NEW p \in P
        PROVE  EntrySound(p, queries.entries[p], seen', worldFrame', queries.epoch,
                          queries.submitted)
    <3> DEFINE e == queries.entries[p]
               n == queries.epoch
    <3>1. e \in PaneEntrySet /\ EntrySound(p, e, seen, worldFrame, n, queries.submitted)
      BY <2>1, <2>3 DEF EntriesSound
    <3> HIDE DEF e, n
    <3>2. Backed(p, e, seen', worldFrame', n)
      <4> SUFFICES ASSUME NEW v \in EvidenceSet, Holds(e, v),
                          worldFrame' - v.frame < MaxAge + Bridge
                   PROVE  \E o \in seen' : /\ o.pane = p /\ o.life = e.life /\ o.epoch = n
                                           /\ o.frame = v.frame /\ o.place = v.place
                                           /\ o.view = v.view /\ o.hidden = v.hidden
        BY DEF Backed
      <4>0. v.frame \in Nat
        BY DEF EvidenceSet
      <4>1. worldFrame - v.frame < MaxAge + Bridge
        BY <1>1, <1>2, <1>3, <4>0
      <4>2. PICK o \in seen : /\ o.pane = p /\ o.life = e.life /\ o.epoch = n
                              /\ o.frame = v.frame /\ o.place = v.place
                              /\ o.view = v.view /\ o.hidden = v.hidden
        BY <3>1, <4>1 DEF EntrySound, Backed
      <4>3. worldFrame + 1 - o.frame < MaxAge + Bridge
        <5>1. worldFrame + 1 - v.frame < MaxAge + Bridge
          BY <1>1, <1>3, <4>0
        <5>2. o.frame = v.frame
          BY <4>2
        <5> QED
          BY <1>2, <1>3, <4>0, <5>1, <5>2
      <4>4. o \in seen'
        BY <1>1, <4>3
      <4> QED
        BY <4>2, <4>4
    <3>3. NoneNewer(p, e, seen')
      BY <1>1, <3>1 DEF EntrySound, NoneNewer
    <3>4. CulledHidden(p, e, seen', worldFrame', n)
      <4> SUFFICES ASSUME e.lastCulled # 0, worldFrame' - e.lastCulled < Bridge
                   PROVE  \E o \in seen' : /\ o.pane = p /\ o.life = e.life /\ o.epoch = n
                                           /\ o.hidden /\ e.lastCulled - o.frame <= MaxAge
        BY DEF CulledHidden
      <4>0. e.lastCulled \in Nat
        BY <3>1 DEF PaneEntrySet
      <4>1. worldFrame - e.lastCulled < Bridge
        BY <1>1, <1>2, <1>3, <4>0
      <4>2. PICK o \in seen : /\ o.pane = p /\ o.life = e.life /\ o.epoch = n /\ o.hidden
                              /\ e.lastCulled - o.frame <= MaxAge
        BY <3>1, <4>1 DEF EntrySound, CulledHidden
      <4>3. worldFrame + 1 - o.frame < MaxAge + Bridge
        BY <1>1, <1>2, <1>3, <1>4, <4>0, <4>2
      <4>4. o \in seen'
        BY <1>1, <4>3
      <4> QED
        BY <4>2, <4>4
    <3> QED
      BY <3>1, <3>2, <3>3, <3>4 DEF EntrySound, e, n
  <2> QED
    BY <2>1, <2>2, <2>3
<1>8. \A o \in seen' : o.frame <= worldFrame' /\ o.frame # worldFrame'
  BY <1>1, <1>3, <1>4, <1>6
<1> QED
  BY <1>1, <1>5, <1>7, <1>8 DEF OcclusionInv

\* Queries that are refused lose all their evidence.
LEMMA RejectedKeepsOcclusion ==
  ASSUME OcclusionInv, ObserveRejected PROVE OcclusionInv'
<1>1. /\ queries # NoQueries /\ worldFrame # queries.submitted
      /\ UNCHANGED <<epoch, depthFault, worldFrame, culls, seen>>
  BY DEF ObserveRejected, Observes, IsCurrent
<1>2. PICK P \in SUBSET Panes :
        /\ queries = [epoch |-> queries.epoch, frame |-> queries.frame,
                      submitted |-> queries.submitted, probes |-> queries.probes,
                      entries |-> queries.entries]
        /\ queries.epoch \in Nat /\ queries.frame \in Nat /\ queries.submitted \in Nat
        /\ queries.probes \in ProbesOver(P) /\ queries.entries \in EntriesOver(P)
        /\ DOMAIN queries.entries = P /\ DOMAIN queries.probes = P
        /\ EntriesSound(queries.entries, seen, worldFrame, queries.epoch, queries.submitted)
  BY <1>1, InvOfQueries
<1> DEFINE leftOver == InvalidateEvidence(queries.entries)
<1>3. PICK submitted \in {queries.submitted} \cup
                         (IF worldFrame = queries.frame THEN {worldFrame} ELSE {}) :
        queries' = [queries EXCEPT !.submitted = submitted, !.entries = leftOver]
  BY DEF ObserveRejected
<1>4. /\ worldFrame \in Nat
      /\ queries.frame <= worldFrame + 1 /\ queries.submitted <= worldFrame
      /\ queries.frame = worldFrame /\ queries.submitted # worldFrame =>
           \A o \in seen : o.frame # worldFrame
  BY <1>1 DEF OcclusionInv, OcclusionTyped
<1>5. /\ submitted \in Nat /\ queries.submitted <= submitted /\ submitted <= worldFrame
      /\ submitted # worldFrame => submitted = queries.submitted
  BY <1>2, <1>3, <1>4
<1>6. /\ leftOver \in EntriesOver(P) /\ DOMAIN leftOver = P
      /\ EntriesSound(leftOver, seen, worldFrame, queries.epoch, queries.submitted)
  BY <1>2, InvalidatedSound
<1> HIDE DEF leftOver
<1>7. queries' = [epoch |-> queries.epoch, frame |-> queries.frame, submitted |-> submitted,
                  probes |-> queries.probes, entries |-> leftOver]
  <2>1. PICK g, f, m, r, e : /\ queries = [epoch |-> g, frame |-> f, submitted |-> m,
                                           probes |-> r, entries |-> e]
    BY <1>2
  <2>2. queries.epoch = g /\ queries.frame = f /\ queries.probes = r
    BY <2>1
  <2>3. queries' = [epoch |-> g, frame |-> f, submitted |-> submitted, probes |-> r,
                    entries |-> leftOver]
    BY <1>3, <2>1
  <2> QED
    BY <2>2, <2>3
<1>8. queries' \in QueriesOver(P)
  BY <1>2, <1>5, <1>6, <1>7 DEF QueriesOver
<1>9. OcclusionTyped'
  BY <1>1, <1>8 DEF OcclusionInv, OcclusionTyped
<1>10. ASSUME NEW p \in P
       PROVE  EntrySound(p, leftOver[p], seen, worldFrame, queries.epoch, submitted)
  <2>1. EntrySound(p, leftOver[p], seen, worldFrame, queries.epoch, queries.submitted)
    BY <1>6, <1>10 DEF EntriesSound
  <2>2. NoLater(leftOver[p], submitted)
    BY <1>2, <1>5, <2>1 DEF EntrySound, NoLater, EvidenceSet
  <2> QED
    BY <2>1, <2>2 DEF EntrySound
<1>11. /\ queries'.epoch = queries.epoch /\ queries'.frame = queries.frame
       /\ queries'.submitted = submitted /\ queries'.entries = leftOver
  BY <1>7
<1> QED
  BY <1>1, <1>4, <1>5, <1>6, <1>9, <1>10, <1>11 DEF OcclusionInv

\* The queries of the frame are submitted.
LEMMA SubmitKeepsOcclusion ==
  ASSUME OcclusionInv, NEW view \in Views, NEW sameDepth \in BOOLEAN, NEW drawn \in BOOLEAN,
         Submit(view, sameDepth, drawn)
  PROVE  OcclusionInv'
<1> DEFINE w == worldFrame
           leftOver == IF sameDepth THEN queries.entries
                   ELSE [p \in DOMAIN queries.entries |-> NewEntry(queries.entries[p].life)]
           Ticket(p, unseen) == [frame |-> w, view |-> view, place |-> queries.probes[p].place,
                                 hidden |-> unseen, valid |-> TRUE]
<1>1. /\ queries # NoQueries /\ queries.epoch = epoch /\ w # queries.submitted
      /\ w = queries.frame
      /\ UNCHANGED <<epoch, depthFault, worldFrame, culls>>
  BY DEF Submit, Observes, IsCurrent
<1>2. PICK P \in SUBSET Panes :
        /\ queries = [epoch |-> queries.epoch, frame |-> queries.frame,
                      submitted |-> queries.submitted, probes |-> queries.probes,
                      entries |-> queries.entries]
        /\ queries.epoch \in Nat /\ queries.frame \in Nat /\ queries.submitted \in Nat
        /\ queries.probes \in ProbesOver(P) /\ queries.entries \in EntriesOver(P)
        /\ DOMAIN queries.entries = P /\ DOMAIN queries.probes = P
        /\ EntriesSound(queries.entries, seen, w, queries.epoch, queries.submitted)
  BY <1>1, InvOfQueries
<1>3. /\ seen \in SUBSET ObservationSet /\ w \in Nat /\ epoch \in Nat
      /\ queries.submitted < w
      /\ \A o \in seen : o.frame \in Nat /\ o.frame < w
  BY <1>1, <1>2 DEF OcclusionInv, OcclusionTyped, ObservationSet
<1>4. /\ leftOver \in EntriesOver(P) /\ DOMAIN leftOver = P
      /\ \A p \in P : leftOver[p].life \in Lives
      /\ EntriesSound(leftOver, seen, w, epoch, queries.submitted)
  <2>1. CASE sameDepth
    BY <1>1, <1>2, <2>1 DEF EntriesOver, PaneEntrySet
  <2>2. CASE ~ sameDepth
    <3>1. leftOver = [p \in P |-> NewEntry(queries.entries[p].life)]
      BY <1>2, <2>2
    <3> HIDE DEF leftOver
    <3>2. \A p \in P : queries.entries[p].life \in Lives
      BY <1>2 DEF EntriesOver, PaneEntrySet
    <3>3. DOMAIN leftOver = P /\ \A p \in P : leftOver[p] = NewEntry(queries.entries[p].life)
      BY <3>1
    <3>4. \A p \in P : /\ leftOver[p] \in PaneEntrySet /\ leftOver[p].life \in Lives
                       /\ EntrySound(p, leftOver[p], seen, w, epoch, queries.submitted)
      BY <3>2, <3>3, NewEntrySound
    <3>5. leftOver \in EntriesOver(P)
      BY <3>1, <3>3, <3>4 DEF EntriesOver
    <3> QED
      BY <3>3, <3>4, <3>5 DEF EntriesSound
  <2> QED
    BY <2>1, <2>2
<1> DEFINE polled(n) == Polled(leftOver, n)
           probed(n, outcome) == [p \in DOMAIN leftOver |->
             Probed(polled(n)[p], outcome[p], Ticket(p, outcome[p] # "visible"))]
           asked(n, outcome) == {p \in DOMAIN leftOver :
             outcome[p] \in {"unknown", "outside"} \/ FreeSlots(polled(n)[p]) # {}}
           Seen(p, outcome) ==
             [pane |-> p, life |-> leftOver[p].life, place |-> queries.probes[p].place,
              view |-> view, frame |-> w, epoch |-> epoch,
              hidden |-> outcome[p] \in {"outside", "hidden"},
              read |-> outcome[p] \in {"unknown", "outside"}]
<1>5. PICK n \in Progress(leftOver), outcome \in [DOMAIN leftOver -> Outcomes] :
        /\ queries' = [queries EXCEPT !.submitted = w,
             !.entries = IF drawn THEN probed(n, outcome)
                         ELSE InvalidateEvidence(probed(n, outcome))]
        /\ seen' = MarkRead(leftOver, n) \cup {Seen(p, outcome) : p \in asked(n, outcome)}
  BY DEF Submit
<1> DEFINE polls == polled(n)
           probes == probed(n, outcome)
           T == MarkRead(leftOver, n)
           obs(p) == Seen(p, outcome)
           who == asked(n, outcome)
           ticket(p) == Ticket(p, outcome[p] # "visible")
           last == IF drawn THEN probes ELSE InvalidateEvidence(probes)
<1>6. n \in Nat
  BY <1>4, <1>5, ProgressIsNat
<1>7. \A p \in P : queries.probes[p].place \in Places
  BY <1>2 DEF ProbesOver
<1>8. ASSUME NEW p \in P
      PROVE  /\ probes[p] = Probed(polls[p], outcome[p], ticket(p))
             /\ ticket(p) \in EvidenceSet
             /\ ticket(p).frame = w /\ ticket(p).view = view
             /\ ticket(p).place = queries.probes[p].place /\ ticket(p).valid
             /\ ticket(p).hidden <=> outcome[p] # "visible"
  <2>1. probes[p] = Probed(polls[p], outcome[p], ticket(p))
    BY <1>4, <1>8
  <2> DEFINE unseen == outcome[p] # "visible"
  <2>2. unseen \in BOOLEAN
    OBVIOUS
  <2>3. ticket(p) = [frame |-> w, view |-> view, place |-> queries.probes[p].place,
                     hidden |-> unseen, valid |-> TRUE]
    OBVIOUS
  <2> HIDE DEF unseen, ticket, w, probes, polls
  <2>4. /\ ticket(p) \in EvidenceSet
        /\ ticket(p).frame = w /\ ticket(p).view = view
        /\ ticket(p).place = queries.probes[p].place /\ ticket(p).valid
        /\ ticket(p).hidden = unseen
    BY <1>3, <1>7, <1>8, <2>2, <2>3 DEF EvidenceSet
  <2> QED
    BY <2>1, <2>4 DEF unseen
<1>9. DOMAIN probes = P /\ probes = [p \in P |-> probes[p]]
  BY <1>4
<1>10. ASSUME NEW p \in P
       PROVE  /\ obs(p) \in ObservationSet
              /\ obs(p).pane = p /\ obs(p).frame = w /\ obs(p).epoch = epoch
              /\ obs(p).place = queries.probes[p].place /\ obs(p).view = view
              /\ obs(p).life = leftOver[p].life
              /\ obs(p).hidden <=> outcome[p] \in {"outside", "hidden"}
              /\ obs(p).read <=> outcome[p] \in {"unknown", "outside"}
  <2> DEFINE unseen == outcome[p] \in {"outside", "hidden"}
             read == outcome[p] \in {"unknown", "outside"}
  <2>1. unseen \in BOOLEAN /\ read \in BOOLEAN
    OBVIOUS
  <2>2. obs(p) = [pane |-> p, life |-> leftOver[p].life, place |-> queries.probes[p].place,
                  view |-> view, frame |-> w, epoch |-> epoch, hidden |-> unseen,
                  read |-> read]
    OBVIOUS
  <2>3. leftOver[p].life \in Lives /\ queries.probes[p].place \in Places /\ p \in Panes
    BY <1>4, <1>7, <1>10
  <2> HIDE DEF unseen, read, obs, w, leftOver
  <2>4. /\ obs(p) \in ObservationSet
        /\ obs(p).pane = p /\ obs(p).frame = w /\ obs(p).epoch = epoch
        /\ obs(p).place = queries.probes[p].place /\ obs(p).view = view
        /\ obs(p).life = leftOver[p].life
        /\ obs(p).hidden = unseen /\ obs(p).read = read
    BY <1>3, <2>1, <2>2, <2>3 DEF ObservationSet
  <2> QED
    BY <2>4 DEF unseen, read
<1>11. \A p \in P : p \in who <=>
         outcome[p] \in {"unknown", "outside"} \/ FreeSlots(polls[p]) # {}
  BY <1>4
<1>12. who \subseteq P
  BY <1>4
<1>13. seen' = T \cup {obs(p) : p \in who}
  BY <1>5
<1>14. polls = Polled(leftOver, n) /\ outcome \in [P -> Outcomes]
  BY <1>4, <1>5
<1>15. queries' = [queries EXCEPT !.submitted = w, !.entries = last]
  BY <1>5
<1> HIDE DEF leftOver
<1>16. /\ T \in SUBSET ObservationSet
       /\ KeepsObservations(seen, T)
       /\ \A q \in T : \E o \in seen : q.frame = o.frame
       /\ \A p \in P : ReadByPoll(p, leftOver[p], n, seen, T)
  BY <1>3, <1>4, MarkReadKeeps
<1>17. /\ polls \in EntriesOver(P) /\ DOMAIN polls = P
       /\ \A p \in P : polls[p].life = leftOver[p].life
       /\ EntriesSound(polls, T, w, epoch, queries.submitted)
  <2> HIDE DEF T, polls, w
  <2>1. queries.submitted \in Nat /\ seen \in SUBSET ObservationSet
    BY <1>2, <1>3
  <2> QED
    BY <1>4, <1>6, <1>14, <1>16, <2>1, PolledSound
<1> HIDE DEF polls, T, obs, who, ticket, w
<1>18. \A o \in T : o.frame < w
  BY <1>3, <1>16
<1>19. seen' \in SUBSET ObservationSet /\ \A o \in seen' : o.frame <= w
  <2>1. \A o \in T : o.frame <= w
    BY <1>3, <1>16
  <2> QED
    BY <1>3, <1>10, <1>12, <1>13, <1>16, <2>1
<1>20. ASSUME NEW p \in P
       PROVE  /\ probes[p] \in PaneEntrySet /\ EntrySound(p, probes[p], seen', w, epoch, w)
  <2> DEFINE e == polls[p]
             t == ticket(p)
             out == outcome[p]
             place == queries.probes[p].place
  <2>1. e \in PaneEntrySet /\ EntrySound(p, e, T, w, epoch, queries.submitted)
    BY <1>17, <1>20 DEF EntriesSound
  <2>2. out \in Outcomes /\ place \in Places /\ t \in EvidenceSet
    BY <1>7, <1>8, <1>14, <1>20
  <2>3. /\ t.frame = w /\ t.view = view /\ t.place = place /\ t.valid
        /\ t.hidden <=> out # "visible"
    BY <1>8, <1>20
  <2>4. T \subseteq seen'
    BY <1>13
  <2>5. NewlySeen(p, e, out, T, seen', w)
    BY <1>10, <1>11, <1>12, <1>13 DEF NewlySeen
  <2>6. ASSUME out = "outside" \/ (out \in {"hidden", "visible"} /\ FreeSlots(e) # {})
        PROVE  \E o \in seen' : /\ o.pane = p /\ o.life = e.life /\ o.epoch = epoch
                                /\ o.frame = w /\ o.place = place /\ o.view = view
                                /\ o.hidden = t.hidden
    <3>1. p \in who
      BY <1>11, <1>20, <2>6
    <3>2. obs(p) \in seen'
      BY <1>13, <3>1
    <3>3. obs(p).hidden <=> t.hidden
      BY <1>10, <1>20, <2>3, <2>6
    <3>4. obs(p).hidden \in BOOLEAN /\ t.hidden \in BOOLEAN
      BY <1>10, <1>20, <2>2 DEF ObservationSet, EvidenceSet
    <3>5. obs(p).hidden = t.hidden
      BY <3>3, <3>4
    <3>6. obs(p).life = e.life
      BY <1>10, <1>17, <1>20
    <3> QED
      BY <1>10, <1>20, <3>2, <3>5, <3>6
  <2>7. TicketSeen(p, e, out, t, seen', w, epoch)
    BY <2>3, <2>6 DEF TicketSeen
  <2> HIDE DEF e, t, out, place
  <2>8. /\ Probed(e, out, t) \in PaneEntrySet
        /\ EntrySound(p, Probed(e, out, t), seen', w, epoch, w)
    BY <1>2, <1>3, <1>16, <1>18, <1>19, <2>1, <2>2, <2>3, <2>4, <2>5, <2>7, ProbeSound
  <2> HIDE DEF probes
  <2> QED
    BY <1>8, <1>20, <2>8 DEF e, t, out
<1> HIDE DEF probes
<1>21. probes \in EntriesOver(P)
  BY <1>9, <1>20 DEF EntriesOver
<1>22. EntriesSound(probes, seen', w, epoch, w)
  BY <1>9, <1>20 DEF EntriesSound
<1>23. /\ last \in EntriesOver(P) /\ DOMAIN last = P
       /\ EntriesSound(last, seen', w, epoch, w)
  <2>1. CASE drawn
    BY <1>9, <1>21, <1>22, <2>1
  <2>2. CASE ~ drawn
    <3>1. last = InvalidateEvidence(probes)
      BY <2>2
    <3> HIDE DEF last
    <3> QED
      BY <1>21, <1>22, <3>1, InvalidatedSound
  <2> QED
    BY <2>1, <2>2
<1> HIDE DEF last
<1>24. queries' = [epoch |-> queries.epoch, frame |-> queries.frame, submitted |-> w,
                   probes |-> queries.probes, entries |-> last]
  <2>1. PICK g, f, m, r, e : /\ queries = [epoch |-> g, frame |-> f, submitted |-> m,
                                           probes |-> r, entries |-> e]
    BY <1>2
  <2>2. queries.epoch = g /\ queries.frame = f /\ queries.probes = r
    BY <2>1
  <2>3. queries' = [epoch |-> g, frame |-> f, submitted |-> w, probes |-> r,
                    entries |-> last]
    BY <1>15, <2>1
  <2> QED
    BY <2>2, <2>3
<1>25. queries' \in QueriesOver(P)
  BY <1>2, <1>3, <1>23, <1>24 DEF QueriesOver
<1>26. worldFrame = w
  BY DEF w
<1>27. OcclusionTyped'
  BY <1>1, <1>19, <1>25 DEF OcclusionInv, OcclusionTyped
<1>28. /\ queries'.epoch = epoch /\ queries'.frame = queries.frame
       /\ queries'.submitted = w /\ queries'.entries = last
  BY <1>1, <1>24
<1>29. \A p \in DOMAIN last : EntrySound(p, last[p], seen', w, epoch, w)
  BY <1>23 DEF EntriesSound
<1> QED
  BY <1>1, <1>3, <1>19, <1>26, <1>27, <1>28, <1>29 DEF OcclusionInv

-----------------------------------------------------------------------------
\* At the start there is no evidence.
LEMMA OcclusionInitInv == OcclusionInit => OcclusionInv
<1> SUFFICES ASSUME OcclusionInit PROVE OcclusionInv
  OBVIOUS
<1>1. /\ queries = NoQueries /\ epoch = 1 /\ depthFault = FALSE
      /\ worldFrame = 0 /\ seen = {}
  BY DEF OcclusionInit
<1>2. OcclusionTyped
  BY <1>1 DEF OcclusionTyped
<1> QED
  BY <1>1, <1>2 DEF OcclusionInv

\* Every operation keeps the invariant.
LEMMA OcclusionNextInv == OcclusionInv /\ [OcclusionNext]_occlusionVars => OcclusionInv'
<1> SUFFICES ASSUME OcclusionInv, [OcclusionNext]_occlusionVars PROVE OcclusionInv'
  OBVIOUS
<1>1. CASE UNCHANGED occlusionVars
  BY <1>1 DEF OcclusionInv, OcclusionTyped, occlusionVars
<1>2. CASE OcclusionNext
  BY <1>2, InvalidateKeepsOcclusion, EnterKeepsOcclusion, FailKeepsOcclusion,
     RejectedKeepsOcclusion, FilterSound, SubmitKeepsOcclusion DEF OcclusionNext
<1> QED
  BY <1>1, <1>2

\* The entries, the culls and the queries stay backed by what the GPU was asked.
THEOREM OcclusionInvariant == OcclusionSpec => []OcclusionInv
BY OcclusionInitInv, OcclusionNextInv, PTL DEF OcclusionSpec

\* A retained image covers only a mirror that was hidden a short while ago.
LEMMA InvRetainedWasHidden == OcclusionInv => RetainedWasHidden
<1> SUFFICES ASSUME OcclusionInv, NEW p \in Panes, NEW life \in Lives,
                    AllowRetainedImage(p, life)
             PROVE  \E o \in seen : /\ o.hidden /\ o.epoch = epoch
                                    /\ o.pane = p /\ o.life = life
                                    /\ worldFrame - o.frame < MaxAge + Bridge
  BY DEF RetainedWasHidden
<1> DEFINE e == queries.entries[p]
<1>1. /\ queries # NoQueries /\ queries.epoch = epoch /\ p \in DOMAIN queries.entries
      /\ e.life = life /\ e.lastCulled # 0 /\ worldFrame >= e.lastCulled
      /\ worldFrame - e.lastCulled < Bridge
  BY DEF AllowRetainedImage, IsCurrent
<1>2. PICK P \in SUBSET Panes :
        /\ DOMAIN queries.entries = P
        /\ EntriesSound(queries.entries, seen, worldFrame, queries.epoch, queries.submitted)
  BY <1>1, InvOfQueries
<1>3. e \in PaneEntrySet /\ CulledHidden(p, e, seen, worldFrame, epoch)
  BY <1>1, <1>2 DEF EntriesSound, EntrySound
<1>4. PICK o \in seen : /\ o.pane = p /\ o.life = e.life /\ o.epoch = epoch /\ o.hidden
                        /\ e.lastCulled - o.frame <= MaxAge
  BY <1>1, <1>3 DEF CulledHidden
<1>5. /\ e.lastCulled \in Nat /\ worldFrame \in Nat /\ o.frame \in Nat
      /\ {MaxAge, Bridge} \subseteq Nat \ {0}
  BY <1>3, OcclusionConstants DEF PaneEntrySet, OcclusionInv, OcclusionTyped, ObservationSet
<1>6. worldFrame - o.frame < MaxAge + Bridge
  BY <1>1, <1>4, <1>5
<1> QED
  BY <1>1, <1>4, <1>6

\* However old and however often it is read again: retained evidence of a hidden
\* mirror is of a frame in which the probes saw it hidden.
THEOREM RetainedWasHiddenHolds == OcclusionSpec => []RetainedWasHidden
BY OcclusionInvariant, InvRetainedWasHidden, PTL

\* A fence drops captures only as the newest answers say.
LEMMA StepCullsAsSeen ==
  OcclusionInv /\ [OcclusionNext]_occlusionVars =>
    [\A c \in culls' \ culls : \E o \in seen' :
       /\ o.hidden /\ o.epoch = epoch
       /\ o.pane = c.pane /\ o.life = c.life /\ o.place = c.place /\ o.view = c.view
       /\ o.frame < c.frame /\ c.frame - o.frame <= MaxAge
       /\ \A p \in seen' : p.pane = c.pane /\ p.read /\ p.frame > o.frame =>
            p.hidden]_occlusionVars
<1> SUFFICES ASSUME OcclusionInv, OcclusionNext,
                    NEW c \in culls' \ culls
             PROVE  \E o \in seen' :
                      SeenHidden(o, seen', c.pane, c.life, c.place, c.view, c.frame, epoch)
  BY DEF SeenHidden
<1>1. ASSUME NEW probes \in Probes, NEW view \in Views, NEW sameContext \in BOOLEAN,
             FilterCaptureDemand(probes, view, sameContext)
      PROVE  \E o \in seen' :
               SeenHidden(o, seen', c.pane, c.life, c.place, c.view, c.frame, epoch)
  BY <1>1, FilterSound DEF CulledAsSeen
<1>2. culls' = culls \/ culls' = {} \/
        \E probes \in Probes, view \in Views, sameContext \in BOOLEAN :
          FilterCaptureDemand(probes, view, sameContext)
  BY DEF OcclusionNext, InvalidateOcclusion, EnterMainWorld, Fail, ObserveRejected, Submit
<1> QED
  BY <1>1, <1>2

\* A mirror is culled only on an observation of its own life, place and view, and
\* of this world, that is still young enough.
THEOREM CulledWasHiddenHolds == OcclusionSpec => CulledWasHidden
BY OcclusionInvariant, StepCullsAsSeen, PTL DEF OcclusionSpec, CulledWasHidden

-----------------------------------------------------------------------------
(* The composition.  A step of one part stutters in the others.              *)

\* Each part of the composition is a behaviour of that part.
LEMMA FleetPart == StandingSpec => FleetSpec
<1>1. StandingInit => FleetInit
  BY DEF StandingInit
<1>2. [StandingNext]_<<subject, fleetVars, recognitionVars, occlusionVars>> =>
        [FleetNext]_<<clockVars, wall>>
  BY DEF StandingNext, fleetVars
<1> QED
  BY <1>1, <1>2, PTL DEF StandingSpec, FleetSpec

LEMMA ClockPart == FleetSpec => ClockSpec
<1>1. FleetInit => ClockInit
  BY DEF FleetInit
<1>2. WallNext => UNCHANGED clockVars
  BY DEF WallNext, NextFrame, MirrorReloads, DeliverAged, WallFence, WallUnselected, WallCaptured
<1>3. [FleetNext]_<<clockVars, wall>> => [ClockNext]_clockVars
  BY <1>2 DEF FleetNext
<1> QED
  BY <1>1, <1>3, PTL DEF FleetSpec, ClockSpec

LEMMA RecognitionPart == StandingSpec => RecognitionSpec
<1>1. StandingInit => RecognitionInit
  BY DEF StandingInit
<1>2. [StandingNext]_<<subject, fleetVars, recognitionVars, occlusionVars>> =>
        [RecognitionNext]_recognitionVars
  BY DEF StandingNext
<1> QED
  BY <1>1, <1>2, PTL DEF StandingSpec, RecognitionSpec

LEMMA OcclusionPart == StandingSpec => OcclusionSpec
<1>1. StandingInit => OcclusionInit
  BY DEF StandingInit
<1>2. [StandingNext]_<<subject, fleetVars, recognitionVars, occlusionVars>> =>
        [OcclusionNext]_occlusionVars
  BY DEF StandingNext
<1> QED
  BY <1>1, <1>2, PTL DEF StandingSpec, OcclusionSpec

\* All that the parts promise, of the plugin that has them: the captures keep to
\* the setting and let an aged image pass once (MirrorFleetRuntime.cpp,
\* MirrorFleetPolicy.h); no pane is hidden for ever and none is drawn with a
\* picture of another mirror, pose or load (MirrorsOfSkyrimRecognition.cpp); and
\* nothing is culled, and no picture kept for it, without an observation
\* (MirrorOcclusionPolicy.h).
THEOREM StandingMirrorsCorrect ==
  StandingSpec => /\ []Cadence /\ []GraceOnce
                  /\ []HiddenIsOwed /\ DrawnAsSeen /\ OwnLoadOnly
                  /\ []RetainedWasHidden /\ CulledWasHidden
BY FleetPart, ClockPart, RecognitionPart, OcclusionPart, CadenceHolds, GraceOnceHolds,
   HiddenIsOwedHolds, DrawnAsSeenHolds, OwnLoadOnlyHolds, RetainedWasHiddenHolds, CulledWasHiddenHolds

-----------------------------------------------------------------------------
(* The scheduler.  A new mirror takes an empty slot by its rank, so that the  *)
(* slots are exact rests on a fact about ranks: every number below the size   *)
(* of a set is the rank of exactly one of its members.                        *)

Below(S, x) == {y \in S : y < x}

\* A greater member has a greater rank, which is less than the size of the set.
LEMMA RankGrows ==
  ASSUME NEW S \in SUBSET Nat, IsFiniteSet(S), NEW a \in S
  PROVE  /\ Cardinality(Below(S, a)) \in Nat /\ Cardinality(Below(S, a)) < Cardinality(S)
         /\ \A b \in S : a < b => Cardinality(Below(S, a)) < Cardinality(Below(S, b))
<1> DEFINE A == Below(S, a)
<1>0. \A x \in S : x \in Nat
  OBVIOUS
<1>1. A \in SUBSET S /\ a \notin A /\ a \in Nat
  BY <1>0 DEF Below
<1>2. IsFiniteSet(A) /\ Cardinality(A) <= Cardinality(S) /\ (Cardinality(S) = Cardinality(A) => S = A)
  BY <1>1, FS_Subset
<1>3. Cardinality(A) \in Nat /\ Cardinality(S) \in Nat
  BY <1>2, FS_CardinalityType
<1>4. ASSUME NEW b \in S, a < b PROVE Cardinality(A) < Cardinality(Below(S, b))
  <2> DEFINE B == Below(S, b)
  <2>1. B \in SUBSET S /\ a \in B
    BY <1>4 DEF Below
  <2>2. A \in SUBSET B
    <3>1. \A y \in S : y < a => y < b
      BY <1>0, <1>4
    <3>2. \A y : y \in A => y \in B
      BY <3>1 DEF Below
    <3> QED
      BY <3>2
  <2>3. IsFiniteSet(B)
    BY <2>1, FS_Subset
  <2>4. Cardinality(A) <= Cardinality(B) /\ (Cardinality(B) = Cardinality(A) => B = A)
    BY <2>2, <2>3, FS_Subset
  <2>5. Cardinality(B) \in Nat
    BY <2>3, FS_CardinalityType
  <2> HIDE DEF A, B
  <2>6. Cardinality(A) # Cardinality(B)
    BY <1>1, <2>1, <2>4
  <2> QED
    BY <1>3, <2>4, <2>5, <2>6 DEF B
<1> HIDE DEF A
<1>5. Cardinality(A) < Cardinality(S)
  BY <1>1, <1>2, <1>3
<1> QED
  BY <1>3, <1>4, <1>5 DEF A

LEMMA IntervalSize ==
  ASSUME NEW k \in Nat PROVE IsFiniteSet(0 .. k - 1) /\ Cardinality(0 .. k - 1) = k
<1>1. 0 \in Int /\ k - 1 \in Int
  OBVIOUS
<1>2. IsFiniteSet(0 .. (k - 1)) /\ Cardinality(0 .. (k - 1)) = IF 0 > k - 1 THEN 0 ELSE (k - 1) - 0 + 1
  BY <1>1, FS_Interval
<1> QED
  BY <1>2

\* Nth finds the member of a rank.
LEMMA NthFact ==
  ASSUME NEW S \in SUBSET Nat, IsFiniteSet(S), NEW k \in Nat, k < Cardinality(S)
  PROVE  Nth(S, k) \in S /\ Cardinality(Below(S, Nth(S, k))) = k
<1> DEFINE rank(x) == Cardinality(Below(S, x))
           T == {x \in S : k <= rank(x)}
<1>0. \A x \in S : x \in Nat
  OBVIOUS
<1>1. \A x \in S : rank(x) \in Nat
  BY RankGrows
<1>2. Cardinality(S) \in Nat
  BY FS_CardinalityType
<1>3. T # {}
  <2> SUFFICES ASSUME T = {} PROVE FALSE
    OBVIOUS
  <2> DEFINE f == [x \in S |-> rank(x)]
             K == 0 .. k - 1
  <2>1. \A x \in S : rank(x) < k
    BY <1>1
  <2>2. f \in [S -> K]
    BY <1>1, <2>1
  <2>3. IsFiniteSet(K) /\ Cardinality(K) = k
    BY IntervalSize
  <2>4. ASSUME NEW x \in S, NEW y \in S, rank(x) = rank(y) PROVE x = y
    <3>1. x \in Nat /\ y \in Nat /\ rank(x) \in Nat /\ rank(y) \in Nat
      BY <1>0, <1>1
    <3>2. (x < y => rank(x) < rank(y)) /\ (y < x => rank(y) < rank(x))
      BY RankGrows
    <3> HIDE DEF rank
    <3> QED
      BY <2>4, <3>1, <3>2
  <2>5. f \in Injection(S, K)
    <3> HIDE DEF rank, K
    <3> QED
      BY <2>2, <2>4 DEF Injection, IsInjective
  <2>6. Cardinality(S) <= Cardinality(K)
    <3> HIDE DEF f, K
    <3> QED
      BY <2>3, <2>5, FS_Injection
  <2> QED
    BY <1>2, <2>3, <2>6
<1>4. PICK x \in T : \A y \in T : x <= y
  BY <1>3, HasLeast
<1>5. rank(x) = k
  <2> SUFFICES ASSUME k < rank(x) PROVE FALSE
    BY <1>1
  <2> DEFINE B == Below(S, x)
  <2>1. B \in SUBSET Nat /\ B \in SUBSET S /\ \A y \in B : y < x
    BY <1>0 DEF Below
  <2>2. IsFiniteSet(B) /\ Cardinality(B) \in Nat
    BY <2>1, FS_Subset, FS_CardinalityType
  <2>3. B # {}
    BY FS_EmptySet
  <2>4. PICK g \in B : \A y \in B : y <= g
    <3>1. x \in Nat /\ \A y \in B : y <= x
      BY <1>0, <2>1
    <3> HIDE DEF B
    <3> QED
      BY <2>1, <2>3, <3>1, HasGreatest
  <2>5. Below(S, g) = B \ {g} /\ g \in S /\ g < x
    <3>1. g \in S /\ g \in Nat /\ g < x
      BY <1>0, <2>1
    <3>2. x \in S /\ x \in Nat
      BY <1>0
    <3>3. ASSUME NEW y \in S PROVE y < g <=> y < x /\ y # g
      <4>1. y \in Nat /\ (y < x => y <= g)
        BY <1>0, <2>4 DEF Below
      <4> QED
        BY <3>1, <3>2, <4>1
    <3> QED
      BY <3>1, <3>3 DEF Below
  <2>6. rank(g) = Cardinality(B) - 1
    <3>1. g \in B /\ IsFiniteSet(B)
      BY <2>2
    <3> HIDE DEF B
    <3>2. Cardinality(B \ {g}) = Cardinality(B) - 1
      BY <3>1, FS_RemoveElement
    <3> QED
      BY <2>5, <3>2
  <2> HIDE DEF B
  <2>7. k <= rank(g)
    BY <1>1, <2>2, <2>5, <2>6 DEF B
  <2>8. g \in T
    BY <2>5, <2>7
  <2>9. x <= g
    BY <1>4, <2>8
  <2> QED
    BY <2>5, <2>9
<1>6. \E y \in S : Cardinality(Below(S, y)) = k
  BY <1>5
<1> QED
  BY <1>6 DEF Nth, Below

SlotLists == Seq(Identities \cup {Vacant})
\* No two slots have a mirror of one form.
DistinctForms(list) ==
  \A i, j \in Occupied(list) : list[i].form = list[j].form => i = j

\* The slots' list may end anywhere past the last mirror; Trimmed ends it there.
LEMMA TrimmedFact ==
  ASSUME NEW list \in SlotLists
  PROVE  LET t == Trimmed(list) IN
         /\ t \in SlotLists /\ Len(t) <= Len(list)
         /\ \A i \in DOMAIN t : i \in DOMAIN list /\ t[i] = list[i]
         /\ \A i \in Occupied(list) : i \in DOMAIN t
<1> DEFINE Ends(n) == /\ \A i \in Occupied(list) : i <= n
                      /\ n # 0 => list[n] # Vacant
           n == CHOOSE m \in 0 .. Len(list) : Ends(m)
           t == SubSeq(list, 1, n)
<1>1. Len(list) \in Nat /\ DOMAIN list = 1 .. Len(list)
      /\ \A i \in 1 .. Len(list) : list[i] \in Identities \cup {Vacant}
  BY LenProperties, ElementOfSeq DEF SlotLists
<1>2. \E m \in 0 .. Len(list) : Ends(m)
  <2>1. CASE Occupied(list) = {}
    <3>1. Ends(0) /\ 0 \in 0 .. Len(list)
      BY <1>1, <2>1
    <3> QED
      BY <3>1
  <2>2. CASE Occupied(list) # {}
    <3>1. Occupied(list) \in SUBSET Nat /\ \A i \in Occupied(list) : i <= Len(list)
      BY <1>1 DEF Occupied
    <3>2. PICK m \in Occupied(list) : \A i \in Occupied(list) : i <= m
      BY <1>1, <2>2, <3>1, HasGreatest
    <3>3. m \in 0 .. Len(list) /\ list[m] # Vacant
      BY <1>1, <3>2 DEF Occupied
    <3> QED
      BY <3>2, <3>3
  <2> QED
    BY <2>1, <2>2
<1>3. n \in 0 .. Len(list) /\ Ends(n)
  BY <1>2
<1>4. Trimmed(list) = t
  BY DEF Trimmed
<1> HIDE DEF n
<1>5. t = [i \in 1 .. n |-> list[i]] /\ n \in Nat /\ n <= Len(list)
  BY <1>1, <1>3
<1>6. t \in SlotLists /\ Len(t) = n /\ DOMAIN t = 1 .. n
  <2>0. \A i \in 1 .. n : list[i] \in Identities \cup {Vacant}
    BY <1>1, <1>5
  <2> HIDE DEF t
  <2>1. t \in [1 .. n -> Identities \cup {Vacant}]
    BY <1>5, <2>0
  <2> QED
    BY <1>5, <2>1, SeqDef, LenProperties DEF SlotLists
<1>7. \A i \in DOMAIN t : i \in DOMAIN list /\ t[i] = list[i]
  BY <1>1, <1>5
<1>8. \A i \in Occupied(list) : i \in DOMAIN t
  BY <1>1, <1>3, <1>6 DEF Occupied
<1> HIDE DEF t
<1> QED
  BY <1>4, <1>5, <1>6, <1>7, <1>8

\* Of each form the newest alone is admitted.
LEMMA NewestFact ==
  ASSUME NEW ranked \in SUBSET Identities
  PROVE  /\ Newest(ranked) \in SUBSET Identities /\ IsFiniteSet(Newest(ranked))
         /\ \A c, d \in Newest(ranked) : c.form = d.form => c = d
<1>1. Newest(ranked) \in SUBSET Identities
  BY DEF Newest
<1>2. IsFiniteSet(Newest(ranked))
  BY <1>1, SchedulerConstants, FS_Subset
<1>3. ASSUME NEW c \in Newest(ranked), NEW d \in Newest(ranked), c.form = d.form PROVE c = d
  <2>1. c \in [form : Nat \ {0}, gen : Nat \ {0}] /\ d \in [form : Nat \ {0}, gen : Nat \ {0}]
    BY <1>1, SchedulerConstants
  <2>2. c.gen <= d.gen /\ d.gen <= c.gen
    BY <1>3 DEF Newest
  <2>3. c.gen = d.gen
    BY <2>1, <2>2
  <2> QED
    BY <1>3, <2>1, <2>3
<1> QED
  BY <1>1, <1>2, <1>3

SlotsInv == slots \in SlotLists /\ DistinctForms(slots)

\* What Reconcile makes of the slots.
LEMMA ReconcileFact ==
  ASSUME SlotsInv, NEW ranked \in SUBSET Identities
  PROVE  LET r == ReconciledSlots(ranked) IN
         /\ r \in SlotLists /\ DistinctForms(r)
         /\ \A i \in Occupied(slots) :
              (\E j \in DOMAIN r : r[j] = slots[i]) => i \in DOMAIN r /\ r[i] = slots[i]
         /\ \A c \in Newest(ranked) : \E i \in DOMAIN r : r[i] = c
<1> DEFINE admitted == Newest(ranked)
           staying == {i \in DOMAIN slots : slots[i] \in admitted}
           added == admitted \ {slots[i] : i \in staying}
           width == IF Len(slots) > Cardinality(admitted)
                    THEN Len(slots) ELSE Cardinality(admitted)
           empty == (1 .. width) \ staying
           Rank(e) == Cardinality({x \in empty : x < e})
           forms == {c.form : c \in added}
           New(i) == CHOOSE c \in added : c.form = Nth(forms, Rank(i))
           list == [i \in 1 .. width |->
                     IF i \in staying THEN slots[i]
                     ELSE IF Rank(i) < Cardinality(forms) THEN New(i) ELSE Vacant]
           r == Trimmed(list)
<1>1. ReconciledSlots(ranked) = r
  BY DEF ReconciledSlots
<1>2. /\ admitted \in SUBSET Identities /\ IsFiniteSet(admitted)
      /\ \A c, d \in admitted : c.form = d.form => c = d
  BY NewestFact
<1>3. /\ Len(slots) \in Nat /\ DOMAIN slots = 1 .. Len(slots)
      /\ \A i \in DOMAIN slots : slots[i] \in Identities \cup {Vacant}
  BY LenProperties, ElementOfSeq DEF SlotLists, SlotsInv
<1>4. Cardinality(admitted) \in Nat
  BY <1>2, FS_CardinalityType
<1> HIDE DEF admitted
<1>5. width \in Nat /\ Len(slots) <= width
  BY <1>3, <1>4
<1> HIDE DEF width
<1>6. /\ added \in SUBSET admitted /\ staying \in SUBSET (1 .. width)
      /\ \A i \in staying : slots[i] \in admitted /\ slots[i] \notin added
  BY <1>3, <1>5
<1>7. empty \in SUBSET Nat /\ IsFiniteSet(empty)
  <2>1. IsFiniteSet(1 .. width) /\ empty \in SUBSET (1 .. width) /\ empty \in SUBSET Nat
    BY <1>5, FS_Interval
  <2> HIDE DEF empty
  <2> QED
    BY <1>5, <2>1, FS_Subset
<1>r. Cardinality(added) \in Nat /\ Cardinality(empty) \in Nat /\ Cardinality(added) <= Cardinality(empty)
  <2> DEFINE taken == {slots[i] : i \in staying}
             f == [i \in staying |-> slots[i]]
  <2>1. \A i, j \in staying : slots[i] = slots[j] => i = j
    <3>1. \A i \in staying : i \in Occupied(slots)
      BY <1>2, <1>6, SchedulerConstants DEF Occupied
    <3> QED
      BY <3>1 DEF SlotsInv, DistinctForms
  <2>2. f \in Bijection(staying, taken)
    <3> HIDE DEF staying
    <3> QED
      BY <2>1 DEF Bijection, Injection, Surjection, IsInjective
  <2>3. added = admitted \ taken /\ taken \in SUBSET admitted
    BY <1>6
  <2>4. empty = (1 .. width) \ staying /\ staying \in SUBSET (1 .. width)
    BY <1>6
  <2>5. IsFiniteSet(1 .. width) /\ Cardinality(1 .. width) = width
    BY <1>5, FS_Interval
  <2>6. Cardinality(admitted) <= width
    BY <1>3, <1>4 DEF width
  <2> HIDE DEF staying, taken, added, empty, f
  <2>7. IsFiniteSet(staying) /\ IsFiniteSet(empty) /\ IsFiniteSet(added) /\ IsFiniteSet(taken)
    BY <1>2, <2>3, <2>4, <2>5, FS_Subset
  <2>8. Cardinality(taken) = Cardinality(staying)
    BY <2>2, <2>7, FS_Bijection DEF ExistsBijection
  <2>9. /\ Cardinality(added) \in Nat /\ Cardinality(empty) \in Nat
        /\ Cardinality(staying) \in Nat /\ Cardinality({}) = 0
    BY <2>7, FS_CardinalityType, FS_EmptySet
  <2>10. Cardinality(admitted) = Cardinality(added) + Cardinality(staying)
    <3>1. added \cup taken = admitted /\ added \cap taken = {}
      BY <2>3
    <3>2. Cardinality(added \cup taken)
            = Cardinality(added) + Cardinality(taken) - Cardinality(added \cap taken)
      BY <2>7, FS_Union
    <3>3. Cardinality(admitted) = Cardinality(added) + Cardinality(taken) - 0
      BY <2>9, <3>1, <3>2
    <3> QED
      BY <2>8, <2>9, <3>3
  <2>11. width = Cardinality(empty) + Cardinality(staying)
    <3>1. empty \cup staying = 1 .. width /\ empty \cap staying = {}
      BY <2>4
    <3>2. Cardinality(empty \cup staying)
            = Cardinality(empty) + Cardinality(staying) - Cardinality(empty \cap staying)
      BY <2>7, FS_Union
    <3>3. width = Cardinality(empty) + Cardinality(staying) - 0
      BY <2>5, <2>9, <3>1, <3>2
    <3> QED
      BY <2>9, <3>3
  <2> QED
    BY <2>6, <2>9, <2>10, <2>11
<1> HIDE DEF staying
<1>8. forms \in SUBSET Nat /\ IsFiniteSet(forms) /\ Cardinality(forms) <= Cardinality(added)
  <2>1. IsFiniteSet(added)
    BY <1>2, <1>6, FS_Subset
  <2>2. forms \in SUBSET Nat
    BY <1>2, <1>6, SchedulerConstants
  <2> DEFINE f == [c \in added |-> c.form]
  <2>3. f \in Surjection(added, forms)
    <3> HIDE DEF added
    <3> QED
      BY DEF Surjection
  <2> HIDE DEF added, forms, f
  <2>4. IsFiniteSet(forms) /\ Cardinality(forms) <= Cardinality(added)
    BY <2>1, <2>3, FS_Surjection
  <2> QED
    BY <2>2, <2>4
<1>9. \A c \in added : c.form \in forms
  OBVIOUS
<1>10. \A f \in forms : \E c \in added : c.form = f
  OBVIOUS
<1> HIDE DEF added, forms
<1>11. ASSUME NEW i \in empty
       PROVE  Rank(i) \in Nat /\ \A j \in empty : Rank(i) = Rank(j) => i = j
  <2>1. /\ Cardinality(Below(empty, i)) \in Nat
        /\ \A j \in empty : i < j => Cardinality(Below(empty, i)) < Cardinality(Below(empty, j))
    <3> HIDE DEF empty
    <3> QED
      BY <1>7, RankGrows
  <2>2. ASSUME NEW j \in empty PROVE
           /\ Cardinality(Below(empty, j)) \in Nat
           /\ j < i => Cardinality(Below(empty, j)) < Cardinality(Below(empty, i))
    <3> HIDE DEF empty
    <3> QED
      BY <1>7, RankGrows
  <2>3. \A j \in empty : Rank(j) = Cardinality(Below(empty, j))
    BY DEF Below
  <2>4. i \in Nat /\ \A j \in empty : j \in Nat
    BY <1>7
  <2> HIDE DEF empty, Rank
  <2> QED
    BY <2>1, <2>2, <2>3, <2>4
<1>12. ASSUME NEW i \in empty, Rank(i) < Cardinality(forms)
       PROVE  New(i) \in added /\ New(i).form = Nth(forms, Rank(i))
              /\ Cardinality(Below(forms, New(i).form)) = Rank(i)
  <2>1. Nth(forms, Rank(i)) \in forms /\ Cardinality(Below(forms, Nth(forms, Rank(i)))) = Rank(i)
    <3> HIDE DEF empty, Rank
    <3> QED
      BY <1>8, <1>11, <1>12, NthFact
  <2>2. \E c \in added : c.form = Nth(forms, Rank(i))
    BY <1>10, <2>1
  <2> HIDE DEF Rank
  <2>3. New(i) \in added /\ New(i).form = Nth(forms, Rank(i))
    BY <2>2
  <2> QED
    BY <2>1, <2>3
<1> HIDE DEF New, Rank
<1>13. ASSUME NEW i \in 1 .. width
       PROVE  \/ i \in staying /\ list[i] = slots[i] /\ list[i] \in admitted
              \/ /\ i \in empty /\ Rank(i) < Cardinality(forms)
                 /\ list[i] = New(i) /\ list[i] \in added
              \/ i \in empty /\ list[i] = Vacant
  BY <1>6, <1>12
<1>14. list \in SlotLists /\ Len(list) = width /\ DOMAIN list = 1 .. width
  <2>1. list \in [1 .. width -> Identities \cup {Vacant}]
    BY <1>2, <1>6, <1>13
  <2> HIDE DEF list
  <2> QED
    BY <1>5, <2>1, SeqDef, LenProperties DEF SlotLists
<1> HIDE DEF list, empty
<1>15. DistinctForms(list)
  <2> SUFFICES ASSUME NEW i \in Occupied(list), NEW j \in Occupied(list),
                      list[i].form = list[j].form
               PROVE  i = j
    BY DEF DistinctForms
  <2>1. i \in 1 .. width /\ j \in 1 .. width /\ list[i] # Vacant /\ list[j] # Vacant
    BY <1>14 DEF Occupied
  <2>2. list[i] \in admitted /\ list[j] \in admitted
    BY <1>6, <1>13, <2>1
  <2>3. list[i] = list[j]
    BY <1>2, <2>2
  <2>4. CASE i \in staying /\ j \in staying /\ list[i] = slots[i] /\ list[j] = slots[j]
    <3>1. i \in Occupied(slots) /\ j \in Occupied(slots)
      BY <1>3, <2>1, <2>4 DEF Occupied, staying
    <3> QED
      BY <2>3, <2>4, <3>1 DEF SlotsInv, DistinctForms
  <2>5. CASE \/ list[i] \in added /\ j \in staying /\ list[j] = slots[j]
             \/ list[j] \in added /\ i \in staying /\ list[i] = slots[i]
    BY <1>6, <2>3, <2>5
  <2>6. CASE /\ i \in empty /\ Rank(i) < Cardinality(forms) /\ list[i] = New(i)
             /\ j \in empty /\ Rank(j) < Cardinality(forms) /\ list[j] = New(j)
    <3>1. Rank(i) = Rank(j)
      BY <1>12, <2>3, <2>6
    <3> QED
      BY <1>11, <2>6, <3>1
  <2> QED
    BY <1>13, <2>1, <2>4, <2>5, <2>6
<1>16. /\ r \in SlotLists /\ \A i \in DOMAIN r : i \in DOMAIN list /\ r[i] = list[i]
       /\ \A i \in Occupied(list) : i \in DOMAIN r
  BY <1>14, TrimmedFact
<1> HIDE DEF r
<1>17. DistinctForms(r)
  BY <1>15, <1>16 DEF DistinctForms, Occupied
<1>18. ASSUME NEW i \in Occupied(slots), NEW j \in DOMAIN r, r[j] = slots[i]
       PROVE  i \in DOMAIN r /\ r[i] = slots[i]
  <2>1. i \in DOMAIN slots /\ slots[i] # Vacant /\ slots[i] \in Identities
    BY <1>3 DEF Occupied
  <2>2. j \in 1 .. width /\ list[j] = slots[i]
    BY <1>14, <1>16, <1>18
  <2>3. slots[i] \in admitted
    BY <1>6, <1>13, <2>1, <2>2
  <2>4. i \in staying
    BY <2>1, <2>3 DEF staying
  <2>5. i \in 1 .. width /\ list[i] = slots[i]
    BY <1>6, <2>4 DEF list
  <2>6. i \in Occupied(list)
    BY <1>14, <2>1, <2>5 DEF Occupied
  <2> QED
    BY <1>16, <2>5, <2>6
<1>19. ASSUME NEW c \in admitted PROVE \E i \in DOMAIN r : r[i] = c
  <2> SUFFICES \E i \in 1 .. width : list[i] = c
    <3>1. c # Vacant
      BY <1>2, SchedulerConstants
    <3> QED
      BY <1>14, <1>16, <3>1 DEF Occupied
  <2>1. CASE c \notin added
    <3>1. PICK i \in staying : c = slots[i]
      BY <2>1 DEF added
    <3> QED
      BY <1>6, <3>1 DEF list
  <2>2. CASE c \in added
    <3> DEFINE k == Cardinality(Below(forms, c.form))
    <3>1. k \in Nat /\ k < Cardinality(forms) /\ Cardinality(forms) \in Nat
      BY <1>8, <1>9, <2>2, RankGrows, FS_CardinalityType
    <3>2. k < Cardinality(empty)
      BY <1>r, <1>8, <3>1
    <3> DEFINE i == Nth(empty, k)
    <3>3. i \in empty /\ Cardinality(Below(empty, i)) = k
      <4> HIDE DEF k
      <4> QED
        BY <1>7, <3>1, <3>2, NthFact
    <3>4. Rank(i) = k
      <4> HIDE DEF k, i
      <4> QED
        BY <3>3 DEF Rank, Below
    <3> HIDE DEF i
    <3>5. New(i) \in added /\ Cardinality(Below(forms, New(i).form)) = k
      BY <1>12, <3>1, <3>3, <3>4
    <3>6. New(i).form = c.form
      <4>1. New(i).form \in forms /\ c.form \in forms
        BY <1>9, <2>2, <3>5
      <4>2. /\ New(i).form < c.form => Cardinality(Below(forms, New(i).form)) < k
            /\ c.form < New(i).form => k < Cardinality(Below(forms, New(i).form))
        BY <1>8, <4>1, RankGrows
      <4>3. New(i).form \in Nat /\ c.form \in Nat
        BY <1>8, <4>1
      <4> QED
        BY <3>1, <3>5, <4>2, <4>3
    <3>7. New(i) = c
      BY <1>2, <1>6, <2>2, <3>5, <3>6
    <3>8. i \in 1 .. width /\ i \notin staying
      BY <3>3 DEF empty
    <3>9. list[i] = New(i)
      BY <3>1, <3>4, <3>8 DEF list
    <3> QED
      BY <3>7, <3>8, <3>9
  <2> QED
    BY <2>1, <2>2
<1> QED
  BY <1>1, <1>16, <1>17, <1>18, <1>19 DEF admitted

\* The mirrors in slot order and the hand after them, none twice.
CoversDemand(p) ==
  LET mirrors == {p[k] : k \in DOMAIN p} \ {Hand}
  IN  /\ mirrors = {[slot |-> i - 1, mirror |-> slots'[i]] :
                      i \in {j \in DOMAIN slots' : Demanded(slots'[j])}}
      /\ \A k \in DOMAIN p : p[k] = Hand => k = Len(p)
      /\ \A a, b \in mirrors : a.mirror.form = b.mirror.form => a = b
      /\ Len(p) = Cardinality({p[k] : k \in DOMAIN p})

LEMMA PlanFact ==
  ASSUME SlotsInv', eligible' \in SUBSET Admitted', NEW hand \in BOOLEAN, ChooseEveryFrame(hand)
  PROVE  CoversDemand(plan')
<1> DEFINE found == {i \in DOMAIN slots' : Demanded(slots'[i])}
           Capture(i) == [slot |-> i - 1, mirror |-> slots'[i]]
           n == Cardinality(found)
           at(k) == Nth(found, k - 1)
           mirrors == [k \in 1 .. n |-> Capture(at(k))]
           tail == IF hand THEN <<Hand>> ELSE << >>
           p == mirrors \o tail
           all == {Capture(i) : i \in found}
<1>1. plan' = p
  BY DEF ChooseEveryFrame
<1>2. /\ Len(slots') \in Nat /\ DOMAIN slots' = 1 .. Len(slots')
      /\ \A i \in DOMAIN slots' : slots'[i] \in Identities \cup {Vacant}
  BY LenProperties, ElementOfSeq DEF SlotLists, SlotsInv
<1>3. \A i \in found : i \in Nat /\ i \in Occupied(slots)' /\ slots'[i] \in Identities
  <2>1. \A c \in eligible' : c \in Identities
    BY <1>2, SchedulerConstants DEF Admitted, Occupied
  <2> QED
    BY <1>2, <2>1, SchedulerConstants DEF Demanded, Occupied
<1>4. found \in SUBSET Nat /\ IsFiniteSet(found)
  <2>1. IsFiniteSet(1 .. Len(slots')) /\ found \in SUBSET (1 .. Len(slots'))
    BY <1>2, FS_Interval
  <2> HIDE DEF found
  <2> QED
    BY <1>3, <2>1, FS_Subset
<1> HIDE DEF found
<1>5. n \in Nat
  BY <1>4, FS_CardinalityType
<1> HIDE DEF n
<1>6. ASSUME NEW k \in 1 .. n
      PROVE  at(k) \in found /\ Cardinality(Below(found, at(k))) = k - 1
  <2>1. k - 1 \in Nat /\ k - 1 < Cardinality(found)
    BY <1>5 DEF n
  <2> QED
    BY <1>4, <2>1, NthFact
<1>7. ASSUME NEW i \in found PROVE \E k \in 1 .. n : at(k) = i
  <2> DEFINE r == Cardinality(Below(found, i))
  <2>1. r \in Nat /\ r < n
    BY <1>4, RankGrows DEF n
  <2> HIDE DEF r
  <2> DEFINE k == r + 1
  <2>2. k \in 1 .. n /\ k - 1 = r
    BY <1>5, <2>1
  <2>3. at(k) \in found /\ Cardinality(Below(found, at(k))) = r
    BY <1>6, <2>2
  <2> HIDE DEF k, at
  <2>4. at(k) = i
    <3>1. /\ at(k) < i => Cardinality(Below(found, at(k))) < Cardinality(Below(found, i))
          /\ i < at(k) => Cardinality(Below(found, i)) < Cardinality(Below(found, at(k)))
      BY <1>4, <2>3, RankGrows
    <3>2. at(k) \in Nat /\ i \in Nat
      BY <1>3, <2>3
    <3> QED
      BY <2>1, <2>3, <3>1, <3>2 DEF r
  <2> QED
    BY <2>2, <2>4
<1> HIDE DEF at
<1>8. ASSUME NEW k \in 1 .. n, NEW l \in 1 .. n, at(k) = at(l) PROVE k = l
  BY <1>5, <1>6, <1>8
<1>9. \A i \in found : Capture(i) \in [slot : Nat, mirror : Identities] /\ Capture(i) # Hand
  BY <1>2, <1>3, SchedulerConstants DEF Occupied, found
<1>10. \A i, j \in found : Capture(i) = Capture(j) => i = j
  BY <1>3
<1>11. \A i, j \in found : slots'[i].form = slots'[j].form => i = j
  BY <1>3 DEF SlotsInv, DistinctForms
<1>12. \A i \in found : Capture(i).mirror = slots'[i]
  OBVIOUS
<1>13. all = {[slot |-> i - 1, mirror |-> slots'[i]] : i \in found}
  OBVIOUS
<1> HIDE DEF Capture
<1>14. Hand \notin all /\ \A a, b \in all : a.mirror.form = b.mirror.form => a = b
  BY <1>9, <1>11, <1>12
<1> DEFINE last == n + (IF hand THEN 1 ELSE 0)
           body(k) == IF k <= n THEN Capture(at(k)) ELSE Hand
<1>15. Len(p) = last /\ DOMAIN p = 1 .. last /\ \A k \in 1 .. last : p[k] = body(k)
  <2> DEFINE S == all \cup {Hand}
  <2>1. mirrors \in [1 .. n -> S]
    BY <1>6
  <2>2. mirrors \in Seq(S) /\ Len(mirrors) = n
    <3> HIDE DEF mirrors, S
    <3> QED
      BY <1>5, <2>1, SeqDef, LenProperties
  <2>3. tail \in Seq(S) /\ Len(tail) = (IF hand THEN 1 ELSE 0) /\ (hand => tail[1] = Hand)
    <3>1. Hand \in S
      OBVIOUS
    <3> HIDE DEF S
    <3>2. <<Hand>> \in Seq(S) /\ Len(<<Hand>>) = 1 /\ << >> \in Seq(S) /\ Len(<< >>) = 0
      BY <3>1
    <3> QED
      BY <3>2
  <2>4. \A k \in 1 .. n : mirrors[k] = Capture(at(k))
    OBVIOUS
  <2> HIDE DEF mirrors, tail, S
  <2>5. Len(p) = last /\ p \in Seq(S)
        /\ \A k \in 1 .. last : p[k] = IF k <= n THEN mirrors[k] ELSE tail[k - n]
    BY <1>5, <2>2, <2>3, ConcatProperties
  <2>6. DOMAIN p = 1 .. last
    BY <2>5, LenProperties
  <2>7. ASSUME NEW k \in 1 .. last PROVE p[k] = body(k)
    <3>1. CASE k <= n
      BY <1>5, <2>4, <2>5, <3>1
    <3>2. CASE ~(k <= n)
      <4>1. hand /\ k - n = 1
        BY <1>5, <3>2
      <4> QED
        BY <2>3, <2>5, <3>2, <4>1
    <3> QED
      BY <3>1, <3>2
  <2> QED
    BY <2>5, <2>6, <2>7
<1>16. last \in Nat /\ n <= last /\ \A k \in 1 .. last : k <= n \/ k = last
  BY <1>5
<1>17. \A k \in 1 .. last : k <= n => k \in 1 .. n /\ body(k) \in all /\ body(k) # Hand
  BY <1>5, <1>6, <1>14
<1>18. \A k \in 1 .. last : ~(k <= n) => body(k) = Hand
  OBVIOUS
<1>19. \A a \in all : \E k \in 1 .. last : body(k) = a
  <2> TAKE a \in all
  <2>1. PICK i \in found : a = Capture(i)
    OBVIOUS
  <2>2. PICK k \in 1 .. n : at(k) = i
    BY <1>7
  <2>3. k \in 1 .. last /\ body(k) = a
    BY <1>5, <1>16, <2>1, <2>2
  <2> QED
    BY <2>3
<1>20. \A k, l \in 1 .. last : body(k) = body(l) => k = l
  <2> SUFFICES ASSUME NEW k \in 1 .. last, NEW l \in 1 .. last, body(k) = body(l) PROVE k = l
    OBVIOUS
  <2>1. CASE k <= n /\ l <= n
    <3>1. k \in 1 .. n /\ l \in 1 .. n /\ Capture(at(k)) = Capture(at(l))
      BY <1>17, <2>1
    <3>2. at(k) = at(l)
      BY <1>6, <1>10, <3>1
    <3> QED
      BY <1>8, <3>1, <3>2
  <2>2. CASE ~(k <= n) /\ ~(l <= n)
    BY <1>16, <2>2
  <2>3. CASE ~(k <= n <=> l <= n)
    BY <1>17, <1>18, <2>3
  <2> QED
    BY <2>1, <2>2, <2>3
<1> HIDE DEF last, body, all, p
<1> DEFINE chosen == {p[k] : k \in DOMAIN p}
<1>21. chosen \ {Hand} = all
  BY <1>14, <1>15, <1>16, <1>17, <1>18, <1>19
<1>22. Len(p) = Cardinality(chosen)
  <2> DEFINE f == [k \in 1 .. last |-> body(k)]
  <2>1. f \in Bijection(1 .. last, chosen)
    BY <1>15, <1>20 DEF Bijection, Injection, Surjection, IsInjective
  <2> HIDE DEF f, chosen
  <2>2. ExistsBijection(1 .. last, chosen)
    BY <2>1 DEF ExistsBijection
  <2> QED
    BY <1>15, <1>16, <2>2, FS_CountingElements
<1>23. \A k \in DOMAIN p : p[k] = Hand => k = Len(p)
  BY <1>15, <1>16, <1>17
<1> QED
  BY <1>1, <1>13, <1>14, <1>21, <1>22, <1>23 DEF CoversDemand, found

\* The slots are a list of mirrors, no two of one form.
LEMMA SchedulerInvHolds == SchedulerSpec => []SlotsInv
<1>1. SchedulerInit => SlotsInv
  <2>1. << >> \in Seq(Identities \cup {Vacant}) /\ DOMAIN << >> = {}
    BY SeqDef
  <2> QED
    BY <2>1 DEF SchedulerInit, SlotsInv, SlotLists, DistinctForms, Occupied
<1>2. SlotsInv /\ [SchedulerNext]_schedulerVars => SlotsInv'
  <2> SUFFICES ASSUME SlotsInv, [SchedulerNext]_schedulerVars PROVE SlotsInv'
    OBVIOUS
  <2>1. CASE UNCHANGED slots
    BY <2>1 DEF SlotsInv, DistinctForms, Occupied
  <2>2. ASSUME NEW ranked \in SUBSET Identities, slots' = ReconciledSlots(ranked) PROVE SlotsInv'
    BY <2>2, ReconcileFact DEF SlotsInv, DistinctForms, Occupied
  <2>3. CASE slots' = << >>
    <3>1. << >> \in Seq(Identities \cup {Vacant}) /\ DOMAIN << >> = {}
      BY SeqDef
    <3> QED
      BY <2>3, <3>1 DEF SlotsInv, SlotLists, DistinctForms, Occupied
  <2> QED
    BY <2>1, <2>2, <2>3 DEF SchedulerNext, AdvanceSource, AnyFence, FenceUnselected, Fence,
       FenceUnreconciled, SchedulerReset, schedulerVars
<1> QED
  BY <1>1, <1>2, PTL DEF SchedulerSpec

\* The slots of the scheduler (Reconcile): whatever mirrors appear, disappear or
\* are ranked before it, for any number of mirrors, one that stays keeps its slot.
THEOREM SlotsStableHolds == SchedulerSpec => SlotsStable
<1> DEFINE Stays ==
      \A i \in Occupied(slots) :
        (\E j \in DOMAIN slots' : slots'[j] = slots[i])
          => i \in DOMAIN slots' /\ slots'[i] = slots[i]
<1>1. SlotsInv /\ [SchedulerNext]_schedulerVars => [Stays]_schedulerVars
  <2> SUFFICES ASSUME SlotsInv, SchedulerNext PROVE Stays
    OBVIOUS
  <2>1. CASE UNCHANGED slots
    BY <2>1 DEF Occupied
  <2>2. ASSUME NEW ranked \in SUBSET Identities, slots' = ReconciledSlots(ranked) PROVE Stays
    BY <2>2, ReconcileFact
  <2>3. CASE slots' = << >>
    <3>1. DOMAIN << >> = {}
      BY SeqDef
    <3> QED
      BY <2>3, <3>1
  <2> HIDE DEF Stays
  <2> QED
    BY <2>1, <2>2, <2>3 DEF SchedulerNext, AdvanceSource, AnyFence, FenceUnselected, Fence,
       FenceUnreconciled, SchedulerReset
<1> QED
  BY <1>1, SchedulerInvHolds, PTL DEF SchedulerSpec, SlotsStable

\* The plan of a source in every-frame mode (ChooseEveryFrame): for any number of
\* mirrors and slots, each demanded mirror once, from its own slot, then the hand.
THEOREM PlanCoversHolds == SchedulerSpec => PlanCovers
<1> DEFINE Covered == everyFrame /\ fresh /\ ~fresh' /\ plan' # << >> => CoversDemand(plan')
<1>1. SlotsInv /\ SlotsInv' /\ [SchedulerNext]_schedulerVars => [Covered]_schedulerVars
  <2> SUFFICES ASSUME SlotsInv, SlotsInv', SchedulerNext,
                      everyFrame, fresh, ~fresh', plan' # << >>
               PROVE  CoversDemand(plan')
    BY DEF Covered
  <2>1. PICK hand \in BOOLEAN : Schedule(hand) /\ eligible' \in SUBSET Admitted'
    BY DEF SchedulerNext, AdvanceSource, AnyFence, FenceUnselected, Fence, FenceUnreconciled,
       SchedulerReset, SetDemand
  <2>2. ChooseEveryFrame(hand)
    BY <2>1 DEF Schedule
  <2> QED
    BY <2>1, <2>2, PlanFact
<1> QED
  BY <1>1, SchedulerInvHolds, PTL DEF SchedulerSpec, PlanCovers, CoversDemand

\* Reconcile's search for an empty slot never runs past the last one: after a
\* fence that reconciles, every mirror that it admits has a slot.
AdmittedHaveSlots ==
  [][\A ranked \in SUBSET Identities : (\E hand \in BOOLEAN : Fence(ranked, hand)) =>
       \A c \in Newest(ranked) : \E i \in DOMAIN slots' : slots'[i] = c]_schedulerVars

\* So it is for any number of mirrors and whatever gaps the slots have.
THEOREM AdmittedHaveSlotsHolds == SchedulerSpec => AdmittedHaveSlots
<1> DEFINE Room == \A ranked \in SUBSET Identities : (\E hand \in BOOLEAN : Fence(ranked, hand)) =>
                     \A c \in Newest(ranked) : \E i \in DOMAIN slots' : slots'[i] = c
<1>1. SlotsInv /\ [SchedulerNext]_schedulerVars => [Room]_schedulerVars
  <2> SUFFICES ASSUME SlotsInv, NEW ranked \in SUBSET Identities, slots' = ReconciledSlots(ranked)
               PROVE  \A c \in Newest(ranked) : \E i \in DOMAIN slots' : slots'[i] = c
    BY DEF Fence
  <2> QED
    BY ReconcileFact
<1> QED
  BY <1>1, SchedulerInvHolds, PTL DEF SchedulerSpec, AdmittedHaveSlots
=============================================================================
