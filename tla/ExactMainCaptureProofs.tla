----------------------- MODULE ExactMainCaptureProofs ------------------------
(***************************************************************************)
(* The safety of the deferred captures, for any number of entries, mirrors *)
(* and places, any plan and any number of sources: the references of the   *)
(* borrow, operator by operator (Sound), and then the schedule of one main *)
(* world after another.  ReferencesAccounted is not inductive: that a lost *)
(* reference has disabled the module, and that no filtered copy outlives   *)
(* its replay, are needed before the next borrow begins.                   *)
(***************************************************************************)
EXTENDS ExactMainCapture, TLAPS

-----------------------------------------------------------------------------
(* The references of a borrow *)

Balanced(b) ==
  /\ b \in Borrows
  /\ \A e \in Entries : b.refs[e] = Count(e, b.kept) + Count(e, b.derived) + b.leaked[e]
  /\ b.faulted => ~b.enabled
  /\ b.kept # {} => b.active

\* A reference that no slot accounts for has faulted the module.
LossLatched(b) == (\E e \in Entries : b.leaked[e] > 0) => b.faulted

Sound(b) == Balanced(b) /\ LossLatched(b)

\* c is b but for its flags: a fault, a replay's verdict, a capture's turn.
SameSlots(b, c) ==
  /\ c.refs = b.refs /\ c.leaked = b.leaked /\ c.kept = b.kept /\ c.derived = b.derived
  /\ c.derivedActive = b.derivedActive /\ c.active = b.active
  /\ b.faulted => c.faulted

LEMMA SameSlotsSound ==
  ASSUME NEW b, NEW c \in Borrows, SameSlots(b, c), c.faulted => ~c.enabled
  PROVE  /\ Balanced(b) => Balanced(c)
         /\ Sound(b) => Sound(c)
         /\ c.faulted /\ Balanced(b) => Sound(c)
  BY DEF SameSlots, Balanced, Sound, LossLatched

LEMMA LatchFact ==
  ASSUME NEW b \in Borrows
  PROVE  /\ LatchFault(b) \in Borrows /\ SameSlots(b, LatchFault(b))
         /\ LatchFault(b).faulted /\ ~LatchFault(b).enabled /\ ~LatchFault(b).ready
         /\ LatchFault(b).consumed = b.consumed /\ LatchFault(b).tokenFaulted
  BY DEF LatchFault, Borrows, SameSlots

LEMMA LatchIfFact ==
  ASSUME NEW b \in Borrows, NEW p \in BOOLEAN
  PROVE  LET c == LatchIf(p, b) IN
         /\ c \in Borrows /\ SameSlots(b, c)
         /\ c.faulted <=> b.faulted \/ p
         /\ c.ready => b.ready /\ ~p
         /\ (b.faulted => ~b.enabled) => (c.faulted => ~c.enabled)
<1>1. CASE p
  BY <1>1, LatchFact DEF LatchIf
<1>2. CASE ~p
  BY <1>2 DEF LatchIf, SameSlots, Borrows
<1> QED
  BY <1>1, <1>2

\* The latch on a balanced borrow whose losses it covers.
LEMMA LatchedSound ==
  ASSUME NEW b, Balanced(b), NEW p \in BOOLEAN, ~p => LossLatched(b)
  PROVE  Sound(LatchIf(p, b))
<1>1. b \in Borrows /\ (b.faulted => ~b.enabled)
  BY DEF Balanced
<1> DEFINE c == LatchIf(p, b)
<1>2. c \in Borrows /\ SameSlots(b, c) /\ (c.faulted <=> b.faulted \/ p) /\ (c.faulted => ~c.enabled)
  BY <1>1, LatchIfFact
<1> HIDE DEF c
<1>3. Sound(c)
  BY <1>2, SameSlotsSound DEF Sound
<1> QED
  BY <1>3 DEF c

LEMMA CountTyped == \A e, S : Count(e, S) \in {0, 1} /\ Count(e, S) \in Nat /\ Count(e, S) \in Int
  BY DEF Count

LEMMA CountFact ==
  ASSUME NEW e, NEW S, NEW T
  PROVE  /\ Count(e, S) \in {0, 1} /\ (Count(e, S) > 0 => e \in S)
         /\ Count(e, {}) = 0
         /\ S \cap T = {} => Count(e, S \cup T) = Count(e, S) + Count(e, T)
         /\ Count(e, S \ T) + Count(e, S \cap T) = Count(e, S)
  BY DEF Count

\* A filtered copy is released to the last entry; what its DecRefs lose latches.
LEMMA ClearFact ==
  ASSUME NEW b, Sound(b), NEW bad, NEW stuck \in SUBSET bad
  PROVE  LET c == ClearDerivedReplayState(b, bad, stuck) IN
         /\ Sound(c) /\ c.derived = {} /\ ~c.derivedActive
         /\ c.kept = b.kept /\ c.active = b.active
         /\ c.faulted <=> b.faulted \/ b.derived \cap bad # {}
         /\ c.ready => b.ready
<1> DEFINE p == b.derived \cap bad # {}
           r == [ReleaseAllEntries(b, b.derived, stuck) EXCEPT
                   !.derived = {}, !.derivedActive = FALSE]
<1>1. b \in Borrows
  BY DEF Sound, Balanced
<1>2. /\ r \in Borrows
      /\ r.refs = [e \in Entries |-> b.refs[e] - Count(e, b.derived \ stuck)]
      /\ r.leaked = [e \in Entries |-> b.leaked[e] + Count(e, b.derived \cap stuck)]
      /\ r.derived = {} /\ r.derivedActive = FALSE /\ r.kept = b.kept /\ r.active = b.active
      /\ r.faulted = b.faulted /\ r.ready = b.ready /\ r.enabled = b.enabled
  <2>3. b.refs \in [Entries -> Int] /\ b.leaked \in [Entries -> Nat]
    BY <1>1 DEF Borrows
  <2>1. [e \in Entries |-> b.refs[e] - Count(e, b.derived \ stuck)] \in [Entries -> Int]
    BY <2>3, CountTyped
  <2>2. [e \in Entries |-> b.leaked[e] + Count(e, b.derived \cap stuck)] \in [Entries -> Nat]
    BY <2>3, CountTyped
  <2> QED
    BY <1>1, <2>1, <2>2 DEF ReleaseAllEntries, Borrows
<1> HIDE DEF r
<1>3. Balanced(r)
  <2>1. ASSUME NEW e \in Entries
        PROVE  r.refs[e] = Count(e, r.kept) + Count(e, r.derived) + r.leaked[e]
    <3>1. /\ b.refs[e] = Count(e, b.kept) + Count(e, b.derived) + b.leaked[e]
          /\ b.refs[e] \in Int /\ b.leaked[e] \in Nat
      BY <1>1 DEF Sound, Balanced, Borrows
    <3>3. /\ Count(e, b.derived \ stuck) + Count(e, b.derived \cap stuck) = Count(e, b.derived)
          /\ Count(e, {}) = 0
      BY CountFact
    <3>2. /\ Count(e, b.kept) \in {0, 1} /\ Count(e, b.derived) \in {0, 1}
          /\ Count(e, b.derived \ stuck) \in {0, 1} /\ Count(e, b.derived \cap stuck) \in {0, 1}
      BY CountTyped
    <3> QED
      BY <1>2, <3>1, <3>2, <3>3
  <2> QED
    BY <1>2, <2>1 DEF Sound, Balanced
<1>4. ~p => LossLatched(r)
  <2> SUFFICES ASSUME ~p, NEW e \in Entries, r.leaked[e] > 0 PROVE r.faulted
    BY DEF LossLatched
  <2>1. Count(e, b.derived \cap stuck) = 0
    BY DEF Count
  <2>2. b.leaked[e] > 0
    BY <1>1, <1>2, <2>1 DEF Borrows
  <2> QED
    BY <1>2, <2>2 DEF Sound, LossLatched
<1>5. p \in BOOLEAN
  OBVIOUS
<1> HIDE DEF p
<1>6. Sound(LatchIf(p, r))
  BY <1>3, <1>4, <1>5, LatchedSound
<1>7. LET c == LatchIf(p, r) IN
      /\ c.derived = {} /\ ~c.derivedActive /\ c.kept = b.kept /\ c.active = b.active
      /\ c.faulted <=> b.faulted \/ p
      /\ c.ready => b.ready
  BY <1>2, <1>5, LatchIfFact DEF SameSlots
<1> QED
  BY <1>6, <1>7 DEF ClearDerivedReplayState, r, p

\* The borrow ends with every reference given back, or lost and latched.
LEMMA EndFact ==
  ASSUME NEW b, Sound(b), NEW bad, NEW stuck \in SUBSET bad
  PROVE  LET c == EndBorrow(b, bad, stuck) IN
         /\ Sound(c) /\ c.derived = {} /\ ~c.derivedActive /\ (b.faulted => c.faulted)
<1> DEFINE d == LatchIf(b.derivedActive, b)
           cleared == ClearDerivedReplayState(d, bad, stuck)
           released == ReleaseAllEntries(cleared, cleared.kept, stuck)
           p == cleared.kept \cap bad # {} \/ (~b.active /\ cleared.kept # {})
           l == LatchIf(p, released)
<1>1. b \in Borrows /\ b.derivedActive \in BOOLEAN
  BY DEF Sound, Balanced, Borrows
<1>2. Sound(d) /\ d.kept = b.kept /\ (b.faulted => d.faulted)
  BY <1>1, LatchedSound, LatchIfFact DEF Sound, SameSlots
<1> HIDE DEF d
<1>3. /\ Sound(cleared) /\ cleared.derived = {} /\ ~cleared.derivedActive
      /\ cleared.kept = d.kept /\ (d.faulted => cleared.faulted)
  BY <1>2, ClearFact
<1> HIDE DEF cleared
<1>4. cleared \in Borrows
  BY <1>3 DEF Sound, Balanced
<1>5. /\ released \in Borrows
      /\ released.refs = [e \in Entries |-> cleared.refs[e] - Count(e, cleared.kept \ stuck)]
      /\ released.leaked = [e \in Entries |-> cleared.leaked[e] + Count(e, cleared.kept \cap stuck)]
      /\ released.derived = {} /\ ~released.derivedActive
      /\ released.faulted = cleared.faulted /\ released.enabled = cleared.enabled
  <2>3. cleared.refs \in [Entries -> Int] /\ cleared.leaked \in [Entries -> Nat]
    BY <1>4 DEF Borrows
  <2>1. [e \in Entries |-> cleared.refs[e] - Count(e, cleared.kept \ stuck)] \in [Entries -> Int]
    BY <2>3, CountTyped
  <2>2. [e \in Entries |-> cleared.leaked[e] + Count(e, cleared.kept \cap stuck)] \in [Entries -> Nat]
    BY <2>3, CountTyped
  <2> QED
    BY <1>3, <1>4, <2>1, <2>2 DEF ReleaseAllEntries, Borrows
<1> HIDE DEF released
<1>6. p \in BOOLEAN /\ (~p => cleared.kept \cap bad = {})
  OBVIOUS
<1> HIDE DEF p
<1>7. /\ l \in Borrows /\ SameSlots(released, l) /\ (l.faulted <=> released.faulted \/ p)
      /\ l.faulted => ~l.enabled
  <2>1. released.faulted => ~released.enabled
    BY <1>3, <1>5 DEF Sound, Balanced
  <2> QED
    BY <1>5, <1>6, <2>1, LatchIfFact
<1> HIDE DEF l
<1> DEFINE c == [l EXCEPT !.kept = {}, !.ready = FALSE, !.active = FALSE,
                          !.tokenFaulted = FALSE, !.consumed = FALSE]
<1>8. /\ c \in Borrows /\ c.refs = l.refs /\ c.leaked = l.leaked /\ c.kept = {}
      /\ c.derived = l.derived /\ c.derivedActive = l.derivedActive
      /\ c.faulted = l.faulted /\ c.enabled = l.enabled
  BY <1>7 DEF Borrows
<1>9. c = EndBorrow(b, bad, stuck)
  BY <1>2, <1>3 DEF EndBorrow, l, p, released, cleared, d
<1> HIDE DEF c
<1>10. ASSUME NEW e \in Entries
       PROVE  /\ c.refs[e] = Count(e, c.kept) + Count(e, c.derived) + c.leaked[e]
              /\ c.leaked[e] > 0 => c.faulted
  <2>1. /\ cleared.refs[e] = Count(e, cleared.kept) + Count(e, {}) + cleared.leaked[e]
        /\ cleared.refs[e] \in Int /\ cleared.leaked[e] \in Nat
        /\ cleared.leaked[e] > 0 => cleared.faulted
    BY <1>3, <1>4 DEF Sound, Balanced, LossLatched, Borrows
  <2>2. /\ Count(e, cleared.kept \ stuck) + Count(e, cleared.kept \cap stuck) = Count(e, cleared.kept)
        /\ Count(e, {}) = 0 /\ Count(e, cleared.kept) \in {0, 1}
        /\ Count(e, cleared.kept \ stuck) \in {0, 1} /\ Count(e, cleared.kept \cap stuck) \in {0, 1}
        /\ Count(e, cleared.kept \cap stuck) > 0 => p
    BY <1>6, CountFact DEF Count
  <2>3. /\ c.refs[e] = cleared.refs[e] - Count(e, cleared.kept \ stuck)
        /\ c.leaked[e] = cleared.leaked[e] + Count(e, cleared.kept \cap stuck)
        /\ c.kept = {} /\ c.derived = {}
    BY <1>5, <1>7, <1>8 DEF SameSlots
  <2>4. c.refs[e] = Count(e, c.kept) + Count(e, c.derived) + c.leaked[e]
    BY <2>1, <2>2, <2>3
  <2>5. c.leaked[e] > 0 => cleared.leaked[e] > 0 \/ p
    BY <2>1, <2>2, <2>3
  <2>6. cleared.faulted \/ p => c.faulted
    BY <1>5, <1>7, <1>8
  <2> QED
    BY <2>1, <2>4, <2>5, <2>6
<1>11. Sound(c) /\ c.derived = {} /\ ~c.derivedActive /\ (b.faulted => c.faulted)
  BY <1>2, <1>3, <1>5, <1>7, <1>8, <1>10 DEF Sound, Balanced, LossLatched, SameSlots
<1> QED
  BY <1>9, <1>11

\* A borrow that keeps nothing retains the entries one by one; the entry whose
\* IncRef fails may be lost, and the caller latches.
LEMMA RetainFact ==
  ASSUME NEW b, Sound(b), NEW S \in SUBSET Entries, NEW uncertain \in SUBSET (Entries \ S)
  PROVE  LET c == Retain(b, S, uncertain) IN
         /\ c \in Borrows
         /\ \A e \in Entries : c.refs[e] = Count(e, b.kept) + Count(e, b.derived) + Count(e, S) + c.leaked[e]
         /\ uncertain = {} => c.leaked = b.leaked
         /\ c.kept = b.kept /\ c.derived = b.derived /\ c.derivedActive = b.derivedActive
         /\ c.active = b.active /\ c.faulted = b.faulted /\ c.enabled = b.enabled
         /\ c.ready = b.ready
<1> DEFINE c == Retain(b, S, uncertain)
<1>1. b \in Borrows
  BY DEF Sound, Balanced
<1>2. /\ c \in Borrows
      /\ c.refs = [e \in Entries |-> b.refs[e] + Count(e, S \cup uncertain)]
      /\ c.leaked = [e \in Entries |-> b.leaked[e] + Count(e, uncertain)]
      /\ c.kept = b.kept /\ c.derived = b.derived /\ c.derivedActive = b.derivedActive
      /\ c.active = b.active /\ c.faulted = b.faulted /\ c.enabled = b.enabled /\ c.ready = b.ready
  <2>1. b.refs \in [Entries -> Int] /\ b.leaked \in [Entries -> Nat]
    BY <1>1 DEF Borrows
  <2>2. [e \in Entries |-> b.refs[e] + Count(e, S \cup uncertain)] \in [Entries -> Int]
    BY <2>1, CountTyped
  <2>3. [e \in Entries |-> b.leaked[e] + Count(e, uncertain)] \in [Entries -> Nat]
    BY <2>1, CountTyped
  <2> QED
    BY <1>1, <2>2, <2>3 DEF Retain, Borrows
<1> HIDE DEF c
<1>3. ASSUME NEW e \in Entries
      PROVE  c.refs[e] = Count(e, b.kept) + Count(e, b.derived) + Count(e, S) + c.leaked[e]
  <2>1. /\ b.refs[e] = Count(e, b.kept) + Count(e, b.derived) + b.leaked[e]
        /\ b.refs[e] \in Int /\ b.leaked[e] \in Nat
    BY <1>1 DEF Sound, Balanced, Borrows
  <2>2. S \cap uncertain = {}
    OBVIOUS
  <2>3. Count(e, S \cup uncertain) = Count(e, S) + Count(e, uncertain)
    BY <2>2, CountFact
  <2>4. /\ Count(e, S) \in {0, 1} /\ Count(e, uncertain) \in {0, 1}
        /\ Count(e, b.kept) \in {0, 1} /\ Count(e, b.derived) \in {0, 1}
    BY CountTyped
  <2> QED
    BY <1>2, <2>1, <2>3, <2>4
<1>4. uncertain = {} => c.leaked = b.leaked
  <2> SUFFICES ASSUME uncertain = {} PROVE c.leaked = b.leaked
    OBVIOUS
  <2>1. b.leaked \in [Entries -> Nat] /\ \A e \in Entries : Count(e, uncertain) = 0
    BY <1>1 DEF Borrows, Count
  <2>2. \A e \in Entries : b.leaked[e] + 0 = b.leaked[e]
    BY <2>1
  <2> QED
    BY <1>2, <2>1, <2>2
<1> QED
  BY <1>2, <1>3, <1>4 DEF c

\* The borrow begins on an empty hand; a snapshot that fails gives back what it took.
LEMMA BeginFact ==
  ASSUME NEW b, Sound(b), b.derived = {}, ~b.derivedActive,
         NEW committed \in SUBSET Entries, NEW uncertain \in SUBSET (Entries \ committed),
         NEW bad, NEW stuck \in SUBSET bad
  PROVE  LET c == BeginBorrow(b, committed, uncertain, bad, stuck) IN
         /\ Sound(c) /\ c.derived = {} /\ ~c.derivedActive /\ (b.faulted => c.faulted)
<1> DEFINE fresh == [b EXCEPT !.threadKnown = TRUE, !.active = TRUE,
                       !.tokenFaulted = FALSE, !.consumed = FALSE, !.ready = FALSE,
                       !.clean = FALSE, !.acquisitions = 0, !.kept = committed]
           owning == Retain(fresh, committed, uncertain)
           before == [b EXCEPT !.threadKnown = TRUE, !.active = TRUE,
                       !.tokenFaulted = FALSE, !.consumed = FALSE, !.ready = FALSE,
                       !.clean = FALSE, !.acquisitions = 0]
           r == Retain(before, committed, uncertain)
<1>1. b \in Borrows /\ (b.faulted => ~b.enabled)
  BY DEF Sound, Balanced
<1>2. CASE ~b.enabled
  BY <1>2 DEF BeginBorrow
<1>3. CASE b.enabled /\ b.active
  <2>1. LatchFault(b) \in Borrows /\ SameSlots(b, LatchFault(b)) /\ ~LatchFault(b).enabled
    BY <1>1, LatchFact
  <2>2. Sound(LatchFault(b))
    BY <2>1, SameSlotsSound
  <2> QED
    BY <1>3, <2>1, <2>2 DEF BeginBorrow, SameSlots
<1>4. CASE b.enabled /\ ~b.active
  <2>1. b.kept = {} /\ ~b.faulted
    BY <1>1, <1>4 DEF Sound, Balanced
  <2>2. /\ before \in Borrows /\ before.refs = b.refs /\ before.leaked = b.leaked
        /\ before.kept = {} /\ before.derived = {} /\ before.derivedActive = b.derivedActive
        /\ before.active = TRUE /\ before.faulted = b.faulted /\ before.enabled = b.enabled
    BY <1>1, <2>1 DEF Borrows
  <2>3. owning = [r EXCEPT !.kept = committed]
    BY ZenonT(60), <1>1 DEF Retain, Borrows
  <2> HIDE DEF before
  <2>4. Sound(before)
    BY <1>1, <2>1, <2>2 DEF Sound, Balanced, LossLatched
  <2>5. /\ r \in Borrows
        /\ \A e \in Entries : r.refs[e] = Count(e, {}) + Count(e, {}) + Count(e, committed) + r.leaked[e]
        /\ uncertain = {} => r.leaked = b.leaked
        /\ r.derived = {} /\ ~r.derivedActive /\ r.active = TRUE /\ ~r.faulted
    <3>1. /\ r \in Borrows
          /\ \A e \in Entries : r.refs[e] = Count(e, before.kept) + Count(e, before.derived)
                                             + Count(e, committed) + r.leaked[e]
          /\ uncertain = {} => r.leaked = before.leaked
          /\ r.derived = before.derived /\ r.derivedActive = before.derivedActive
          /\ r.active = before.active /\ r.faulted = before.faulted
      BY <2>4, RetainFact
    <3> HIDE DEF r
    <3> QED
      BY <2>1, <2>2, <3>1
  <2> HIDE DEF r, owning
  <2>6. /\ owning \in Borrows /\ owning.refs = r.refs /\ owning.leaked = r.leaked
        /\ owning.kept = committed /\ owning.derived = {} /\ ~owning.derivedActive
        /\ owning.active = TRUE /\ ~owning.faulted
    BY <2>3, <2>5 DEF Borrows
  <2>7. Balanced(owning)
    <3>1. ASSUME NEW e \in Entries
          PROVE  owning.refs[e] = Count(e, owning.kept) + Count(e, owning.derived) + owning.leaked[e]
      <4>1. Count(e, {}) = 0 /\ Count(e, committed) \in {0, 1} /\ owning.leaked[e] \in Nat
        BY <2>6, CountFact, CountTyped DEF Borrows
      <4> QED
        BY <2>5, <2>6, <4>1
    <3> QED
      BY <2>6, <3>1 DEF Balanced
  <2>8. CASE committed = Entries
    <3>1. BeginBorrow(b, committed, uncertain, bad, stuck) = owning
      BY <1>4, <2>8 DEF BeginBorrow, owning
    <3>2. uncertain = {}
      BY <2>8
    <3>4. \A e \in Entries : ~(b.leaked[e] > 0)
      BY <2>1 DEF Sound, LossLatched
    <3>5. owning.leaked = b.leaked
      BY <2>5, <2>6, <3>2
    <3>3. Sound(owning)
      BY <2>7, <3>4, <3>5 DEF Sound, LossLatched
    <3> QED
      BY <2>1, <2>6, <3>1, <3>3
  <2>9. CASE committed # Entries
    <3> DEFINE l == LatchFault(owning)
    <3>1. BeginBorrow(b, committed, uncertain, bad, stuck) = EndBorrow(l, bad, stuck)
      BY <1>4, <2>9 DEF BeginBorrow, owning
    <3>2. l \in Borrows /\ SameSlots(owning, l) /\ ~l.enabled /\ l.faulted
      BY <2>6, LatchFact
    <3> HIDE DEF l
    <3>3. Sound(l)
      BY <2>7, <3>2, SameSlotsSound
    <3> QED
      BY <3>1, <3>2, <3>3, EndFact
  <2> QED
    BY <2>8, <2>9
<1> QED
  BY <1>2, <1>3, <1>4 DEF Sound, Balanced, Borrows

\* A step that moves flags only.
LEMMA FlagsFact ==
  ASSUME NEW b, Sound(b), NEW budget
  PROVE  /\ Sound(Acquire(b)) /\ SameSlots(b, Acquire(b))
         /\ Sound(Rearm(b)) /\ SameSlots(b, Rearm(b)) /\ Rearm(b).faulted = b.faulted
         /\ Sound(LatchElsewhere(b)) /\ SameSlots(b, LatchElsewhere(b))
         /\ Sound(LatchFault(b)) /\ SameSlots(b, LatchFault(b)) /\ LatchFault(b).faulted
         /\ \A on \in BOOLEAN : Sound(SetEnabled(b, on)) /\ SameSlots(b, SetEnabled(b, on))
<1>1. b \in Borrows /\ (b.faulted => ~b.enabled)
  BY DEF Sound, Balanced
<1>2. Sound(LatchFault(b)) /\ SameSlots(b, LatchFault(b)) /\ LatchFault(b).faulted
  BY <1>1, LatchFact, SameSlotsSound
<1>3. Sound(Acquire(b)) /\ SameSlots(b, Acquire(b))
  <2>1. CASE b.consumed
    BY <1>2, <2>1 DEF Acquire
  <2>2. CASE ~b.consumed
    <3> DEFINE n == b.acquisitions + 1
               c == [b EXCEPT !.consumed = TRUE, !.acquisitions = n, !.clean = FALSE]
    <3>1. n \in Nat
      BY <1>1 DEF Borrows
    <3>2. Acquire(b) = [b EXCEPT !.consumed = TRUE, !.acquisitions = b.acquisitions + 1, !.clean = FALSE]
      BY <1>1, <2>2 DEF Acquire, Borrows
    <3>3. Acquire(b) = c
      BY <3>2
    <3> HIDE DEF n
    <3>4. c \in Borrows /\ SameSlots(b, c) /\ (c.faulted => ~c.enabled)
      BY <1>1, <3>1 DEF Borrows, SameSlots
    <3> HIDE DEF c
    <3>5. Sound(c) /\ SameSlots(b, c)
      BY <3>4, SameSlotsSound
    <3> QED
      BY <3>3, <3>5
  <2> QED
    BY <2>1, <2>2
<1>4. Sound(Rearm(b)) /\ SameSlots(b, Rearm(b)) /\ Rearm(b).faulted = b.faulted
  <2>1. /\ Rearm(b) \in Borrows /\ SameSlots(b, Rearm(b)) /\ Rearm(b).faulted = b.faulted
        /\ Rearm(b).faulted => ~Rearm(b).enabled
    BY <1>1 DEF Rearm, Borrows, SameSlots
  <2> QED
    BY <2>1, SameSlotsSound
<1>5. Sound(LatchElsewhere(b)) /\ SameSlots(b, LatchElsewhere(b))
  <2>1. /\ LatchElsewhere(b) \in Borrows /\ SameSlots(b, LatchElsewhere(b))
        /\ LatchElsewhere(b).faulted => ~LatchElsewhere(b).enabled
    BY <1>1 DEF LatchElsewhere, Borrows, SameSlots
  <2> QED
    BY <2>1, SameSlotsSound
<1>6. ASSUME NEW on \in BOOLEAN PROVE Sound(SetEnabled(b, on)) /\ SameSlots(b, SetEnabled(b, on))
  <2> DEFINE may == on /\ ~b.faulted
             c == [b EXCEPT !.enabled = may]
  <2>1. may \in BOOLEAN /\ (b.faulted => ~may)
    OBVIOUS
  <2> HIDE DEF may
  <2>2. c \in Borrows /\ SameSlots(b, c) /\ (c.faulted => ~c.enabled)
    BY <1>1, <2>1 DEF Borrows, SameSlots
  <2>3. c = SetEnabled(b, on)
    BY DEF SetEnabled, may
  <2> HIDE DEF c
  <2>4. Sound(c) /\ SameSlots(b, c)
    BY <2>2, SameSlotsSound
  <2> QED
    BY <2>3, <2>4
<1> QED
  BY <1>2, <1>3, <1>4, <1>5, <1>6

\* A filtered copy adds its own references.
LEMMA BuildFact ==
  ASSUME NEW b, Sound(b), b.derived = {}, NEW covered \in SUBSET Entries
  PROVE  LET c == BuildDerived(b, covered) IN
         Sound(c) /\ c.derivedActive /\ c.faulted = b.faulted
<1> DEFINE S == Entries \ covered
           r == Retain(b, S, {})
           c == [r EXCEPT !.derived = S, !.derivedActive = TRUE]
<1>1. S \in SUBSET Entries /\ {} \in SUBSET (Entries \ S)
  OBVIOUS
<1> HIDE DEF S
<1>2. /\ r \in Borrows
      /\ \A e \in Entries : r.refs[e] = Count(e, b.kept) + Count(e, b.derived) + Count(e, S) + r.leaked[e]
      /\ r.leaked = b.leaked /\ r.kept = b.kept /\ r.active = b.active
      /\ r.faulted = b.faulted /\ r.enabled = b.enabled
  BY <1>1, RetainFact
<1> HIDE DEF r
<1>3. /\ c \in Borrows /\ c.refs = r.refs /\ c.leaked = r.leaked /\ c.kept = r.kept
      /\ c.derived = S /\ c.derivedActive = TRUE /\ c.active = r.active
      /\ c.faulted = r.faulted /\ c.enabled = r.enabled
  BY <1>1, <1>2 DEF Borrows
<1>4. c = BuildDerived(b, covered)
  BY DEF BuildDerived, c, r, S
<1> HIDE DEF c
<1>5. ASSUME NEW e \in Entries
      PROVE  c.refs[e] = Count(e, c.kept) + Count(e, c.derived) + c.leaked[e]
  <2>1. /\ Count(e, b.derived) = 0 /\ Count(e, S) \in {0, 1} /\ Count(e, b.kept) \in {0, 1}
        /\ c.leaked[e] \in Nat
    BY <1>3, CountFact, CountTyped DEF Borrows
  <2> QED
    BY <1>2, <1>3, <2>1
<1>6. Sound(c)
  BY <1>2, <1>3, <1>5 DEF Sound, Balanced, LossLatched
<1> QED
  BY <1>2, <1>3, <1>4, <1>6

LEMMA BuildFailsFact ==
  ASSUME NEW b, Sound(b), b.derived = {}, NEW committed \in SUBSET Entries,
         NEW uncertain \in SUBSET (Entries \ committed), NEW bad, NEW stuck \in SUBSET bad
  PROVE  LET c == BuildDerivedFails(b, committed, uncertain, bad, stuck) IN
         Sound(c) /\ c.derived = {} /\ ~c.derivedActive /\ c.faulted
<1> DEFINE r == Retain(b, committed, uncertain)
           d == [r EXCEPT !.derived = committed]
           l == LatchFault(d)
<1>1. /\ r \in Borrows
      /\ \A e \in Entries :
           r.refs[e] = Count(e, b.kept) + Count(e, b.derived) + Count(e, committed) + r.leaked[e]
      /\ r.kept = b.kept /\ r.active = b.active /\ r.faulted = b.faulted /\ r.enabled = b.enabled
  BY RetainFact
<1> HIDE DEF r
<1>2. /\ d \in Borrows /\ d.refs = r.refs /\ d.leaked = r.leaked /\ d.kept = r.kept
      /\ d.derived = committed /\ d.active = r.active /\ d.faulted = r.faulted
      /\ d.enabled = r.enabled
  BY <1>1 DEF Borrows
<1> HIDE DEF d
<1>3. ASSUME NEW e \in Entries
      PROVE  d.refs[e] = Count(e, d.kept) + Count(e, d.derived) + d.leaked[e]
  <2>1. /\ Count(e, b.derived) = 0 /\ Count(e, committed) \in {0, 1} /\ Count(e, b.kept) \in {0, 1}
        /\ d.leaked[e] \in Nat
    BY <1>2, CountFact, CountTyped DEF Borrows
  <2> QED
    BY <1>1, <1>2, <2>1
<1>4. Balanced(d)
  BY <1>1, <1>2, <1>3 DEF Sound, Balanced
<1>5. l \in Borrows /\ SameSlots(d, l) /\ l.faulted /\ ~l.enabled
  BY <1>2, LatchFact
<1>6. ClearDerivedReplayState(l, bad, stuck) = BuildDerivedFails(b, committed, uncertain, bad, stuck)
  BY DEF BuildDerivedFails, l, d, r
<1> HIDE DEF l
<1>7. Sound(l)
  BY <1>4, <1>5, SameSlotsSound
<1> QED
  BY <1>5, <1>6, <1>7, ClearFact

\* A replay that did not prove itself clean, or whose copy was not released,
\* has latched; one that is ready for publication was proven.
LEMMA CompleteFact ==
  ASSUME NEW b, Sound(b), NEW proven \in BOOLEAN, NEW bad, NEW stuck \in SUBSET bad
  PROVE  LET c == CompleteReplay(b, proven, bad, stuck) IN
         /\ Sound(c) /\ c.derived = {} /\ ~c.derivedActive /\ (b.faulted => c.faulted)
         /\ c.ready => proven
         /\ ~(proven /\ b.derived \cap bad = {}) => c.faulted
<1> DEFINE allowed == proven /\ Active(b) /\ ~b.faulted
           p == ~allowed /\ ~b.faulted
           told == [b EXCEPT !.ready = allowed]
           judged == LatchIf(p, told)
           cleared == ClearDerivedReplayState(judged, bad, stuck)
           clean == allowed /\ ~cleared.faulted
           c == [cleared EXCEPT !.clean = clean]
<1>1. b \in Borrows /\ (b.faulted => ~b.enabled)
  BY DEF Sound, Balanced
<1>2. /\ allowed \in BOOLEAN /\ (allowed => proven) /\ (~proven => ~allowed)
  BY <1>1 DEF Active, Borrows
<1>3. p \in BOOLEAN /\ (~proven => p \/ b.faulted)
  BY <1>2
<1>4. c = CompleteReplay(b, proven, bad, stuck)
  BY DEF CompleteReplay
<1> HIDE DEF allowed
<1>5. /\ told \in Borrows /\ SameSlots(b, told) /\ told.faulted = b.faulted
      /\ told.enabled = b.enabled /\ (told.ready => proven)
  BY <1>1, <1>2 DEF Borrows, SameSlots
<1> HIDE DEF told, p
<1>6. /\ judged \in Borrows /\ SameSlots(told, judged) /\ (judged.faulted <=> b.faulted \/ p)
      /\ (judged.ready => proven) /\ (judged.faulted => ~judged.enabled)
  BY <1>1, <1>3, <1>5, LatchIfFact
<1> HIDE DEF judged
<1>7. Sound(judged) /\ judged.derived = b.derived
  BY <1>1, <1>5, <1>6, SameSlotsSound DEF SameSlots
<1>8. /\ Sound(cleared) /\ cleared.derived = {} /\ ~cleared.derivedActive
      /\ cleared.faulted <=> judged.faulted \/ judged.derived \cap bad # {}
      /\ cleared.ready => judged.ready
  BY <1>7, ClearFact
<1> HIDE DEF cleared
<1>9. clean \in BOOLEAN /\ cleared \in Borrows /\ (cleared.faulted => ~cleared.enabled)
  BY <1>2, <1>8 DEF Sound, Balanced
<1> HIDE DEF clean
<1>10. /\ c \in Borrows /\ SameSlots(cleared, c) /\ c.faulted = cleared.faulted
       /\ c.ready = cleared.ready /\ (c.faulted => ~c.enabled)
  BY <1>9 DEF Borrows, SameSlots
<1> HIDE DEF c
<1>11. Sound(c)
  BY <1>8, <1>10, SameSlotsSound
<1> QED
  BY <1>3, <1>4, <1>6, <1>7, <1>8, <1>10, <1>11 DEF SameSlots

LEMMA AbandonFact ==
  ASSUME NEW b, Sound(b), NEW current \in BOOLEAN, NEW bad, NEW stuck \in SUBSET bad
  PROVE  LET c == AbandonReplay(b, current, bad, stuck) IN
         /\ Sound(c) /\ c.derived = {} /\ ~c.derivedActive /\ (b.faulted => c.faulted)
         /\ ~(current /\ b.derived \cap bad = {}) => c.faulted
<1> DEFINE p == ~current /\ ~b.faulted
           told == [b EXCEPT !.ready = FALSE]
           judged == LatchIf(p, told)
           cleared == ClearDerivedReplayState(judged, bad, stuck)
           clean == current /\ Active(cleared) /\ ~cleared.faulted
           c == [cleared EXCEPT !.clean = clean]
<1>1. b \in Borrows /\ (b.faulted => ~b.enabled)
  BY DEF Sound, Balanced
<1>2. p \in BOOLEAN /\ (~current => p \/ b.faulted)
  OBVIOUS
<1>3. c = AbandonReplay(b, current, bad, stuck)
  BY DEF AbandonReplay
<1>4. /\ told \in Borrows /\ SameSlots(b, told) /\ told.faulted = b.faulted
      /\ told.enabled = b.enabled
  BY <1>1 DEF Borrows, SameSlots
<1> HIDE DEF told, p
<1>5. /\ judged \in Borrows /\ SameSlots(told, judged) /\ (judged.faulted <=> b.faulted \/ p)
      /\ (judged.faulted => ~judged.enabled)
  BY <1>1, <1>2, <1>4, LatchIfFact
<1> HIDE DEF judged
<1>6. Sound(judged) /\ judged.derived = b.derived
  BY <1>1, <1>4, <1>5, SameSlotsSound DEF SameSlots
<1>7. /\ Sound(cleared) /\ cleared.derived = {} /\ ~cleared.derivedActive
      /\ cleared.faulted <=> judged.faulted \/ judged.derived \cap bad # {}
  BY <1>6, ClearFact
<1> HIDE DEF cleared
<1>8. clean \in BOOLEAN /\ cleared \in Borrows /\ (cleared.faulted => ~cleared.enabled)
  BY <1>7 DEF Sound, Balanced, Active, Borrows
<1> HIDE DEF clean
<1>9. /\ c \in Borrows /\ SameSlots(cleared, c) /\ c.faulted = cleared.faulted
      /\ c.faulted => ~c.enabled
  BY <1>8 DEF Borrows, SameSlots
<1> HIDE DEF c
<1>10. Sound(c)
  BY <1>7, <1>9, SameSlotsSound
<1> QED
  BY <1>2, <1>3, <1>5, <1>6, <1>7, <1>9, <1>10 DEF SameSlots

LEMMA FailFact ==
  ASSUME NEW b, Sound(b), NEW bad, NEW stuck \in SUBSET bad
  PROVE  LET c == FailCurrentBorrow(b, bad, stuck) IN
         Sound(c) /\ c.derived = {} /\ ~c.derivedActive /\ c.faulted
<1>1. Sound(LatchFault(b)) /\ LatchFault(b).faulted
  BY FlagsFact
<1> QED
  BY <1>1, ClearFact DEF FailCurrentBorrow

-----------------------------------------------------------------------------
(* The borrow along the schedule *)

\* A filtered copy lives while its replay runs, and renderer state is uncertain
\* only during a capture or once the module is faulted.
BorrowInv ==
  /\ Sound(borrow)
  /\ borrow.derived # {} => borrow.derivedActive
  /\ borrow.derivedActive => stage = "replaying"
  /\ dirty => borrow.faulted \/ stage \in {"acquired", "replaying"}

LEMMA BorrowKept ==
  BorrowInv /\ borrow' = borrow /\ dirty' = dirty /\ stage \notin {"acquired", "replaying"} => BorrowInv'
  BY DEF BorrowInv

LEMMA BorrowCleared ==
  /\ Sound(borrow') /\ borrow'.derived = {} /\ ~borrow'.derivedActive
  /\ dirty' => borrow'.faulted
  => BorrowInv'
  BY DEF BorrowInv

LEMMA BorrowFlagged ==
  BorrowInv /\ Sound(borrow') /\ SameSlots(borrow, borrow') /\ dirty' = dirty /\ stage' = stage
  => BorrowInv'
  BY DEF BorrowInv, SameSlots

LEMMA ArmedFact ==
  Sound(borrow) => Sound(Armed) /\ SameSlots(borrow, Armed) /\ Armed.faulted = borrow.faulted
<1>1. SameSlots(borrow, borrow)
  BY DEF SameSlots
<1> QED
  BY <1>1, FlagsFact DEF Armed

LEMMA BorrowStep ==
  BorrowInv /\ [Next]_vars => BorrowInv'
<1> SUFFICES ASSUME BorrowInv, [Next]_vars PROVE BorrowInv'
  OBVIOUS
<1>a. /\ Sound(borrow)
      /\ stage # "replaying" => borrow.derived = {} /\ ~borrow.derivedActive
      /\ stage \notin {"acquired", "replaying"} => (dirty => borrow.faulted)
  BY DEF BorrowInv
<1>1. CASE Fence
  <2>1. borrow' = borrow /\ dirty' = dirty /\ stage = "idle"
    BY <1>1 DEF Fence, FenceSingle, FenceBatch, FenceSuspended, Unfenced
  <2> QED
    BY <2>1, BorrowKept
<1>2. CASE MainWorldUnwinds \/ MainWorldReturns \/ Publishes \/ DoesNotPublish
  <2>1. borrow' = borrow /\ dirty' = dirty /\ stage \in {"culled", "rendered"}
    BY <1>2 DEF MainWorldUnwinds, MainWorldReturns, Publishes, DoesNotPublish
  <2> QED
    BY <2>1, BorrowKept
<1>3. CASE EntryUnarmed
  <2>1. borrow' = FailCurrentBorrow(borrow, {}, {})
    BY <1>3 DEF EntryUnarmed
  <2>2. Sound(borrow') /\ borrow'.derived = {} /\ ~borrow'.derivedActive /\ borrow'.faulted
    BY <1>a, <2>1, FailFact
  <2> QED
    BY <2>2, BorrowCleared
<1>4. CASE EntrySkipped
  <2>1. borrow' = Armed /\ dirty' = dirty /\ stage' = stage
    BY <1>4 DEF EntrySkipped
  <2> QED
    BY <1>a, <2>1, ArmedFact, BorrowFlagged
<1>5. CASE EntryAcquires
  <2>1. borrow' = Acquire(Armed) /\ stage = "next" /\ stage' = "acquired"
    BY <1>5 DEF EntryAcquires, EntryReady
  <2>2. Sound(borrow') /\ SameSlots(Armed, borrow') /\ SameSlots(borrow, Armed)
    BY <1>a, <2>1, ArmedFact, FlagsFact
  <2> QED
    BY <1>a, <2>1, <2>2 DEF BorrowInv, SameSlots
<1>6. ASSUME NEW bad \in SUBSET Entries, NEW stuck \in SUBSET bad, Releasing(bad, stuck)
      PROVE  BorrowInv'
  <2>1. ASSUME NEW committed \in SUBSET Entries,
               NEW uncertain \in {{}} \cup {{e} : e \in Entries \ committed},
               FinalizeMainCulling(committed, uncertain, bad, stuck)
        PROVE  BorrowInv'
    <3>1. uncertain \in SUBSET (Entries \ committed)
      OBVIOUS
    <3>2. /\ borrow' = BeginBorrow(borrow, committed, uncertain, bad, stuck)
          /\ stage = "fenced" /\ (dirty' => dirty)
      BY <2>1 DEF FinalizeMainCulling
    <3>3. /\ Sound(borrow') /\ borrow'.derived = {} /\ ~borrow'.derivedActive
          /\ borrow.faulted => borrow'.faulted
      BY <1>a, <3>1, <3>2, BeginFact
    <3> QED
      BY <1>a, <3>2, <3>3, BorrowCleared
  <2>2. ASSUME NEW committed \in SUBSET Entries,
               NEW uncertain \in {{}} \cup {{e} : e \in Entries \ committed},
               DerivedFails(committed, uncertain, bad, stuck)
        PROVE  BorrowInv'
    <3>1. uncertain \in SUBSET (Entries \ committed)
      OBVIOUS
    <3>2. borrow' = BuildDerivedFails(borrow, committed, uncertain, bad, stuck) /\ stage = "acquired"
      BY <2>2 DEF DerivedFails
    <3>3. Sound(borrow') /\ borrow'.derived = {} /\ ~borrow'.derivedActive /\ borrow'.faulted
      BY <1>a, <3>1, <3>2, BuildFailsFact
    <3> QED
      BY <3>3, BorrowCleared
  <2>3. CASE MainWorldReturnsUnborrowed(bad, stuck)
    <3>1. stage = "culled" /\ dirty' = dirty /\ stage' = "idle"
      BY <2>3 DEF MainWorldReturnsUnborrowed, Return
    <3>2. CASE borrow.active
      <4>1. borrow' = EndBorrow(borrow, bad, stuck)
        BY <2>3, <3>2 DEF MainWorldReturnsUnborrowed
      <4>2. /\ Sound(borrow') /\ borrow'.derived = {} /\ ~borrow'.derivedActive
            /\ borrow.faulted => borrow'.faulted
        BY <1>a, <4>1, EndFact
      <4> QED
        BY <1>a, <3>1, <4>2, BorrowCleared
    <3>3. CASE ~borrow.active
      <4>1. borrow' = borrow
        BY <2>3, <3>3 DEF MainWorldReturnsUnborrowed
      <4> QED
        BY <3>1, <4>1, BorrowKept
    <3> QED
      BY <3>2, <3>3
  <2>4. ASSUME NEW ok \in BOOLEAN, Abandons(ok, bad, stuck)
        PROVE  BorrowInv'
    <3>1. /\ borrow' = AbandonReplay(borrow, ok, bad, stuck)
          /\ dirty' = ~(ok /\ borrow.derived \cap bad = {})
      BY <2>4 DEF Abandons
    <3>2. /\ Sound(borrow') /\ borrow'.derived = {} /\ ~borrow'.derivedActive
          /\ ~(ok /\ borrow.derived \cap bad = {}) => borrow'.faulted
      BY <1>a, <3>1, AbandonFact
    <3> QED
      BY <3>1, <3>2, BorrowCleared
  <2>5. ASSUME NEW ok \in BOOLEAN, Completes(ok, bad, stuck)
        PROVE  BorrowInv'
    <3>1. /\ borrow' = CompleteReplay(borrow, ok, bad, stuck)
          /\ dirty' = ~(ok /\ borrow.derived \cap bad = {})
      BY <2>5 DEF Completes
    <3>2. /\ Sound(borrow') /\ borrow'.derived = {} /\ ~borrow'.derivedActive
          /\ ~(ok /\ borrow.derived \cap bad = {}) => borrow'.faulted
      BY <1>a, <3>1, CompleteFact
    <3> QED
      BY <3>1, <3>2, BorrowCleared
  <2>6. CASE CapturesEnd(bad, stuck)
    <3>1. borrow' = EndBorrow(borrow, bad, stuck) /\ stage = "next" /\ dirty' = dirty
      BY <2>6 DEF CapturesEnd, Return
    <3>2. /\ Sound(borrow') /\ borrow'.derived = {} /\ ~borrow'.derivedActive
          /\ borrow.faulted => borrow'.faulted
      BY <1>a, <3>1, EndFact
    <3> QED
      BY <1>a, <3>1, <3>2, BorrowCleared
  <2>7. CASE CallbackFaults(bad, stuck)
    <3> DEFINE l == LatchFault(borrow)
    <3>1. borrow' = EndBorrow(l, bad, stuck)
      BY <2>7 DEF CallbackFaults
    <3>2. Sound(l) /\ l.faulted
      BY <1>a, FlagsFact
    <3> HIDE DEF l
    <3>3. Sound(borrow') /\ borrow'.derived = {} /\ ~borrow'.derivedActive /\ borrow'.faulted
      BY <3>1, <3>2, EndFact
    <3> QED
      BY <3>3, BorrowCleared
  <2> QED
    BY <1>6, <2>1, <2>2, <2>3, <2>4, <2>5, <2>6, <2>7 DEF Releasing
<1>7. CASE PreparationFails
  <2>1. borrow' = FailCurrentBorrow(borrow, {}, {})
    BY <1>7 DEF PreparationFails
  <2>2. Sound(borrow') /\ borrow'.derived = {} /\ ~borrow'.derivedActive /\ borrow'.faulted
    BY <1>a, <2>1, FailFact
  <2> QED
    BY <2>2, BorrowCleared
<1>8. CASE ReplaysPlain
  <2>1. borrow' = borrow /\ dirty' = dirty /\ stage = "acquired" /\ stage' = "replaying"
    BY <1>8 DEF ReplaysPlain
  <2> QED
    BY <1>a, <2>1 DEF BorrowInv
<1>9. ASSUME NEW covered \in SUBSET Entries, ReplaysDerived(covered)
      PROVE  BorrowInv'
  <2>1. borrow' = BuildDerived(borrow, covered) /\ stage = "acquired" /\ stage' = "replaying"
    BY <1>9 DEF ReplaysDerived
  <2>2. Sound(borrow') /\ borrow'.derivedActive
    BY <1>a, <2>1, BuildFact
  <2> QED
    BY <2>1, <2>2 DEF BorrowInv
<1>10. CASE OtherThreadFinalizes
  <2>1. borrow' = LatchElsewhere(borrow) /\ dirty' = dirty /\ stage' = stage
    BY <1>10 DEF OtherThreadFinalizes
  <2> QED
    BY <1>a, <2>1, FlagsFact, BorrowFlagged
<1>11. ASSUME NEW on \in BOOLEAN, ProductCommitted(on)
       PROVE  BorrowInv'
  <2>1. borrow' = SetEnabled(borrow, on) /\ dirty' = dirty /\ stage' = stage
    BY <1>11 DEF ProductCommitted
  <2> QED
    BY <1>a, <2>1, FlagsFact, BorrowFlagged
<1>12. CASE WorldChanges \/ LoadTransition \/ UNCHANGED vars
  BY <1>12 DEF WorldChanges, LoadTransition, vars, BorrowInv
<1> QED
  BY <1>1, <1>2, <1>3, <1>4, <1>5, <1>6, <1>7, <1>8, <1>9, <1>10, <1>11, <1>12 DEF Next

-----------------------------------------------------------------------------
(* The tickets *)

Coordinators == [source : Sources, observed : BOOLEAN, handled : BOOLEAN,
                 spent : BOOLEAN, mirror : Mirrors \cup {NoTicket}]
Batches == [source : Sources, count : Indices, prepared : BOOLEAN, consumed : BOOLEAN]
Stages == {"idle", "fenced", "culled", "next", "acquired", "replaying", "rendered"}

ScheduleTyped ==
  /\ source \in Sources /\ last \in Sources /\ index \in Nat /\ place \in Places
  /\ coord \in [Indices -> Coordinators]
  /\ tickets \in [Indices -> Tickets \cup {NoTicket}]
  /\ batch \in Batches
  /\ job \in Tickets \cup {NoTicket}
  /\ stage \in Stages

\* Tickets stem from sources already given out and no two are the same; those of
\* the running source are still to be rendered.
TicketInv ==
  /\ \A i \in Indices : tickets[i] # NoTicket =>
       /\ tickets[i].source \in 1 .. last
       /\ tickets[i].source = source => tickets[i] \in fenced
  /\ \A i, j \in Indices : i # j /\ tickets[i] # NoTicket => tickets[i] # tickets[j]

LEMMA Numbers ==
  /\ MaxPlan \in Nat /\ MaxSource \in Nat /\ NoTicket \notin Mirrors
  /\ 0 \in Indices /\ 0 \in Sources
  /\ \A n \in 0 .. MaxPlan : 1 .. n \subseteq Indices
  /\ \A s \in 1 .. MaxSource, m \in Mirrors, p \in Places :
       /\ [source |-> s, mirror |-> m, place |-> p] # NoTicket
       /\ [source |-> s, mirror |-> m, place |-> p] \in Tickets
  BY ExactMainConstants DEF Indices, Sources, Tickets

LEMMA PlanTyped ==
  ASSUME NEW c \in Coordinators, NEW s \in Sources, NEW m \in Mirrors \cup {NoTicket}
  PROVE  PlanFence(c, s, m) \in Coordinators
  BY Numbers DEF PlanFence, NewCoordinator, Coordinators

LEMMA FreshTyped == NewCoordinator \in Coordinators
  BY Numbers DEF NewCoordinator, Coordinators

LEMMA ResolveTyped ==
  ASSUME NEW c \in Coordinators, NEW s, NEW a
  PROVE  ResolveDeferred(c, s, a) \in Coordinators
<1> DEFINE spends == c.spent \/ Resolves(c, s, a)
           d == [c EXCEPT !.handled = TRUE, !.mirror = NoTicket, !.spent = spends]
<1>1. spends \in BOOLEAN
  BY DEF Resolves, Coordinators
<1> HIDE DEF spends
<1>2. d \in Coordinators
  BY <1>1 DEF Coordinators
<1>3. ResolveDeferred(c, s, a) \in {c, d}
  BY DEF ResolveDeferred, d, spends, Coordinators
<1> QED
  BY <1>2, <1>3

\* What an entry is fenced and reserved with.
LEMMA OutcomeFact ==
  ASSUME NEW o \in Outcome
  PROVE  /\ o.mirror \in Mirrors \cup {NoTicket}
         /\ o.kind = "mirror" => o.mirror \in Mirrors
  BY DEF Outcome

LEMMA ReservedFact ==
  ASSUME place \in Places, NEW s \in 1 .. MaxSource, NEW o \in Outcome
  PROVE  /\ Reserved(s, o) \in Tickets \cup {NoTicket}
         /\ Reserved(s, o) # NoTicket =>
              /\ Reserved(s, o).source = s /\ Reserved(s, o).mirror = o.mirror
              /\ o.mirror \in Mirrors
<1>1. CASE o.kind = "mirror"
  BY <1>1, OutcomeFact, Numbers DEF Reserved
<1>2. CASE o.kind # "mirror"
  BY <1>2 DEF Reserved
<1> QED
  BY <1>1, <1>2

LEMMA FencedTyped ==
  ASSUME NEW c \in Coordinators, NEW s \in Sources, NEW o, o.mirror \in Mirrors \cup {NoTicket}
  PROVE  Fenced(c, s, o) \in Coordinators
  BY PlanTyped DEF Fenced

\* The source a fence takes is new.
LEMMA NextSource ==
  ASSUME ScheduleTyped, last < MaxSource
  PROVE  last + 1 \in 1 .. MaxSource /\ last + 1 \in Sources /\ last \in Nat /\ last < last + 1
  BY Numbers DEF ScheduleTyped, Sources

\* The entry a capture runs is one of the plan.
LEMMA ReadyIndex ==
  ASSUME ScheduleTyped, EntryReady
  PROVE  index \in Indices
  BY Numbers DEF ScheduleTyped, EntryReady, Indices, Batches

\* The tickets of a step that reserves none: some are dropped, and while the
\* source runs on, those that stay are still to be rendered.
LEMMA TicketsDrop ==
  /\ TicketInv /\ ScheduleTyped
  /\ last' \in Nat /\ last <= last'
  /\ \A i \in Indices : tickets'[i] \in {tickets[i], NoTicket}
  /\ \/ source' = 0 \/ source' = last + 1
     \/ /\ source' = source
        /\ \A i \in Indices : tickets'[i] # NoTicket /\ tickets[i] \in fenced => tickets'[i] \in fenced'
  => TicketInv'
<1> SUFFICES ASSUME TicketInv, ScheduleTyped, last' \in Nat, last <= last',
                    \A i \in Indices : tickets'[i] \in {tickets[i], NoTicket},
                    \/ source' = 0 \/ source' = last + 1
                    \/ /\ source' = source
                       /\ \A i \in Indices : tickets'[i] # NoTicket /\ tickets[i] \in fenced
                                               => tickets'[i] \in fenced'
             PROVE  TicketInv'
  OBVIOUS
<1>1. last \in Nat
  BY Numbers DEF ScheduleTyped, Sources
<1>2. ASSUME NEW i \in Indices, tickets'[i] # NoTicket
      PROVE  /\ tickets'[i] = tickets[i]
             /\ tickets'[i].source \in 1 .. last'
             /\ tickets'[i].source = source' => tickets'[i] \in fenced'
  <2>1. tickets'[i] = tickets[i]
    BY <1>2
  <2>2. /\ tickets[i].source \in 1 .. last
        /\ tickets[i].source = source => tickets[i] \in fenced
    BY <1>2, <2>1 DEF TicketInv
  <2>3. tickets[i].source # 0 /\ tickets[i].source # last + 1 /\ tickets[i].source \in 1 .. last'
    BY <1>1, <2>2
  <2> QED
    BY <1>2, <2>1, <2>2, <2>3
<1>3. ASSUME NEW i \in Indices, NEW j \in Indices, i # j, tickets'[i] # NoTicket
      PROVE  tickets'[i] # tickets'[j]
  BY <1>2, <1>3 DEF TicketInv
<1> QED
  BY <1>2, <1>3 DEF TicketInv

LEMMA SingleTickets ==
  ASSUME TicketInv, ScheduleTyped, NEW o \in Outcome, FenceSingle(o)
  PROVE  TicketInv'
<1> DEFINE s == last + 1
           r == Reserved(s, o)
<1>1. s \in 1 .. MaxSource /\ last \in Nat /\ last < s
  BY NextSource DEF FenceSingle
<1>2. /\ tickets' = [tickets EXCEPT ![0] = r]
      /\ fenced' = {r} \ {NoTicket} /\ last' = s /\ source' = s
  BY DEF FenceSingle
<1>3. r # NoTicket => r.source = s
  BY <1>1, ReservedFact DEF ScheduleTyped
<1> HIDE DEF s, r
<1>4. tickets'[0] = r /\ \A i \in Indices \ {0} : tickets'[i] = tickets[i]
  BY <1>2, Numbers DEF ScheduleTyped
<1>5. \A i \in Indices : tickets[i] # NoTicket =>
        tickets[i].source \in 1 .. last /\ tickets[i].source # s /\ tickets[i].source \in 1 .. s
  BY <1>1 DEF TicketInv
<1>6. ASSUME NEW i \in Indices, tickets'[i] # NoTicket
      PROVE  /\ tickets'[i].source \in 1 .. last'
             /\ tickets'[i].source = source' => tickets'[i] \in fenced'
  <2>1. CASE i = 0
    BY <1>1, <1>2, <1>3, <1>4, <1>6, <2>1
  <2>2. CASE i # 0
    BY <1>2, <1>4, <1>5, <1>6, <2>2
  <2> QED
    BY <2>1, <2>2
<1>7. ASSUME NEW i \in Indices, NEW j \in Indices, i # j, tickets'[i] # NoTicket
      PROVE  tickets'[i] # tickets'[j]
  <2>1. CASE i = 0
    BY <1>3, <1>4, <1>5, <1>7, <2>1
  <2>2. CASE j = 0
    BY <1>3, <1>4, <1>5, <1>7, <2>2
  <2>3. CASE i # 0 /\ j # 0
    BY <1>4, <1>7, <2>3 DEF TicketInv
  <2> QED
    BY <2>1, <2>2, <2>3
<1> QED
  BY <1>6, <1>7 DEF TicketInv

LEMMA BatchTickets ==
  ASSUME TicketInv, ScheduleTyped, NEW n \in 0 .. MaxPlan, NEW o \in [1 .. n -> Outcome],
         FenceBatch(n, o)
  PROVE  TicketInv'
<1> DEFINE s == last + 1
           R(i) == Reserved(s, o[i])
<1>1. s \in 1 .. MaxSource /\ last \in Nat
  BY NextSource DEF FenceBatch
<1>2. /\ tickets' = [i \in Indices |-> IF i \in 1 .. n THEN R(i) ELSE NoTicket]
      /\ fenced' = {R(i) : i \in 1 .. n} \ {NoTicket} /\ last' = s /\ source' = s
  BY DEF FenceBatch
<1>3. ASSUME NEW i \in 1 .. n
      PROVE  R(i) # NoTicket => R(i).source = s /\ R(i).mirror = o[i].mirror /\ o[i].mirror \in Mirrors
  <2>1. o[i] \in Outcome
    OBVIOUS
  <2> QED
    BY <1>1, <2>1, ReservedFact DEF ScheduleTyped
<1>4. ASSUME NEW i \in 1 .. n, NEW j \in 1 .. n, i # j, R(i) # NoTicket
      PROVE  R(i) # R(j)
  <2>1. Feasible(o) /\ DOMAIN o = 1 .. n
    BY DEF FenceBatch
  <2>2. \A k, l \in 1 .. n : k < l /\ o[k].mirror # NoTicket => o[k].mirror # o[l].mirror
    BY <2>1 DEF Feasible
  <2>3. SUFFICES ASSUME R(i) = R(j) PROVE FALSE
    OBVIOUS
  <2>4. o[i].mirror = o[j].mirror /\ o[i].mirror # NoTicket
    BY <1>3, <1>4, <2>3, Numbers
  <2>5. i < j \/ j < i
    BY <1>4
  <2> QED
    BY <2>2, <2>4, <2>5
<1> HIDE DEF s, R
<1>5. \A i \in Indices : tickets'[i] # NoTicket => i \in 1 .. n /\ tickets'[i] = R(i)
  BY <1>2
<1>6. ASSUME NEW i \in Indices, tickets'[i] # NoTicket
      PROVE  /\ tickets'[i].source \in 1 .. last'
             /\ tickets'[i].source = source' => tickets'[i] \in fenced'
  <2>1. i \in 1 .. n /\ tickets'[i] = R(i)
    BY <1>5, <1>6
  <2>2. R(i).source = s
    BY <1>3, <1>6, <2>1
  <2> QED
    BY <1>1, <1>2, <1>6, <2>1, <2>2
<1>7. ASSUME NEW i \in Indices, NEW j \in Indices, i # j, tickets'[i] # NoTicket
      PROVE  tickets'[i] # tickets'[j]
  BY <1>4, <1>5, <1>7
<1> QED
  BY <1>6, <1>7 DEF TicketInv

\* An entry's ticket is taken once.
LEMMA ConsumeTickets ==
  ASSUME TicketInv, ScheduleTyped, EntryReady,
         tickets' = [tickets EXCEPT ![index] = NoTicket],
         last' = last, source' = source,
         fenced' = fenced \/ (fenced' = fenced \ {Ticket} /\ Ticket # NoTicket)
  PROVE  TicketInv'
<1>1. index \in Indices /\ last \in Nat
  BY ReadyIndex, Numbers DEF ScheduleTyped, Sources
<1>2. /\ tickets'[index] = NoTicket
      /\ \A i \in Indices \ {index} : tickets'[i] = tickets[i]
  BY <1>1 DEF ScheduleTyped
<1>3. ASSUME NEW i \in Indices, tickets'[i] # NoTicket, tickets[i] \in fenced
      PROVE  tickets'[i] \in fenced'
  <2>1. i # index /\ tickets'[i] = tickets[i]
    BY <1>2, <1>3
  <2>2. Ticket # NoTicket => tickets[i] # Ticket
    BY <1>1, <2>1 DEF TicketInv, Ticket
  <2> QED
    BY <1>3, <2>1, <2>2
<1>4. \A i \in Indices : tickets'[i] \in {tickets[i], NoTicket}
  BY <1>2
<1> QED
  BY <1>1, <1>3, <1>4, TicketsDrop

LEMMA TicketStep ==
  TicketInv /\ ScheduleTyped /\ [Next]_vars => TicketInv'
<1> SUFFICES ASSUME TicketInv, ScheduleTyped, [Next]_vars PROVE TicketInv'
  OBVIOUS
<1>a. last \in Nat /\ last + 1 \in Nat /\ last <= last /\ last <= last + 1
  BY Numbers DEF ScheduleTyped, Sources
<1>b. ASSUME tickets' = tickets, source' \in {0, source}, last' = last, fenced' = fenced
      PROVE  TicketInv'
  BY <1>a, <1>b, TicketsDrop
<1>1. ASSUME NEW o \in Outcome, FenceSingle(o) PROVE TicketInv'
  BY <1>1, SingleTickets
<1>2. ASSUME NEW n \in 0 .. MaxPlan, NEW o \in [1 .. n -> Outcome], FenceBatch(n, o) PROVE TicketInv'
  BY <1>2, BatchTickets
<1>3. CASE FenceSuspended \/ Unfenced
  <2>1. /\ last' = last + 1 /\ source' = last + 1
        /\ \A i \in Indices : tickets'[i] \in {tickets[i], NoTicket}
    BY <1>3, Numbers DEF FenceSuspended, Unfenced, schedule, ScheduleTyped
  <2> QED
    BY <1>a, <2>1, TicketsDrop
<1>4. CASE EntryUnarmed \/ EntrySkipped \/ EntryAcquires
  <2>1. /\ EntryReady /\ tickets' = [tickets EXCEPT ![index] = NoTicket]
        /\ last' = last /\ source' = source
    BY <1>4 DEF EntryUnarmed, EntrySkipped, EntryAcquires, ConsumeEntry
  <2>2. fenced' = fenced \/ (fenced' = fenced \ {Ticket} /\ Ticket # NoTicket)
    BY <1>4 DEF EntryUnarmed, EntrySkipped, EntryAcquires, Decided
  <2> QED
    BY <2>1, <2>2, ConsumeTickets
<1>5. ASSUME NEW bad \in SUBSET Entries, NEW stuck \in SUBSET bad, Releasing(bad, stuck)
      PROVE  TicketInv'
  <2>1. tickets' = tickets /\ source' \in {0, source} /\ last' = last /\ fenced' = fenced
    BY <1>5 DEF Releasing, FinalizeMainCulling, DerivedFails, MainWorldReturnsUnborrowed, Abandons,
         Completes, CapturesEnd, CallbackFaults, Return, NextEntry, untouched, schedule
  <2> QED
    BY <1>b, <2>1
<1>6. CASE MainWorldUnwinds \/ MainWorldReturns \/ PreparationFails \/ ReplaysPlain \/ Publishes
           \/ DoesNotPublish \/ OtherThreadFinalizes \/ WorldChanges \/ UNCHANGED vars
  <2>1. tickets' = tickets /\ source' \in {0, source} /\ last' = last /\ fenced' = fenced
    BY <1>6 DEF MainWorldUnwinds, MainWorldReturns, PreparationFails, ReplaysPlain, Publishes,
         DoesNotPublish, OtherThreadFinalizes, WorldChanges, vars, untouched, schedule
  <2> QED
    BY <1>b, <2>1
<1>7. ASSUME NEW covered, ReplaysDerived(covered) PROVE TicketInv'
  BY <1>7, <1>b DEF ReplaysDerived, untouched, schedule
<1>8. ASSUME LoadTransition \/ \E on \in BOOLEAN : ProductCommitted(on) PROVE TicketInv'
  <2>1. /\ last' = last /\ source' = source /\ fenced' = fenced
        /\ \A i \in Indices : tickets'[i] = NoTicket
    BY <1>8 DEF LoadTransition, ProductCommitted, ResetSchedule, Cleared
  <2> QED
    BY <1>a, <2>1, TicketsDrop
<1> QED
  BY <1>1, <1>2, <1>3, <1>4, <1>5, <1>6, <1>7, <1>8 DEF Next, Fence

-----------------------------------------------------------------------------
(* Types *)

LEMMA CoordTyped ==
  ASSUME ScheduleTyped, NEW d, d \in Coordinators, NEW i
  PROVE  [coord EXCEPT ![i] = d] \in [Indices -> Coordinators]
  BY DEF ScheduleTyped

LEMMA TicketsTyped ==
  ASSUME ScheduleTyped, NEW d \in Tickets \cup {NoTicket}, NEW i
  PROVE  [tickets EXCEPT ![i] = d] \in [Indices -> Tickets \cup {NoTicket}]
  BY DEF ScheduleTyped

LEMMA FencesTyped ==
  ASSUME ScheduleTyped, Fence
  PROVE  ScheduleTyped'
<1>1. ASSUME NEW o \in Outcome, FenceSingle(o) PROVE ScheduleTyped'
  <2> DEFINE s == last + 1
             close == [o EXCEPT !.kind = IF @ = "early" THEN "none" ELSE @]
             d == Fenced(coord[0], s, close)
             r == Reserved(s, o)
  <2>1. /\ last' = s /\ source' = s /\ stage' = "fenced"
        /\ coord' = [coord EXCEPT ![0] = Fenced(@, s, close)]
        /\ tickets' = [tickets EXCEPT ![0] = r]
        /\ batch' = batch /\ index' = index /\ job' = job /\ place' = place
    BY <1>1 DEF FenceSingle, world
  <2>2. s \in 1 .. MaxSource /\ s \in Sources
    BY <1>1, NextSource DEF FenceSingle
  <2>3. close.mirror \in Mirrors \cup {NoTicket}
    BY OutcomeFact DEF Outcome
  <2> HIDE DEF close, s
  <2>4. coord[0] \in Coordinators
    BY Numbers DEF ScheduleTyped
  <2>5. d \in Coordinators
    BY <2>2, <2>3, <2>4, FencedTyped
  <2>6. r \in Tickets \cup {NoTicket}
    BY <2>2, ReservedFact DEF ScheduleTyped
  <2>8. coord' = [coord EXCEPT ![0] = d]
    BY <2>1
  <2> HIDE DEF d, r
  <2>7. coord' \in [Indices -> Coordinators] /\ tickets' \in [Indices -> Tickets \cup {NoTicket}]
    <3>1. coord' \in [Indices -> Coordinators]
      BY <2>5, <2>8 DEF ScheduleTyped
    <3>2. tickets' \in [Indices -> Tickets \cup {NoTicket}]
      BY <2>1, <2>6 DEF ScheduleTyped
    <3> QED
      BY <3>1, <3>2
  <2> QED
    BY <2>1, <2>2, <2>7 DEF ScheduleTyped, Stages
<1>2. ASSUME NEW n \in 0 .. MaxPlan, NEW o \in [1 .. n -> Outcome], FenceBatch(n, o) PROVE ScheduleTyped'
  <2> DEFINE s == last + 1
  <2>1. /\ last' = s /\ source' = s /\ stage' = "fenced"
        /\ coord' = [i \in Indices |->
             IF i \in 1 .. n THEN Fenced(NewCoordinator, s, o[i])
             ELSE IF i = 0 THEN coord[0] ELSE NewCoordinator]
        /\ tickets' = [i \in Indices |-> IF i \in 1 .. n THEN Reserved(s, o[i]) ELSE NoTicket]
        /\ batch' = [source |-> s, count |-> n, prepared |-> n > 0, consumed |-> FALSE]
        /\ index' = index /\ job' = job /\ place' = place
    BY <1>2 DEF FenceBatch, world
  <2>2. s \in 1 .. MaxSource /\ s \in Sources
    BY <1>2, NextSource DEF FenceBatch
  <2> HIDE DEF s
  <2>3. \A i \in 1 .. n : o[i].mirror \in Mirrors \cup {NoTicket}
    BY OutcomeFact
  <2>4. \A i \in 1 .. n : Fenced(NewCoordinator, s, o[i]) \in Coordinators
    BY <2>2, <2>3, FreshTyped, FencedTyped
  <2>5. \A i \in 1 .. n : Reserved(s, o[i]) \in Tickets \cup {NoTicket}
    BY <2>2, ReservedFact DEF ScheduleTyped
  <2>6. coord[0] \in Coordinators
    BY Numbers DEF ScheduleTyped
  <2>7. coord' \in [Indices -> Coordinators] /\ tickets' \in [Indices -> Tickets \cup {NoTicket}]
    BY <2>1, <2>4, <2>5, <2>6, FreshTyped
  <2>8. batch' \in Batches
    <3>1. (n > 0) \in BOOLEAN /\ n \in Indices
      BY DEF Indices
    <3> QED
      BY <2>1, <2>2, <3>1 DEF Batches
  <2> QED
    BY <2>1, <2>2, <2>7, <2>8 DEF ScheduleTyped, Stages
<1>3. CASE FenceSuspended
  <2>1. last + 1 \in Sources
    BY <1>3, NextSource DEF FenceSuspended
  <2>2. [tickets EXCEPT ![0] = NoTicket] \in [Indices -> Tickets \cup {NoTicket}]
    BY TicketsTyped
  <2> QED
    BY <1>3, <2>1, <2>2 DEF FenceSuspended, ScheduleTyped, Stages, world
<1>4. CASE Unfenced
  <2>1. last + 1 \in Sources
    BY <1>4, NextSource DEF Unfenced
  <2> QED
    BY <1>4, <2>1 DEF Unfenced, ScheduleTyped, Stages, world, schedule
<1> QED
  BY <1>1, <1>2, <1>3, <1>4 DEF Fence

LEMMA EntriesTyped ==
  ASSUME ScheduleTyped, EntryUnarmed \/ EntrySkipped \/ EntryAcquires
  PROVE  ScheduleTyped'
<1>1. EntryReady /\ index \in Indices
  BY ReadyIndex DEF EntryUnarmed, EntrySkipped, EntryAcquires
<1>2. /\ Ticket \in Tickets \cup {NoTicket} /\ coord[index] \in Coordinators
      /\ index \in Nat /\ index + 1 \in Nat /\ MaxPlan + 1 \in Nat
  BY <1>1, Numbers DEF ScheduleTyped, Ticket
<1>3. [tickets EXCEPT ![index] = NoTicket] \in [Indices -> Tickets \cup {NoTicket}]
  BY TicketsTyped
<1>4. CASE EntryUnarmed
  BY <1>2, <1>3, <1>4 DEF EntryUnarmed, ScheduleTyped, world
<1>5. CASE EntrySkipped \/ EntryAcquires
  <2> DEFINE d == ResolveDeferred(coord[index], source, Active(Armed))
  <2>1. /\ tickets' = [tickets EXCEPT ![index] = NoTicket]
        /\ coord' \in {coord, [coord EXCEPT ![index] = d]} /\ batch' = batch
    BY <1>5 DEF EntrySkipped, EntryAcquires, ConsumeEntry
  <2>2. d \in Coordinators
    BY <1>2, ResolveTyped
  <2> HIDE DEF d
  <2>3. coord' \in [Indices -> Coordinators]
    BY <2>1, <2>2, CoordTyped DEF ScheduleTyped
  <2>4. index' \in Nat /\ job' \in Tickets \cup {NoTicket} /\ stage' \in Stages
    BY <1>2, <1>5 DEF EntrySkipped, EntryAcquires, ScheduleTyped, Stages
  <2>5. source' = source /\ last' = last /\ place' = place
    BY <1>5 DEF EntrySkipped, EntryAcquires, world
  <2> QED
    BY <1>3, <2>1, <2>3, <2>4, <2>5 DEF ScheduleTyped
<1> QED
  BY <1>4, <1>5

LEMMA TypedStep ==
  ScheduleTyped /\ [Next]_vars => ScheduleTyped'
<1> SUFFICES ASSUME ScheduleTyped, [Next]_vars PROVE ScheduleTyped'
  OBVIOUS
<1>a. index \in Nat /\ index + 1 \in Nat /\ MaxPlan + 1 \in Nat /\ 1 \in Nat /\ 0 \in Nat /\ 0 \in Sources
  BY Numbers DEF ScheduleTyped
\* The schedule is left alone, and the invocation goes on or is over.
<1>b. ASSUME coord' = coord, tickets' = tickets, last' = last, source' \in {0, source},
             batch' = batch, place' \in Places, index' \in Nat,
             job' \in {job, NoTicket}, stage' \in Stages
      PROVE  ScheduleTyped'
  BY <1>a, <1>b DEF ScheduleTyped
<1>1. CASE Fence
  BY <1>1, FencesTyped
<1>2. CASE EntryUnarmed \/ EntrySkipped \/ EntryAcquires
  BY <1>2, EntriesTyped
<1>3. CASE MainWorldReturns
  <2>1. batch' \in Batches
    BY <1>3 DEF MainWorldReturns, ScheduleTyped, Batches
  <2>2. index' \in Nat /\ stage' \in Stages
    BY <1>3, <1>a DEF MainWorldReturns, Stages
  <2> QED
    BY <1>3, <2>1, <2>2 DEF MainWorldReturns, ScheduleTyped, world
<1>4. ASSUME NEW bad \in SUBSET Entries, NEW stuck \in SUBSET bad, Releasing(bad, stuck)
      PROVE  ScheduleTyped'
  <2>1. ASSUME NEW c, NEW u, FinalizeMainCulling(c, u, bad, stuck) \/ DerivedFails(c, u, bad, stuck)
        PROVE  ScheduleTyped'
    BY <1>a, <1>b, <2>1 DEF FinalizeMainCulling, DerivedFails, NextEntry, untouched, schedule, world, ScheduleTyped, Stages
  <2>2. CASE MainWorldReturnsUnborrowed(bad, stuck) \/ CapturesEnd(bad, stuck) \/ CallbackFaults(bad, stuck)
    BY <1>a, <1>b, <2>2 DEF MainWorldReturnsUnborrowed, CapturesEnd, CallbackFaults, Return, schedule, world, ScheduleTyped, Stages
  <2>3. ASSUME NEW ok, Abandons(ok, bad, stuck) PROVE ScheduleTyped'
    BY <1>a, <1>b, <2>3 DEF Abandons, NextEntry, untouched, schedule, world, ScheduleTyped, Stages
  <2>4. ASSUME NEW ok, Completes(ok, bad, stuck) PROVE ScheduleTyped'
    <3>1. stage' \in Stages /\ index' \in Nat /\ job' \in {job, NoTicket}
      BY <1>a, <2>4 DEF Completes, NextEntry, Stages
    <3>2. /\ coord' = coord /\ tickets' = tickets /\ last' = last /\ source' = source
          /\ batch' = batch /\ place' = place
      BY <2>4 DEF Completes, untouched, schedule, world
    <3> QED
      BY <1>b, <3>1, <3>2 DEF ScheduleTyped
  <2> QED
    BY <1>4, <2>1, <2>2, <2>3, <2>4 DEF Releasing
<1>5. CASE MainWorldUnwinds \/ PreparationFails \/ ReplaysPlain \/ Publishes \/ DoesNotPublish
           \/ OtherThreadFinalizes
  <2>1. /\ coord' = coord /\ tickets' = tickets /\ last' = last /\ source' \in {0, source}
        /\ batch' = batch /\ place' = place
    BY <1>5 DEF MainWorldUnwinds, PreparationFails, ReplaysPlain, Publishes, DoesNotPublish,
         OtherThreadFinalizes, untouched, schedule, world
  <2>2. index' \in Nat /\ job' \in {job, NoTicket} /\ stage' \in Stages
    BY <1>5, <1>a DEF MainWorldUnwinds, PreparationFails, ReplaysPlain, Publishes, DoesNotPublish,
         OtherThreadFinalizes, NextEntry, ScheduleTyped, Stages
  <2> QED
    BY <1>b, <2>1, <2>2 DEF ScheduleTyped
<1>6. CASE WorldChanges
  BY <1>6, <1>b DEF WorldChanges, schedule, ScheduleTyped
<1>7. ASSUME NEW covered, ReplaysDerived(covered) PROVE ScheduleTyped'
  BY <1>7, <1>a, <1>b DEF ReplaysDerived, untouched, schedule, world, ScheduleTyped, Stages
<1>8. ASSUME LoadTransition \/ \E on \in BOOLEAN : ProductCommitted(on) PROVE ScheduleTyped'
  <2>1. ResetSchedule
    BY <1>8 DEF LoadTransition, ProductCommitted
  <2>2. coord' \in [Indices -> Coordinators] /\ tickets' \in [Indices -> Tickets \cup {NoTicket}]
    BY <2>1, FreshTyped DEF ResetSchedule, Cleared
  <2>3. batch' \in Batches
    BY <2>1, Numbers DEF ResetSchedule, NoBatch, Batches
  <2> QED
    BY <1>8, <2>2, <2>3 DEF LoadTransition, ProductCommitted, ScheduleTyped, world
<1>9. CASE UNCHANGED vars
  BY <1>9 DEF vars, ScheduleTyped
<1> QED
  BY <1>1, <1>2, <1>3, <1>4, <1>5, <1>6, <1>7, <1>8, <1>9 DEF Next

-----------------------------------------------------------------------------
(* The capture that is rendered *)

\* It renders the running source's ticket, and is published only proven.
JobInv ==
  /\ stage \in {"acquired", "replaying", "rendered"} => job.source = source
  /\ stage = "rendered" => proof = job

LEMMA JobStep ==
  JobInv /\ BorrowInv /\ [Next]_vars => JobInv'
<1> SUFFICES ASSUME JobInv, BorrowInv, [Next]_vars PROVE JobInv'
  OBVIOUS
<1>b. ASSUME stage' \notin {"acquired", "replaying", "rendered"} PROVE JobInv'
  BY <1>b DEF JobInv
<1>c. ASSUME stage' = stage, job' = job, source' = source, proof' = proof PROVE JobInv'
  BY <1>c DEF JobInv
<1>1. CASE Fence \/ MainWorldUnwinds \/ MainWorldReturns \/ PreparationFails \/ Publishes \/ DoesNotPublish
  <2>1. stage' \in {"fenced", "idle", "next"}
    BY <1>1 DEF Fence, FenceSingle, FenceBatch, FenceSuspended, Unfenced, MainWorldUnwinds,
         MainWorldReturns, PreparationFails, Publishes, DoesNotPublish, NextEntry
  <2> QED
    BY <1>b, <2>1
<1>2. CASE EntryUnarmed \/ EntrySkipped
  <2>1. stage' = "next"
    BY <1>2 DEF EntryUnarmed, EntrySkipped, EntryReady
  <2> QED
    BY <1>b, <2>1
<1>3. CASE EntryAcquires
  BY <1>3 DEF EntryAcquires, Decided, JobInv
<1>4. ASSUME NEW bad \in SUBSET Entries, NEW stuck \in SUBSET bad, Releasing(bad, stuck)
      PROVE  JobInv'
  <2>1. ASSUME NEW ok \in BOOLEAN, Completes(ok, bad, stuck) PROVE JobInv'
    <3> DEFINE c == CompleteReplay(borrow, ok, bad, stuck)
    <3>1. c.ready => ok
      BY CompleteFact DEF BorrowInv
    <3>2. /\ borrow' = c /\ stage = "replaying" /\ source' = source
          /\ proof' = IF ok THEN job ELSE NoTicket
          /\ IF borrow'.ready THEN stage' = "rendered" /\ job' = job ELSE stage' = "next"
      BY <2>1 DEF Completes, NextEntry, untouched
    <3> HIDE DEF c
    <3> QED
      BY <3>1, <3>2 DEF JobInv
  <2>2. ASSUME ~\E ok \in BOOLEAN : Completes(ok, bad, stuck) PROVE JobInv'
    <3>1. stage' \in {"culled", "next", "idle"}
      BY <1>4, <2>2 DEF Releasing, FinalizeMainCulling, DerivedFails, MainWorldReturnsUnborrowed,
           Abandons, CapturesEnd, CallbackFaults, Return, NextEntry
    <3> QED
      BY <1>b, <3>1
  <2> QED
    BY <2>1, <2>2
<1>5. CASE ReplaysPlain \/ \E covered \in SUBSET Entries : ReplaysDerived(covered)
  <2>1. stage = "acquired" /\ stage' = "replaying" /\ job' = job /\ source' = source
    BY <1>5 DEF ReplaysPlain, ReplaysDerived, untouched
  <2> QED
    BY <2>1 DEF JobInv
<1>6. CASE OtherThreadFinalizes \/ WorldChanges \/ LoadTransition \/ UNCHANGED vars
  BY <1>6, <1>c DEF OtherThreadFinalizes, WorldChanges, LoadTransition, vars
<1>7. ASSUME NEW on, ProductCommitted(on) PROVE JobInv'
  BY <1>7, <1>c DEF ProductCommitted
<1> QED
  BY <1>1, <1>2, <1>3, <1>4, <1>5, <1>6, <1>7 DEF Next

-----------------------------------------------------------------------------
(* What the captures promise *)

ExactInv == ScheduleTyped /\ BorrowInv /\ TicketInv /\ JobInv

LEMMA ExactStarts == Init => ExactInv
<1> SUFFICES ASSUME Init PROVE ExactInv
  OBVIOUS
<1>1. ScheduleTyped
  BY Numbers, FreshTyped
     DEF Init, ScheduleTyped, Cleared, NoBatch, Batches, Stages
<1>2. InitialBorrow \in Borrows
  BY DEF InitialBorrow, Borrows
<1>3. BorrowInv
  <2>1. Sound(borrow)
    BY <1>2, CountFact DEF Init, InitialBorrow, Sound, Balanced, LossLatched
  <2> QED
    BY <2>1 DEF Init, InitialBorrow, BorrowInv
<1>4. TicketInv /\ JobInv
  BY DEF Init, TicketInv, JobInv, Cleared
<1> QED
  BY <1>1, <1>3, <1>4 DEF ExactInv

\* The invariant of every invocation, whatever was cut short before it.
THEOREM ExactInvariant == Spec => []ExactInv
<1>1. ExactInv /\ [Next]_vars => ExactInv'
  BY TypedStep, BorrowStep, TicketStep, JobStep DEF ExactInv
<1> QED
  BY <1>1, ExactStarts, PTL DEF Spec

LEMMA AccountedFact == ExactInv => ReferencesAccounted
  BY DEF ExactInv, BorrowInv, Sound, Balanced, LossLatched, ReferencesAccounted

\* A capture starts in no other way.
LEMMA OnlyAcquires ==
  ASSUME [Next]_vars, stage' = "acquired", stage # "acquired"
  PROVE  EntryAcquires
<1>1. CASE Fence \/ MainWorldUnwinds \/ MainWorldReturns \/ PreparationFails \/ Publishes \/ DoesNotPublish
  BY <1>1 DEF Fence, FenceSingle, FenceBatch, FenceSuspended, Unfenced, MainWorldUnwinds,
       MainWorldReturns, PreparationFails, Publishes, DoesNotPublish, NextEntry
<1>2. CASE EntryUnarmed \/ EntrySkipped
  BY <1>2 DEF EntryUnarmed, EntrySkipped
<1>3. ASSUME NEW bad, NEW stuck, Releasing(bad, stuck) PROVE FALSE
  BY <1>3 DEF Releasing, FinalizeMainCulling, DerivedFails, MainWorldReturnsUnborrowed,
       Abandons, Completes, CapturesEnd, CallbackFaults, Return, NextEntry
<1>4. CASE ReplaysPlain \/ \E covered \in SUBSET Entries : ReplaysDerived(covered)
  BY <1>4 DEF ReplaysPlain, ReplaysDerived
<1>5. CASE OtherThreadFinalizes \/ WorldChanges \/ LoadTransition \/ UNCHANGED vars
  BY <1>5 DEF OtherThreadFinalizes, WorldChanges, LoadTransition, vars
<1>6. ASSUME NEW on, ProductCommitted(on) PROVE FALSE
  BY <1>6 DEF ProductCommitted
<1> QED
  BY <1>1, <1>2, <1>3, <1>4, <1>5, <1>6 DEF Next

\* Nor is anything published in another way.
LEMMA OnlyPublishes ==
  ASSUME [Next]_vars, published' # published
  PROVE  Publishes
<1>1. CASE Fence \/ MainWorldUnwinds \/ MainWorldReturns \/ PreparationFails \/ DoesNotPublish
  BY <1>1 DEF Fence, FenceSingle, FenceBatch, FenceSuspended, Unfenced, MainWorldUnwinds,
       MainWorldReturns, PreparationFails, DoesNotPublish
<1>2. CASE EntryUnarmed \/ EntrySkipped \/ EntryAcquires
  BY <1>2 DEF EntryUnarmed, EntrySkipped, EntryAcquires
<1>3. ASSUME NEW bad, NEW stuck, Releasing(bad, stuck) PROVE FALSE
  BY <1>3 DEF Releasing, FinalizeMainCulling, DerivedFails, MainWorldReturnsUnborrowed,
       Abandons, Completes, CapturesEnd, CallbackFaults, Return
<1>4. CASE ReplaysPlain \/ \E covered \in SUBSET Entries : ReplaysDerived(covered)
  BY <1>4 DEF ReplaysPlain, ReplaysDerived
<1>5. CASE OtherThreadFinalizes \/ WorldChanges \/ LoadTransition \/ UNCHANGED vars
  BY <1>5 DEF OtherThreadFinalizes, WorldChanges, LoadTransition, vars
<1>6. ASSUME NEW on, ProductCommitted(on) PROVE FALSE
  BY <1>6 DEF ProductCommitted
<1> QED
  BY <1>1, <1>2, <1>3, <1>4, <1>5, <1>6 DEF Next

OwnTicketStep ==
  /\ stage' = "acquired" /\ stage # "acquired" =>
       job' \in fenced /\ job'.source = source /\ job'.place = place
  /\ published' # published =>
       published'.ticket = published'.proof /\ published'.ticket.source = source
CleanStep == stage' = "acquired" /\ stage # "acquired" => ~dirty /\ ~borrow.faulted

LEMMA OwnTicketFact == ExactInv /\ [Next]_vars => [OwnTicketStep]_vars
<1> SUFFICES ASSUME ExactInv, [Next]_vars PROVE OwnTicketStep
  OBVIOUS
<1>1. ASSUME stage' = "acquired", stage # "acquired"
      PROVE  job' \in fenced /\ job'.source = source /\ job'.place = place
  <2>1. EntryAcquires
    BY <1>1, OnlyAcquires
  <2>2. index \in Indices
    BY <2>1, ReadyIndex DEF EntryAcquires, ExactInv
  <2>3. /\ job' = tickets[index] /\ tickets[index] # NoTicket /\ tickets[index].source = source
        /\ tickets[index].place = place
    BY <2>1 DEF EntryAcquires, Decided, Eligible, Ticket
  <2> QED
    BY <2>2, <2>3 DEF ExactInv, TicketInv
<1>2. ASSUME published' # published
      PROVE  published'.ticket = published'.proof /\ published'.ticket.source = source
  <2>1. Publishes
    BY <1>2, OnlyPublishes
  <2> QED
    BY <2>1 DEF Publishes, ExactInv, JobInv
<1> QED
  BY <1>1, <1>2 DEF OwnTicketStep

LEMMA CleanFact == ExactInv /\ [Next]_vars => [CleanStep]_vars
<1> SUFFICES ASSUME ExactInv, [Next]_vars, stage' = "acquired", stage # "acquired"
             PROVE  ~dirty /\ ~borrow.faulted
  BY DEF CleanStep
<1>1. EntryAcquires
  BY OnlyAcquires
<1>2. stage = "next" /\ Active(Armed)
  BY <1>1 DEF EntryAcquires, EntryReady, Eligible
<1>3. Sound(Armed) /\ Armed.faulted = borrow.faulted
  BY ArmedFact DEF ExactInv, BorrowInv
<1>4. ~borrow.faulted
  BY <1>2, <1>3 DEF Active, Sound, Balanced
<1> QED
  BY <1>2, <1>4 DEF ExactInv, BorrowInv

\* Coordinators, tickets and the borrow keep their types in every invocation.
THEOREM ExactTyped == Spec => []Typed
<1>1. ExactInv => Typed
  BY DEF ExactInv, ScheduleTyped, BorrowInv, Sound, Balanced, Typed, Coordinators, Stages
<1> QED
  BY <1>1, ExactInvariant, PTL

\* Every native reference the module holds is in exactly one slot or was lost to
\* a fault that quarantined the module (MirrorMainSceneListBorrow.cpp).
THEOREM ReferencesAccountedHolds == Spec => []ReferencesAccounted
  BY ExactInvariant, AccountedFact, PTL

\* A replay renders a ticket its own fence reserved, each once and at the
\* player's place, and only a proven capture of the source is published.
THEOREM OwnTicketHolds == Spec => ReplaysOwnTicketOnce
<1>1. Spec => [][OwnTicketStep]_vars
  BY ExactInvariant, OwnTicketFact, PTL DEF Spec
<1> QED
  BY <1>1, PTL DEF OwnTicketStep, ReplaysOwnTicketOnce

\* No native replay starts over renderer state an earlier one left uncertain.
THEOREM CleanStateHolds == Spec => ReplaysOverCleanState
<1>1. Spec => [][CleanStep]_vars
  BY ExactInvariant, CleanFact, PTL DEF Spec
<1> QED
  BY <1>1, PTL DEF CleanStep, ReplaysOverCleanState
=============================================================================
