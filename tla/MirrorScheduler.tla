--------------------------- MODULE MirrorScheduler ---------------------------
(***************************************************************************)
(* The slots of the standing mirrors and the choice of what one source     *)
(* frame captures (src/src/MultiMirrorPolicy.h, Scheduler), driven as the  *)
(* scene-list fence of src/src/SecondView.cpp drives it.  A slot keeps the *)
(* publication and the admission history of its mirror, so a mirror that   *)
(* stays visible must keep its slot.                                       *)
(*                                                                         *)
(* Two abstractions: the 64-bit source sequence is whether the current     *)
(* source is above lastSource_, and demand_ with its flag, which every     *)
(* fence sets again before it reads them, is the set of admitted mirrors   *)
(* they let through.                                                       *)
(***************************************************************************)
EXTENDS Integers, FiniteSets, Sequences

CONSTANTS Identities, \* the valid identities: a form and a generation above 0
          Modes,      \* values g_multiMirrorEveryFrameEnabled takes
          Vacant, Hand

MaxSlots == Cardinality({c.form : c \in Identities})
Captures == [slot : 0 .. MaxSlots - 1, mirror : Identities] \cup {Hand}

ASSUME SchedulerConstants ==
  /\ IsFiniteSet(Identities)
  /\ Identities \subseteq [form : Nat \ {0}, gen : Nat \ {0}]
  /\ Modes \subseteq BOOLEAN
  /\ Vacant \notin Identities
  /\ Hand \notin [slot : Nat, mirror : Identities]

VARIABLES
  slots,    \* slots_: an identity or Vacant, slot k is slots[k + 1]
  eligible, \* the admitted mirrors with HasCaptureDemand at the last fence
  next,     \* next_
  fresh,    \* the current source is above lastSource_
  everyFrame, \* g_multiMirrorEveryFrameEnabled, set when the driver is installed
  plan      \* what the last fence chose, in order

schedulerVars == <<slots, eligible, next, fresh, everyFrame, plan>>

SchedulerInit ==
  /\ slots = << >>
  /\ eligible = {}
  /\ next = 0
  /\ fresh = TRUE
  /\ everyFrame \in Modes
  /\ plan = << >>

Occupied(list) == {i \in DOMAIN list : list[i] # Vacant}
Admitted == {slots[i] : i \in Occupied(slots)}

-----------------------------------------------------------------------------
\* Duplicates of a form are dropped, the greatest generation stays.
Newest(ranked) ==
  {c \in ranked : \A d \in ranked : d.form = c.form => d.gen <= c.gen}

\* The number of the set with k smaller ones.
Nth(S, k) == CHOOSE x \in S : Cardinality({y \in S : y < x}) = k

Trimmed(list) ==
  SubSeq(list, 1, CHOOSE n \in 0 .. Len(list) :
    /\ \A i \in Occupied(list) : i <= n
    /\ n # 0 => list[n] # Vacant)

\* Mutant: the admitted mirrors are laid out anew, in form order.
Compacted(ranked) ==
  LET admitted == Newest(ranked)
  IN [i \in 1 .. Cardinality(admitted) |->
       CHOOSE c \in admitted :
         Cardinality({d \in admitted : d.form < c.form}) = i - 1]

\* Reconcile: retained identities stay where they are; new ones, in form
\* order, take the first empty slots; empty slots at the end are dropped.
ReconciledSlots(ranked) ==
  LET admitted == Newest(ranked)
      kept == {i \in DOMAIN slots : slots[i] \in admitted}
      added == admitted \ {slots[i] : i \in kept}
      width == IF Len(slots) > Cardinality(admitted)
               THEN Len(slots) ELSE Cardinality(admitted)
      empty == (1 .. width) \ kept
      Rank(e) == Cardinality({x \in empty : x < e})
      forms == {c.form : c \in added}
  IN  Trimmed([i \in 1 .. width |->
        IF i \in kept THEN slots[i]
        ELSE IF Rank(i) < Cardinality(forms)
             THEN CHOOSE c \in added : c.form = Nth(forms, Rank(i))
             ELSE Vacant])

Demanded(c) == c \in eligible'

\* SetCaptureDemand and HasCaptureDemand, of whatever the fleet asks for: a
\* demand that is off, or that could not be stored, filters nothing.
SetDemand(filters) ==
  eligible' \in IF filters THEN SUBSET Admitted' ELSE {Admitted'}

-----------------------------------------------------------------------------
\* Mutant: the search restarts at slot 0 for every source.
ChooseFromStart(hand) ==
  LET n == Len(slots')
      found == {i \in 0 .. n : IF i = n THEN hand ELSE Demanded(slots'[i + 1])}
      pick == CHOOSE i \in found : \A j \in found : i <= j
  IN  /\ plan' = CASE found = {} -> << >>
                   [] found # {} /\ pick = n -> <<Hand>>
                   [] OTHER -> <<[slot |-> pick, mirror |-> slots'[pick + 1]]>>
      /\ next' = next

\* Choose: round robin over the slots and, after the last one, the hand.
Choose(hand) ==
  LET n == Len(slots')
      start == next % (n + 1)
      found == {i \in 0 .. n : IF i = n THEN hand ELSE Demanded(slots'[i + 1])}
      Steps(i) == (i - start) % (n + 1)
      pick == CHOOSE i \in found : \A j \in found : Steps(i) <= Steps(j)
  IN  /\ plan' = CASE found = {} -> << >>
                   [] found # {} /\ pick = n -> <<Hand>>
                   [] OTHER -> <<[slot |-> pick, mirror |-> slots'[pick + 1]]>>
      /\ next' = IF found = {} THEN start ELSE (pick + 1) % (n + 1)

\* Mutant: only as many mirrors as are in demand are looked at.
EveryFrameCounted(hand) ==
  LET found == {i \in DOMAIN slots' : Demanded(slots'[i])}
      mirrors == SelectSeq([i \in 1 .. Cardinality(found) |->
                              [slot |-> i - 1, mirror |-> slots'[i]]],
                           LAMBDA c : Demanded(c.mirror))
  IN  /\ plan' = mirrors \o (IF hand THEN <<Hand>> ELSE << >>)
      /\ next' = next

\* ChooseEveryFrame: every demanded mirror in slot order, the hand last.
ChooseEveryFrame(hand) ==
  LET found == {i \in DOMAIN slots' : Demanded(slots'[i])}
      Capture(i) == [slot |-> i - 1, mirror |-> slots'[i]]
      mirrors == [k \in 1 .. Cardinality(found) |-> Capture(Nth(found, k - 1))]
  IN  /\ plan' = mirrors \o (IF hand THEN <<Hand>> ELSE << >>)
      /\ next' = next

-----------------------------------------------------------------------------
\* The fence's hook moves to the next source.
AdvanceSource ==
  /\ fresh' = TRUE
  /\ UNCHANGED <<slots, eligible, next, everyFrame, plan>>

\* Choosing for a source: a source that is not above lastSource_ chooses
\* nothing; a plan whose allocation fails still uses the source up.
Schedule(hand) ==
  /\ fresh' = FALSE
  /\ UNCHANGED everyFrame
  /\ IF ~fresh THEN plan' = << >> /\ next' = next
     ELSE \/ everyFrame /\ ChooseEveryFrame(hand)
          \/ ~everyFrame /\ Choose(hand)
          \/ everyFrame /\ plan' = << >> /\ next' = next

\* The selection is incomplete or its vectors cannot be allocated: the slots
\* stay and every one of them is eligible.
FenceUnselected(hand) ==
  /\ UNCHANGED slots
  /\ SetDemand(FALSE)
  /\ Schedule(hand)

\* A whole fence: reconcile the slots with the visible mirrors, set the demand
\* and choose.
Fence(ranked, hand) ==
  /\ slots' = ReconciledSlots(ranked)
  /\ SetDemand(TRUE)
  /\ Schedule(hand)

\* As Fence, when Reconcile cannot allocate: the old slots stay.
FenceUnreconciled(hand) ==
  /\ UNCHANGED slots
  /\ SetDemand(TRUE)
  /\ Schedule(hand)

\* OnGameLoaded.
SchedulerReset ==
  /\ slots' = << >>
  /\ eligible' = {}
  /\ next' = 0
  /\ fresh' = TRUE
  /\ UNCHANGED <<everyFrame, plan>>

AnyFence == \E hand \in BOOLEAN :
  \/ FenceUnselected(hand)
  \/ \E ranked \in SUBSET Identities : Fence(ranked, hand)
  \/ FenceUnreconciled(hand)

SchedulerNext == AdvanceSource \/ AnyFence \/ SchedulerReset

SchedulerSpec == SchedulerInit /\ [][SchedulerNext]_schedulerVars

-----------------------------------------------------------------------------
\* A mirror that stays admitted keeps its slot, whatever appears, disappears or
\* is ranked before it: its published image is never exchanged with another's.
SlotsStable ==
  [][\A i \in Occupied(slots) :
       (\E j \in DOMAIN slots' : slots'[j] = slots[i])
         => i \in DOMAIN slots' /\ slots'[i] = slots[i]]_schedulerVars

\* A plan made for every frame captures each demanded mirror exactly once, from
\* its own slot, and finishes with the hand; so a plan never holds a mirror that
\* has left the slots.
PlanCovers ==
  [][everyFrame /\ fresh /\ ~fresh' /\ plan' # << >> =>
       LET mirrors == {plan'[k] : k \in DOMAIN plan'} \ {Hand}
       IN  /\ mirrors = {[slot |-> i - 1, mirror |-> slots'[i]] :
                           i \in {j \in DOMAIN slots' : Demanded(slots'[j])}}
           /\ \A k \in DOMAIN plan' : plan'[k] = Hand => k = Len(plan')
           /\ \A a, b \in mirrors : a.mirror.form = b.mirror.form => a = b
           /\ Len(plan') = Cardinality({plan'[k] : k \in DOMAIN plan'})]_schedulerVars

\* With one capture per source, round robin starves nobody: once the slots stop
\* changing, a mirror that is always in demand is captured again and again.
FairShare ==
  \A f \in {c.form : c \in Identities} :
    (~everyFrame /\ <>[][slots' = slots]_schedulerVars /\ <>[](\E c \in eligible : c.form = f))
      => []<>(\E k \in DOMAIN plan : plan[k] # Hand /\ plan[k].mirror.form = f)
=============================================================================
