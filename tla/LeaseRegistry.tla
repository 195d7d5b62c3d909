---------------------------- MODULE LeaseRegistry ----------------------------
(***************************************************************************)
(* The registry of engine-state leases (src/src/LeaseRegistry.cpp): an     *)
(* experiment that mutates engine state arms a lease under a name first.   *)
(* A failure stays attributable while each family of engine state has at   *)
(* most one lease that is not proven yet.  TryArm and Reset hold the       *)
(* registry's mutex, so each is one action.                                *)
(***************************************************************************)
EXTENDS Naturals, FiniteSets, Sequences

CONSTANTS Names,       \* non-empty lease names
          Families,    \* Family below kCount
          MaxRefusals, \* bound on the refusal counters
          NoHolder     \* an empty unprovenHolder entry

Maturities == {"runtime-proven", "unproven"}
Registrations == [name : Names, family : Families, maturity : Maturities]

ASSUME NoHolderIsNoName == NoHolder \notin Names
ASSUME MaxRefusalsIsNat == MaxRefusals \in Nat

VARIABLES
  armed,    \* State::armed; the vector is only searched by name
  holder,   \* State::unprovenHolder
  arms,     \* State::arms
  refusals, \* State::refusals, and State::familyConflicts with it
  trusted   \* registrations a caller was told are armed, since the last Reset

vars == <<armed, holder, arms, refusals, trusted>>

Init ==
  /\ armed = {}
  /\ holder = [f \in Families |-> NoHolder]
  /\ arms = 0 /\ refusals = 0
  /\ trusted = {}

-----------------------------------------------------------------------------
Conflicts(r) == r.maturity = "unproven" /\ holder[r.family] # NoHolder

\* TryArm of a name that is armed: true for the identical registration only.
TryArmAgain(r) ==
  /\ \E a \in armed : a.name = r.name
  /\ trusted' = IF r \in armed THEN trusted \cup {r} ELSE trusted
  /\ UNCHANGED <<armed, holder, arms, refusals>>

\* TryArm refused: the family holds an unproven lease.
TryArmRefused(r) ==
  /\ \A a \in armed : a.name # r.name
  /\ Conflicts(r)
  /\ refusals < MaxRefusals
  /\ refusals' = refusals + 1
  /\ UNCHANGED <<armed, holder, arms, trusted>>

\* Mutant: a new name always arms.
TryArmUnchecked(r) ==
  /\ \A a \in armed : a.name # r.name
  /\ armed' = armed \cup {r}
  /\ holder' = IF r.maturity = "unproven"
               THEN [holder EXCEPT ![r.family] = r.name] ELSE holder
  /\ arms' = arms + 1
  /\ trusted' = trusted \cup {r}
  /\ UNCHANGED refusals

\* TryArm of a new name.  (When the vector cannot grow nothing has changed.)
TryArm(r) ==
  /\ \A a \in armed : a.name # r.name
  /\ ~Conflicts(r)
  /\ armed' = armed \cup {r}
  /\ holder' = IF r.maturity = "unproven"
               THEN [holder EXCEPT ![r.family] = r.name] ELSE holder
  /\ arms' = arms + 1
  /\ trusted' = trusted \cup {r}
  /\ UNCHANGED refusals

Reset ==
  /\ armed' = {}
  /\ holder' = [f \in Families |-> NoHolder]
  /\ arms' = 0 /\ refusals' = 0
  /\ trusted' = {}

Next == \/ \E r \in Registrations : TryArmAgain(r) \/ TryArmRefused(r) \/ TryArm(r)
        \/ Reset

Spec == Init /\ [][Next]_vars

-----------------------------------------------------------------------------
\* The registry's members keep their types.
TypeOK ==
  /\ armed \subseteq Registrations
  /\ holder \in [Families -> Names \cup {NoHolder}]
  /\ arms \in Nat
  /\ refusals \in Nat
  /\ trusted \subseteq Registrations

\* Two different unproven leases are never armed in one family at once, and the
\* holder the refusal message names is the one lease that is.
OneUnprovenPerFamily ==
  \A f \in Families :
    LET unproven == {r \in armed : r.family = f /\ r.maturity = "unproven"}
    IN  /\ \A r, q \in unproven : r = q
        /\ holder[f] = NoHolder <=> unproven = {}
        /\ \A r \in unproven : holder[f] = r.name

\* Every caller that was told its lease is armed has exactly that registration in
\* the registry, and a name stands for one family and maturity.
TrustedAreArmed ==
  /\ trusted = armed
  /\ \A r, q \in armed : r.name = q.name => r = q

\* A failure is attributable (LeaseRegistry.h): of the leases that callers believe
\* to be armed, at most one in a family is unproven, and no caller claims authority
\* under another's registration.
FailuresAttributable == OneUnprovenPerFamily /\ TrustedAreArmed

\* What the header (LeaseRegistry.h:20-24) and the refusal message say of the
\* registry: one unproven lease per run.
OneUnprovenPerRun ==
  \A r, q \in armed : r.maturity = "unproven" /\ q.maturity = "unproven" => r = q
=============================================================================
