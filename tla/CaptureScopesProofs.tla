-------------------------- MODULE CaptureScopesProofs ------------------------
(***************************************************************************)
(* Proofs about CaptureScopes, for any leases, families, roots and items:  *)
(* the registry's invariants, that the player's body is always owed by the *)
(* one holder who knows its value, and that the mirror item is: that what  *)
(* a capture hid is back, or in the ticket of the fence, when its image    *)
(* may be published, and that a transition alone is never a fault.         *)
(***************************************************************************)
EXTENDS CaptureScopes, FiniteSetTheorems, TLAPS

-----------------------------------------------------------------------------
(* The registry *)

\* The two safety invariants need each other only through TypeOK; together they
\* are inductive.
IInv == TypeOK /\ OneUnprovenPerFamily /\ TrustedAreArmed

\* The registry starts empty.
LEMMA InitEstablishes == Init => IInv
BY DEF Init, IInv, TypeOK, OneUnprovenPerFamily, TrustedAreArmed

\* A registration of a new name without a conflict keeps the invariant: its
\* family had no unproven lease, or it is proven itself.
LEMMA ArmingPreserves ==
  ASSUME IInv, NEW r \in Registrations, TryArm(r)
  PROVE  IInv'
<1>1. TypeOK'
  BY DEF IInv, TypeOK, TryArm, Registrations, Maturities
<1>2. TrustedAreArmed'
  BY DEF IInv, TrustedAreArmed, TryArm
<1>3. OneUnprovenPerFamily'
  <2> SUFFICES ASSUME NEW f \in Families
               PROVE LET unproven == {q \in armed' : q.family = f /\ q.maturity = "unproven"}
                     IN  /\ \A q, p \in unproven : q = p
                         /\ holder'[f] = NoHolder <=> unproven = {}
                         /\ \A q \in unproven : holder'[f] = q.name
    BY DEF OneUnprovenPerFamily
  <2> DEFINE before == {q \in armed : q.family = f /\ q.maturity = "unproven"}
             after == {q \in armed' : q.family = f /\ q.maturity = "unproven"}
  <2>1. /\ \A q, p \in before : q = p
        /\ holder[f] = NoHolder <=> before = {}
        /\ \A q \in before : holder[f] = q.name
    BY DEF IInv, OneUnprovenPerFamily
  <2>2. armed' = armed \cup {r}
    BY DEF TryArm
  <2>3. holder \in [Families -> Names \cup {NoHolder}]
    BY DEF IInv, TypeOK
  <2>4. r.name \in Names /\ r.name # NoHolder
    BY NoHolderIsNoName DEF Registrations
  <2>5. CASE r.family = f /\ r.maturity = "unproven"
    <3>1. holder[f] = NoHolder
      BY <2>5 DEF TryArm, Conflicts
    <3>2. after = {r}
      BY <2>1, <2>2, <2>5, <3>1
    <3>3. holder'[f] = r.name
      BY <2>3, <2>5 DEF TryArm
    <3> QED BY <2>4, <3>2, <3>3
  <2>6. CASE ~(r.family = f /\ r.maturity = "unproven")
    <3>1. after = before
      BY <2>2, <2>6
    <3>2. holder'[f] = holder[f]
      BY <2>3, <2>6 DEF TryArm
    <3> QED BY <2>1, <3>1, <3>2
  <2> QED BY <2>5, <2>6
<1> QED BY <1>1, <1>2, <1>3 DEF IInv

\* Every step keeps the invariant.
LEMMA StepPreserves == IInv /\ [Next]_vars => IInv'
<1> SUFFICES ASSUME IInv, [Next]_vars PROVE IInv'
  OBVIOUS
<1>1. ASSUME NEW r \in Registrations, TryArmAgain(r) PROVE IInv'
  BY <1>1 DEF IInv, TypeOK, OneUnprovenPerFamily, TrustedAreArmed, TryArmAgain
<1>2. ASSUME NEW r \in Registrations, TryArmRefused(r) PROVE IInv'
  BY <1>2 DEF IInv, TypeOK, OneUnprovenPerFamily, TrustedAreArmed, TryArmRefused
<1>3. ASSUME NEW r \in Registrations, TryArm(r) PROVE IInv'
  BY <1>3, ArmingPreserves
<1>4. CASE Reset
  BY <1>4 DEF IInv, TypeOK, OneUnprovenPerFamily, TrustedAreArmed, Reset
<1>5. CASE UNCHANGED vars
  BY <1>5 DEF IInv, TypeOK, OneUnprovenPerFamily, TrustedAreArmed, vars
<1> QED BY <1>1, <1>2, <1>3, <1>4, <1>5 DEF Next

-----------------------------------------------------------------------------
(* The player's body *)

\* The owner of a scope, or of a recovery that has not released.
Taken == [root |-> NoRoot, culled |-> FALSE, active |-> TRUE, pending |-> FALSE,
          terminal |-> FALSE]
ScopeStages == {"none", "starting", "recovering", "clear", "open"}

ScopeType ==
  [stage : ScopeStages, root : Roots \cup {NoRoot}, ready : BOOLEAN, culls : BOOLEAN,
   fades : BOOLEAN, prior : Values, retained : BOOLEAN, lease : BOOLEAN, excluded : BOOLEAN]

OwnerType ==
  [root : Roots \cup {NoRoot}, culled : BOOLEAN, active : BOOLEAN, pending : BOOLEAN,
   terminal : BOOLEAN]

PlayerTypes ==
  /\ body \in [Roots -> Values] /\ game \in [Roots -> Values]
  /\ rootRefs \in [Roots -> Nat]
  /\ scope \in ScopeType
  /\ rollback \in [root : Roots \cup {NoRoot}, prior : Values, culls : BOOLEAN, fades : BOOLEAN]
  /\ ownership \in OwnerType
  /\ release \in [by : {"none", "render", "loader"}, root : Roots \cup {NoRoot}]

\* Only an open scope that has retained its root changes it.
ScopeShape ==
  /\ scope.retained => scope.lease /\ scope.root \in Roots
  /\ scope.lease => scope.stage = "open"
  /\ scope.culls \/ scope.fades \/ scope.ready => scope.retained
  /\ scope.ready => scope.culls

\* The owner's record tells which of the three is in charge.
OwnerKnown ==
  /\ scope.lease => ownership = Taken /\ rollback = NoRollback /\ release = NoRelease
  /\ rollback.root # NoRoot =>
       /\ ownership = [root |-> rollback.root, culled |-> rollback.prior.culled,
                       active |-> TRUE, pending |-> TRUE, terminal |-> FALSE]
       /\ release = NoRelease
  /\ rollback.root = NoRoot => rollback = NoRollback
  /\ release.root # NoRoot => ownership = Taken /\ release.by # "none"
  /\ release.root = NoRoot => release = NoRelease
  /\ ownership.root = NoRoot => ownership.culled = FALSE

RootRetained ==
  /\ scope.retained => rootRefs[scope.root] >= 1
  /\ rollback.root # NoRoot => rootRefs[rollback.root] >= 1
  /\ release.root # NoRoot => rootRefs[release.root] >= 1

PriorsKnown ==
  /\ scope.retained => scope.prior = game[scope.root]
  /\ rollback.root # NoRoot => rollback.prior = game[rollback.root]

ValuesOwed ==
  \A r \in Roots :
    /\ body[r].culled # game[r].culled =>
         (scope.root = r /\ scope.culls) \/ (rollback.root = r /\ rollback.culls)
    /\ body[r].faded # game[r].faded =>
         (scope.root = r /\ scope.fades) \/ (rollback.root = r /\ rollback.fades)

PInv == PlayerTypes /\ ScopeShape /\ OwnerKnown /\ RootRetained /\ PriorsKnown /\ ValuesOwed

LEMMA PlayerInitHolds == PlayerInit => PInv
<1> SUFFICES ASSUME PlayerInit PROVE PInv
  OBVIOUS
<1> USE PlayerConstants DEF PlayerInit, NoScope, NoRollback, NoOwner, NoRelease, Visible, Values
<1>1. PlayerTypes
  BY DEF PlayerTypes, ScopeType, OwnerType, ScopeStages
<1>2. ScopeShape /\ OwnerKnown
  BY DEF ScopeShape, OwnerKnown
<1>3. RootRetained /\ PriorsKnown /\ ValuesOwed
  BY DEF RootRetained, PriorsKnown, ValuesOwed
<1> QED
  BY <1>1, <1>2, <1>3 DEF PInv

\* What is put back has its old value; what is not is still to be put back.
LEMMA WrittenBackFact ==
  ASSUME NEW v \in Values, NEW s, s.culls \in BOOLEAN, s.fades \in BOOLEAN, s.prior \in Values,
         NEW o \in WrittenBack(v, s)
  PROVE  /\ o.values \in Values /\ o.culls \in BOOLEAN /\ o.fades \in BOOLEAN
         /\ o.culls => s.culls
         /\ o.fades => s.fades
         /\ ~o.culls => o.values.culled = IF s.culls THEN s.prior.culled ELSE v.culled
         /\ o.values.faded = IF s.fades /\ ~o.fades THEN s.prior.faded ELSE v.faded
         /\ ~s.culls => o.values.culled = v.culled
<1>1. o \in [values : Values, culls : BOOLEAN, fades : BOOLEAN]
  BY DEF WrittenBack
<1>2. /\ o.values.culled \in IF s.culls THEN {v.culled, s.prior.culled} ELSE {v.culled}
      /\ s.culls /\ ~o.culls => o.values.culled = s.prior.culled
      /\ o.values.faded = IF s.fades /\ ~o.fades THEN s.prior.faded ELSE v.faded
      /\ o.culls => s.culls
      /\ o.fades => s.fades
  BY DEF WrittenBack
<1> QED
  BY <1>1, <1>2

\* A scope that owns nothing.
Bare(s) == s \in ScopeType /\ ~s.lease /\ ~s.retained /\ ~s.culls /\ ~s.fades /\ ~s.ready

LEMMA BareShape == PInv /\ ~scope.lease => Bare(scope)
BY DEF PInv, PlayerTypes, ScopeShape, Bare

LEMMA RefusedIsBare ==
  /\ Bare(NoScope) /\ Bare(Refused)
  /\ Bare([NoScope EXCEPT !.stage = "starting"])
  /\ \A s : Bare(s) => \A g \in ScopeStages : Bare([s EXCEPT !.stage = g])
BY PlayerConstants DEF Bare, ScopeType, ScopeStages, NoScope, Refused, Visible, Values

\* A step of a bare scope that touches nothing else.
LEMMA BareStep ==
  ASSUME PInv, ~scope.lease, Bare(scope'),
         UNCHANGED <<body, game, rootRefs, rollback, ownership, release>>
  PROVE  PInv'
<1>1. Bare(scope)
  BY BareShape
<1> QED
  BY <1>1 DEF PInv, PlayerTypes, ScopeShape, OwnerKnown, RootRetained, PriorsKnown, ValuesOwed, Bare

\* What a completed recovery makes of its owner.
LEMMA TombstonedFact ==
  ASSUME NEW o \in OwnerType, o.active = TRUE, o.terminal = FALSE
  PROVE  Tombstoned(o) = Taken
<1>1. Tombstoned(o) \in OwnerType
  BY DEF Tombstoned, OwnerType
<1>2. /\ Tombstoned(o).root = NoRoot /\ Tombstoned(o).culled = FALSE
      /\ Tombstoned(o).active = TRUE /\ Tombstoned(o).pending = FALSE
      /\ Tombstoned(o).terminal = FALSE
  BY DEF Tombstoned, OwnerType
<1> QED
  BY <1>1, <1>2 DEF OwnerType, Taken

\* A recovery leaves what it could not put back in the slot, or has nothing
\* left but its reference to give up.
LEMMA RecoverHolds ==
  ASSUME PInv, NEW thread \in {"render", "loader"}, Recover(thread), Bare(scope')
  PROVE  PInv'
<1> DEFINE r == rollback.root
<1>1. /\ r \in Roots /\ ~scope.lease /\ release = NoRelease
      /\ rollback.prior = game[r] /\ rootRefs[r] >= 1
      /\ ownership = [root |-> r, culled |-> rollback.prior.culled,
                      active |-> TRUE, pending |-> TRUE, terminal |-> FALSE]
  BY DEF Recover, PInv, PlayerTypes, OwnerKnown, NoRollback, PriorsKnown, RootRetained
<1>2. Bare(scope)
  BY <1>1, BareShape
<1>3. PICK o \in WrittenBack(body[r], rollback) :
        /\ body' = [body EXCEPT ![r] = o.values]
        /\ IF o.culls \/ o.fades
           THEN /\ rollback' = [rollback EXCEPT !.culls = o.culls, !.fades = o.fades]
                /\ UNCHANGED <<ownership, release>>
           ELSE /\ rollback' = NoRollback
                /\ ownership' = Tombstoned(ownership)
                /\ release' = [by |-> thread, root |-> r]
  BY DEF Recover
<1>4. UNCHANGED <<game, rootRefs>>
  BY DEF Recover
<1>5. /\ o.values \in Values /\ o.culls \in BOOLEAN /\ o.fades \in BOOLEAN
      /\ o.culls => rollback.culls
      /\ o.fades => rollback.fades
      /\ ~o.culls => o.values.culled = IF rollback.culls THEN rollback.prior.culled ELSE body[r].culled
      /\ o.values.faded = IF rollback.fades /\ ~o.fades THEN rollback.prior.faded ELSE body[r].faded
      /\ ~rollback.culls => o.values.culled = body[r].culled
  <2>1. /\ body[r] \in Values /\ rollback.prior \in Values
        /\ rollback.culls \in BOOLEAN /\ rollback.fades \in BOOLEAN
    BY <1>1 DEF PInv, PlayerTypes
  <2> HIDE DEF r
  <2> QED
    BY <1>3, <2>1, WrittenBackFact
<1>6. body' \in [Roots -> Values] /\ body'[r] = o.values /\ \A q \in Roots \ {r} : body'[q] = body[q]
  BY <1>1, <1>3, <1>5 DEF PInv, PlayerTypes
<1>7. CASE o.culls \/ o.fades
  <2>1. /\ rollback' \in [root : Roots \cup {NoRoot}, prior : Values, culls : BOOLEAN, fades : BOOLEAN]
        /\ rollback'.root = r /\ rollback'.prior = rollback.prior
        /\ rollback'.culls = o.culls /\ rollback'.fades = o.fades
        /\ UNCHANGED <<ownership, release>>
    BY <1>3, <1>5, <1>7 DEF PInv, PlayerTypes
  <2>2. PlayerTypes'
    BY <1>4, <1>6, <2>1 DEF PInv, PlayerTypes, Bare
  <2>3. ScopeShape' /\ OwnerKnown'
    BY <1>1, <2>1, PlayerConstants DEF ScopeShape, OwnerKnown, Bare, NoRelease
  <2>4. RootRetained' /\ PriorsKnown'
    BY <1>1, <1>4, <2>1, PlayerConstants DEF RootRetained, PriorsKnown, Bare, NoRelease
  <2>5. ValuesOwed'
    <3> SUFFICES ASSUME NEW q \in Roots
                 PROVE  /\ body'[q].culled # game[q].culled => rollback'.root = q /\ rollback'.culls
                        /\ body'[q].faded # game[q].faded => rollback'.root = q /\ rollback'.fades
      BY <1>4 DEF ValuesOwed
    <3>1. CASE q = r
      BY <1>1, <1>2, <1>5, <1>6, <2>1, <3>1 DEF PInv, ValuesOwed, Bare
    <3>2. CASE q # r
      BY <1>2, <1>6, <3>2 DEF PInv, ValuesOwed, Bare
    <3> QED
      BY <3>1, <3>2
  <2> QED
    BY <2>2, <2>3, <2>4, <2>5 DEF PInv
<1>8. CASE ~(o.culls \/ o.fades)
  <2>1. /\ rollback' = NoRollback /\ ownership' = Taken
        /\ release' = [by |-> thread, root |-> r]
    <3>1. Tombstoned(ownership) = Taken
      BY <1>1, TombstonedFact DEF PInv, PlayerTypes
    <3> QED
      BY <1>3, <1>8, <3>1
  <2>2. PlayerTypes'
    BY <1>1, <1>4, <1>6, <2>1, PlayerConstants
    DEF PInv, PlayerTypes, OwnerType, Bare, NoRollback, Taken, Visible, Values
  <2>3. ScopeShape' /\ OwnerKnown'
    BY <1>1, <2>1, PlayerConstants DEF ScopeShape, OwnerKnown, Bare, NoRollback, NoRelease, Taken
  <2>4. RootRetained' /\ PriorsKnown'
    BY <1>1, <1>4, <2>1, PlayerConstants DEF RootRetained, PriorsKnown, Bare, NoRollback
  <2>5. ValuesOwed'
    <3> SUFFICES ASSUME NEW q \in Roots
                 PROVE  body'[q].culled = game[q].culled /\ body'[q].faded = game[q].faded
      BY <1>4 DEF ValuesOwed
    <3>1. CASE q = r
      BY <1>1, <1>2, <1>5, <1>6, <1>8, <3>1 DEF PInv, ValuesOwed, Bare
    <3>2. CASE q # r
      BY <1>2, <1>6, <3>2 DEF PInv, ValuesOwed, Bare
    <3> QED
      BY <3>1, <3>2
  <2> QED
    BY <2>2, <2>3, <2>4, <2>5 DEF PInv
<1> QED
  BY <1>7, <1>8

\* An owner that completes is done, or terminal for good.
LEMMA CompletedType ==
  ASSUME NEW o \in OwnerType, NEW released \in BOOLEAN
  PROVE  /\ Completed(o, released) \in OwnerType
         /\ Completed(o, released).root = o.root
         /\ Completed(o, released).culled = o.culled
BY DEF Completed, OwnerType

\* The rest of a recovery gives its one reference up, and the owner with it.
LEMMA RecoveredHolds ==
  ASSUME PInv, NEW thread \in {"render", "loader"}, RecoveredBy(thread), Bare(scope')
  PROVE  PInv'
<1>1. release # NoRelease
  BY DEF RecoveredBy, NoRelease
<1>2. /\ release.root # NoRoot /\ ~scope.lease /\ rollback = NoRollback
      /\ ownership = Taken
      /\ release.root \in Roots /\ rootRefs[release.root] >= 1
  BY <1>1 DEF PInv, PlayerTypes, OwnerKnown, RootRetained, NoRollback
<1>3. Bare(scope)
  BY <1>2, BareShape
<1>4. /\ release' = NoRelease /\ UNCHANGED <<body, game, rollback>>
      /\ rootRefs' \in [Roots -> Nat]
      /\ \E released \in BOOLEAN : ownership' = Completed(ownership, released)
  BY <1>2 DEF RecoveredBy, Dropped, PInv, PlayerTypes
<1>5. ownership' \in OwnerType /\ ownership'.root = NoRoot /\ ownership'.culled = FALSE
  BY <1>2, <1>4, CompletedType DEF PInv, PlayerTypes, Taken
<1>6. PlayerTypes'
  BY <1>4, <1>5, PlayerConstants DEF PInv, PlayerTypes, Bare, NoRelease
<1>7. ScopeShape' /\ OwnerKnown' /\ RootRetained' /\ PriorsKnown'
  BY <1>2, <1>4, <1>5, PlayerConstants
  DEF ScopeShape, OwnerKnown, RootRetained, PriorsKnown, Bare, NoRollback, NoRelease
<1>8. ValuesOwed'
  BY <1>2, <1>3, <1>4 DEF PInv, ValuesOwed, Bare
<1> QED
  BY <1>6, <1>7, <1>8 DEF PInv

\* With no rollback pending and nothing to release, a scope may take the owner.
LEMMA FreeFact ==
  ASSUME PInv, Free(ownership)
  PROVE  /\ ~scope.lease /\ rollback = NoRollback /\ release = NoRelease
         /\ Bare(scope)
         /\ [ownership EXCEPT !.active = TRUE] = Taken
<1>1. ~scope.lease /\ rollback = NoRollback /\ release = NoRelease
  BY DEF Free, PInv, OwnerKnown, Taken
<1>2. ownership \in OwnerType /\ ownership.culled = FALSE
  BY DEF Free, PInv, PlayerTypes, OwnerKnown
<1> DEFINE o == [ownership EXCEPT !.active = TRUE]
<1>3. o \in OwnerType
  BY <1>2 DEF OwnerType
<1>4. /\ o.root = NoRoot /\ o.culled = FALSE /\ o.active = TRUE /\ o.pending = FALSE
      /\ o.terminal = FALSE
  BY <1>2 DEF OwnerType, Free
<1>5. o = Taken
  <2> HIDE DEF o
  <2> QED
    BY <1>3, <1>4 DEF OwnerType, Taken
<1> QED
  BY <1>1, <1>5, BareShape

\* IncRefCount faulted: the owner is taken, and nothing has been changed.
LEMMA UnretainedHolds == PInv /\ ScopeUnretained => PInv'
<1> SUFFICES ASSUME PInv, ScopeUnretained PROVE PInv'
  OBVIOUS
<1>1. /\ rollback = NoRollback /\ release = NoRelease /\ Bare(scope) /\ ownership' = Taken
      /\ UNCHANGED <<body, game, rollback, release>>
  BY FreeFact DEF ScopeUnretained
<1>2. /\ scope' \in ScopeType /\ scope'.lease /\ ~scope'.retained /\ scope'.stage = "open"
      /\ ~scope'.culls /\ ~scope'.fades /\ ~scope'.ready
  BY PlayerConstants DEF ScopeUnretained, ScopeType, ScopeStages, Refused, NoScope, Visible, Values
<1>3. rootRefs' \in [Roots -> Nat] /\ Taken \in OwnerType
  BY DEF ScopeUnretained, PInv, PlayerTypes, Taken, OwnerType
<1> QED
  BY <1>1, <1>2, <1>3
  DEF PInv, PlayerTypes, ScopeShape, OwnerKnown, RootRetained, PriorsKnown, ValuesOwed, Bare,
      Taken, NoRollback, NoRelease

\* A scope that opens over r knows the value it found, which is the game's, and
\* owes what it has changed.
LEMMA OpenedHolds ==
  ASSUME PInv, Free(ownership), NEW r \in Roots, NEW v \in Values,
         body' = [body EXCEPT ![r] = v], rootRefs' = [rootRefs EXCEPT ![r] = @ + 1],
         ownership' = [ownership EXCEPT !.active = TRUE],
         UNCHANGED <<game, rollback, release>>,
         scope' \in ScopeType, scope'.stage = "open", scope'.root = r,
         scope'.retained, scope'.lease, scope'.prior = body[r], scope'.ready => scope'.culls,
         v.culled # body[r].culled => scope'.culls,
         v.faded # body[r].faded => scope'.fades
  PROVE  PInv'
<1>1. /\ rollback = NoRollback /\ release = NoRelease /\ Bare(scope) /\ ownership' = Taken
  BY FreeFact
<1>2. \A q \in Roots : body[q].culled = game[q].culled /\ body[q].faded = game[q].faded
  BY <1>1, PlayerConstants DEF PInv, ValuesOwed, Bare, NoRollback
<1>3. body[r] = game[r]
  BY <1>2 DEF PInv, PlayerTypes, Values
<1>4. /\ body' \in [Roots -> Values] /\ body'[r] = v
      /\ \A q \in Roots \ {r} : body'[q] = body[q]
      /\ rootRefs' \in [Roots -> Nat] /\ rootRefs'[r] >= 1 /\ Taken \in OwnerType
  BY DEF PInv, PlayerTypes, Taken, OwnerType
<1>5. PlayerTypes'
  BY <1>1, <1>4 DEF PInv, PlayerTypes
<1>6. ScopeShape'
  BY DEF ScopeShape
<1>7. OwnerKnown'
  <2>1. rollback' = NoRollback /\ release' = NoRelease /\ ownership' = Taken
    BY <1>1
  <2>2. NoRollback.root = NoRoot /\ NoRelease.root = NoRoot /\ Taken.culled = FALSE
    BY DEF NoRollback, NoRelease, Taken
  <2> QED
    BY <2>1, <2>2 DEF OwnerKnown
<1>8. RootRetained' /\ PriorsKnown'
  BY <1>1, <1>3, <1>4, PlayerConstants DEF RootRetained, PriorsKnown, NoRollback, NoRelease
<1>9. ValuesOwed'
  <2> SUFFICES ASSUME NEW q \in Roots
               PROVE  /\ body'[q].culled # game[q].culled => scope'.root = q /\ scope'.culls
                      /\ body'[q].faded # game[q].faded => scope'.root = q /\ scope'.fades
    BY DEF ValuesOwed
  <2>1. CASE q = r
    BY <1>2, <1>4, <2>1
  <2>2. CASE q # r
    BY <1>2, <1>4, <2>2
  <2> QED
    BY <2>1, <2>2
<1> QED
  BY <1>5, <1>6, <1>7, <1>8, <1>9 DEF PInv

\* All three ways to open.
LEMMA OpensHolds == PInv /\ ScopeOpens => PInv'
<1> SUFFICES ASSUME PInv, ScopeOpens PROVE PInv'
  OBVIOUS
<1>1. PICK r \in Roots : /\ rootRefs' = [rootRefs EXCEPT ![r] = @ + 1]
                         /\ \/ Unculled(r)
                            \/ Ununculled(r)
                            \/ scope' = Retaining(r) /\ UNCHANGED body
  BY DEF ScopeOpens
<1>2. /\ Free(ownership) /\ ownership' = [ownership EXCEPT !.active = TRUE]
      /\ UNCHANGED <<game, rollback, release>>
  BY DEF ScopeOpens
<1>3. body[r] \in Values /\ body \in [Roots -> Values]
  BY DEF PInv, PlayerTypes
<1> DEFINE K == Retaining(r)
<1>4. /\ K \in ScopeType /\ K.stage = "open" /\ K.root = r /\ K.retained /\ K.lease
      /\ K.prior = body[r] /\ ~K.ready /\ ~K.culls /\ ~K.fades
  BY <1>3 DEF Retaining, Refused, NoScope, ScopeType, ScopeStages
<1>5. CASE Unculled(r)
  <2>1. PICK fades \in BOOLEAN, ready \in BOOLEAN :
          /\ fades => body[r].faded
          /\ body' = [body EXCEPT ![r] = [culled |-> FALSE, faded |-> @.faded /\ ~fades]]
          /\ scope' = [K EXCEPT !.culls = TRUE, !.fades = fades, !.ready = ready]
    BY <1>5 DEF Unculled
  <2> DEFINE v == [culled |-> FALSE, faded |-> body[r].faded /\ ~fades]
  <2>2. v \in Values /\ body' = [body EXCEPT ![r] = v]
    BY <1>3, <2>1 DEF Values
  <2>3. v.faded # body[r].faded => fades
    BY <1>3 DEF Values
  <2>4. /\ scope' \in ScopeType /\ scope'.stage = "open" /\ scope'.root = r
        /\ scope'.retained /\ scope'.lease /\ scope'.prior = body[r]
        /\ scope'.culls /\ scope'.fades = fades
    <3> HIDE DEF K
    <3> QED
      BY <1>4, <2>1 DEF ScopeType
  <2> HIDE DEF v
  <2> QED
    BY <1>1, <1>2, <2>2, <2>3, <2>4, OpenedHolds
<1>6. CASE Ununculled(r)
  <2> DEFINE S == [culls |-> TRUE, fades |-> FALSE, prior |-> body[r]]
  <2>1. PICK c \in {body[r].culled, FALSE} :
          \E o \in WrittenBack([body[r] EXCEPT !.culled = c], S) :
            /\ body' = [body EXCEPT ![r] = o.values]
            /\ scope' = [K EXCEPT !.culls = o.culls]
    BY <1>6 DEF Ununculled
  <2> DEFINE w == [body[r] EXCEPT !.culled = c]
  <2>2. w \in Values /\ w.faded = body[r].faded
    BY <1>3, <2>1 DEF Values
  <2>3. PICK o \in WrittenBack(w, S) :
          body' = [body EXCEPT ![r] = o.values] /\ scope' = [K EXCEPT !.culls = o.culls]
    BY <2>1
  <2>6. S.culls = TRUE /\ S.fades = FALSE /\ S.prior = body[r]
    BY DEF Ununculled
  <2> HIDE DEF S, w
  <2>4. /\ o.values \in Values /\ o.culls \in BOOLEAN
        /\ ~o.culls => o.values.culled = body[r].culled
        /\ o.values.faded = body[r].faded
    <3>1. S.culls \in BOOLEAN /\ S.fades \in BOOLEAN /\ S.prior \in Values
      BY <1>3, <2>6
    <3>2. /\ o.values \in Values /\ o.culls \in BOOLEAN
          /\ ~o.culls => o.values.culled = IF S.culls THEN S.prior.culled ELSE w.culled
          /\ o.values.faded = IF S.fades /\ ~o.fades THEN S.prior.faded ELSE w.faded
      BY <2>2, <3>1, WrittenBackFact
    <3> QED
      BY <2>2, <2>6, <3>2
  <2>5. /\ scope' \in ScopeType /\ scope'.stage = "open" /\ scope'.root = r
        /\ scope'.retained /\ scope'.lease /\ scope'.prior = body[r]
        /\ scope'.culls = o.culls /\ ~scope'.ready
    <3> HIDE DEF K
    <3> QED
      BY <1>4, <2>3, <2>4 DEF ScopeType
  <2> QED
    BY <1>1, <1>2, <2>3, <2>4, <2>5, OpenedHolds
<1>7. CASE scope' = Retaining(r) /\ UNCHANGED body
  <2>1. body' = [body EXCEPT ![r] = body[r]]
    BY <1>3, <1>7
  <2> HIDE DEF K
  <2>2. scope' = K
    BY <1>7 DEF K
  <2> QED
    BY <1>1, <1>2, <1>3, <1>4, <2>1, <2>2, OpenedHolds
<1> QED
  BY <1>1, <1>5, <1>6, <1>7

\* The exclusions change the bit of a body whose bit is owed already.
LEMMA ExcludesHolds == ASSUME PInv, NEW to \in BOOLEAN, Excludes(to) PROVE PInv'
<1> DEFINE r == scope.root
<1>1. scope.ready /\ scope.culls /\ scope.retained /\ r \in Roots
  BY DEF Excludes, PInv, ScopeShape
<1>2. PICK done \in BOOLEAN, v \in {body[r].culled, to} :
        /\ body' = [body EXCEPT ![r].culled = v]
        /\ scope' = IF done THEN [scope EXCEPT !.excluded = to] ELSE scope
  BY DEF Excludes
<1>3. UNCHANGED <<game, rootRefs, rollback, ownership, release>>
  BY DEF Excludes
<1>4. /\ body' \in [Roots -> Values] /\ body'[r].faded = body[r].faded
      /\ \A q \in Roots \ {r} : body'[q] = body[q]
  BY <1>1, <1>2 DEF PInv, PlayerTypes, Values
<1>5. /\ scope' \in ScopeType /\ scope'.stage = scope.stage /\ scope'.root = r
      /\ scope'.retained = scope.retained /\ scope'.lease = scope.lease
      /\ scope'.prior = scope.prior /\ scope'.ready = scope.ready
      /\ scope'.culls = scope.culls /\ scope'.fades = scope.fades
  BY <1>2 DEF PInv, PlayerTypes, ScopeType
<1>6. PlayerTypes'
  BY <1>3, <1>4, <1>5 DEF PInv, PlayerTypes
<1>7. ScopeShape' /\ OwnerKnown' /\ RootRetained' /\ PriorsKnown'
  BY <1>3, <1>5 DEF PInv, ScopeShape, OwnerKnown, RootRetained, PriorsKnown
<1>8. ValuesOwed'
  <2> SUFFICES ASSUME NEW q \in Roots
               PROVE  /\ body'[q].culled # game[q].culled =>
                           (scope'.root = q /\ scope'.culls) \/ (rollback.root = q /\ rollback.culls)
                      /\ body'[q].faded # game[q].faded =>
                           (scope'.root = q /\ scope'.fades) \/ (rollback.root = q /\ rollback.fades)
    BY <1>3 DEF ValuesOwed
  <2>1. CASE q = r
    BY <1>1, <1>4, <1>5, <2>1 DEF PInv, ValuesOwed
  <2>2. CASE q # r
    BY <1>4, <1>5, <2>2 DEF PInv, ValuesOwed
  <2> QED
    BY <2>1, <2>2
<1> QED
  BY <1>6, <1>7, <1>8 DEF PInv

\* What the game puts there is owed by nobody.
LEMMA GameHolds == PInv /\ GameSetsBody => PInv'
<1> SUFFICES ASSUME PInv, GameSetsBody PROVE PInv'
  OBVIOUS
<1>1. PICK r \in Roots \ {rollback.root}, v \in Values :
        body' = [body EXCEPT ![r] = v] /\ game' = [game EXCEPT ![r] = v]
  BY DEF GameSetsBody
<1>2. scope.stage = "none" /\ UNCHANGED <<rootRefs, scope, rollback, ownership, release>>
  BY DEF GameSetsBody
<1>3. /\ body' \in [Roots -> Values] /\ game' \in [Roots -> Values]
      /\ body'[r] = v /\ game'[r] = v
      /\ \A q \in Roots \ {r} : body'[q] = body[q] /\ game'[q] = game[q]
  BY <1>1 DEF PInv, PlayerTypes
<1>4. ~scope.retained /\ ~scope.culls /\ ~scope.fades
  BY <1>2 DEF PInv, ScopeShape
<1>5. PlayerTypes' /\ ScopeShape' /\ OwnerKnown' /\ RootRetained'
  BY <1>2, <1>3 DEF PInv, PlayerTypes, ScopeShape, OwnerKnown, RootRetained
<1>6. PriorsKnown'
  BY <1>2, <1>3, <1>4 DEF PInv, PlayerTypes, PriorsKnown
<1>7. ValuesOwed'
  BY <1>2, <1>3, <1>4 DEF PInv, ValuesOwed
<1> QED
  BY <1>5, <1>6, <1>7 DEF PInv

\* What a scope could not put back it leaves with the slot, its reference and
\* its owner.
LEMMA QueuedHolds ==
  ASSUME PInv, scope.retained, NEW o \in WrittenBack(body[scope.root], scope),
         body' = [body EXCEPT ![scope.root] = o.values],
         QueueFailedRollback(o), UNCHANGED <<game, release>>
  PROVE  PInv'
<1> DEFINE r == scope.root
<1>1. /\ r \in Roots /\ scope.prior = game[r] /\ rootRefs[r] >= 1 /\ scope.lease
      /\ ownership = Taken /\ rollback = NoRollback /\ release = NoRelease
  BY DEF PInv, ScopeShape, OwnerKnown, RootRetained, PriorsKnown
<1>2. /\ body[r] \in Values /\ scope.prior \in Values /\ game[r] \in Values
      /\ scope.culls \in BOOLEAN /\ scope.fades \in BOOLEAN
      /\ body \in [Roots -> Values]
  BY <1>1 DEF PInv, PlayerTypes, ScopeType
<1>3. /\ o.values \in Values /\ o.culls \in BOOLEAN /\ o.fades \in BOOLEAN
      /\ o.culls => scope.culls
      /\ o.fades => scope.fades
      /\ ~o.culls => o.values.culled = IF scope.culls THEN scope.prior.culled ELSE body[r].culled
      /\ o.values.faded = IF scope.fades /\ ~o.fades THEN scope.prior.faded ELSE body[r].faded
  BY <1>2, WrittenBackFact
<1>4. Transferable(ownership)
  BY <1>1 DEF Transferable, Taken
<1>5. /\ rollback' = [root |-> r, prior |-> scope.prior, culls |-> o.culls, fades |-> o.fades]
      /\ scope' = NoScope /\ UNCHANGED rootRefs
      /\ ownership' = [ownership EXCEPT !.root = r, !.culled = scope.prior.culled, !.pending = TRUE]
  BY <1>4 DEF QueueFailedRollback, Transferred
<1>6. /\ ownership' \in OwnerType
      /\ ownership' = [root |-> r, culled |-> scope.prior.culled, active |-> TRUE,
                      pending |-> TRUE, terminal |-> FALSE]
  <2>1. ownership' \in OwnerType
    BY <1>1, <1>2, <1>5 DEF PInv, PlayerTypes, OwnerType, Values
  <2>2. /\ ownership'.root = r /\ ownership'.culled = scope.prior.culled
        /\ ownership'.active = TRUE /\ ownership'.pending = TRUE /\ ownership'.terminal = FALSE
    BY <1>1, <1>5 DEF PInv, PlayerTypes, OwnerType, Taken
  <2> QED
    BY <2>1, <2>2 DEF OwnerType
<1>7. /\ body' \in [Roots -> Values] /\ body'[r] = o.values
      /\ \A q \in Roots \ {r} : body'[q] = body[q]
  BY <1>1, <1>2, <1>3
<1>8. /\ rollback'.root = r /\ rollback'.prior = scope.prior
      /\ rollback'.culls = o.culls /\ rollback'.fades = o.fades
  BY <1>5
<1>9. Bare(NoScope)
  BY RefusedIsBare
<1>10. PlayerTypes'
  BY <1>1, <1>2, <1>3, <1>5, <1>6, <1>7, <1>9 DEF PInv, PlayerTypes, Bare
<1>11. ScopeShape' /\ OwnerKnown'
  BY <1>1, <1>5, <1>6, <1>8, <1>9, PlayerConstants DEF ScopeShape, OwnerKnown, Bare, NoRelease
<1>12. RootRetained' /\ PriorsKnown'
  BY <1>1, <1>5, <1>8, <1>9, PlayerConstants DEF RootRetained, PriorsKnown, Bare, NoRelease
<1>13. ValuesOwed'
  <2> SUFFICES ASSUME NEW q \in Roots
               PROVE  /\ body'[q].culled # game[q].culled => rollback'.root = q /\ rollback'.culls
                      /\ body'[q].faded # game[q].faded => rollback'.root = q /\ rollback'.fades
    BY DEF ValuesOwed
  <2>1. NoRollback.root = NoRoot
    BY DEF NoRollback
  <2>2. CASE q = r
    BY <1>1, <1>3, <1>7, <1>8, <2>1, <2>2, PlayerConstants DEF PInv, ValuesOwed
  <2>3. CASE q # r
    BY <1>1, <1>7, <2>1, <2>3, PlayerConstants DEF PInv, ValuesOwed
  <2> QED
    BY <2>2, <2>3
<1> QED
  BY <1>10, <1>11, <1>12, <1>13 DEF PInv

\* What a scope gives up when everything is put back.
LEMMA ReleasedFact ==
  ASSUME PInv, ScopeReleases, UNCHANGED <<rollback, release>>
  PROVE  /\ scope' = NoScope /\ ownership' \in OwnerType /\ rootRefs' \in [Roots -> Nat]
         /\ scope.lease => ownership'.root = NoRoot /\ ownership'.culled = FALSE
         /\ ~scope.lease => UNCHANGED <<rootRefs, ownership>>
<1>1. CASE ~scope.lease
  BY <1>1 DEF ScopeReleases, PInv, PlayerTypes, ScopeShape
<1>2. CASE scope.lease /\ ~scope.retained
  <2>1. scope' = NoScope /\ ownership' = Completed(ownership, TRUE) /\ UNCHANGED rootRefs
    BY <1>2 DEF ScopeReleases
  <2>2. ownership = Taken
    BY <1>2 DEF PInv, OwnerKnown
  <2> QED
    BY <1>2, <2>1, <2>2, CompletedType DEF PInv, PlayerTypes, Taken
<1>3. CASE scope.retained
  <2>1. scope.lease /\ scope.root \in Roots /\ ownership = Taken /\ rootRefs[scope.root] >= 1
    BY <1>3 DEF PInv, ScopeShape, OwnerKnown, RootRetained
  <2>2. scope' = NoScope /\ Dropped(scope.root)
    BY <1>3, <2>1 DEF ScopeReleases
  <2>3. /\ rootRefs' \in [Roots -> Nat]
        /\ \E released \in BOOLEAN : ownership' = Completed(ownership, released)
    BY <2>1, <2>2 DEF Dropped, PInv, PlayerTypes
  <2> QED
    BY <2>1, <2>2, <2>3, CompletedType DEF PInv, PlayerTypes, Taken
<1> QED
  BY <1>1, <1>2, <1>3 DEF PInv, ScopeShape

\* A scope that has put everything back, or has changed nothing, is gone.
LEMMA ReleasedHolds ==
  ASSUME PInv, ScopeReleases, UNCHANGED <<game, rollback, release>>,
         body' \in [Roots -> Values],
         \A q \in Roots :
           /\ scope.root = q /\ scope.culls => body'[q].culled = game[q].culled
           /\ ~(scope.root = q /\ scope.culls) => body'[q].culled = body[q].culled
           /\ scope.root = q /\ scope.fades => body'[q].faded = game[q].faded
           /\ ~(scope.root = q /\ scope.fades) => body'[q].faded = body[q].faded
  PROVE  PInv'
<1>1. /\ scope' = NoScope /\ ownership' \in OwnerType /\ rootRefs' \in [Roots -> Nat]
      /\ scope.lease => ownership'.root = NoRoot /\ ownership'.culled = FALSE
      /\ ~scope.lease => UNCHANGED <<rootRefs, ownership>>
  BY ReleasedFact
<1>2. Bare(NoScope)
  BY RefusedIsBare
<1>3. PlayerTypes'
  BY <1>1, <1>2 DEF PInv, PlayerTypes, Bare
<1>4. ScopeShape' /\ PriorsKnown'
  BY <1>1, <1>2 DEF PInv, ScopeShape, PriorsKnown, Bare
<1>5. NoRollback.root = NoRoot /\ NoRelease.root = NoRoot
  BY DEF NoRollback, NoRelease
<1>6. OwnerKnown' /\ RootRetained'
  <2>1. CASE scope.lease
    BY <1>1, <1>2, <1>5, <2>1 DEF PInv, OwnerKnown, RootRetained, Bare
  <2>2. CASE ~scope.lease
    BY <1>1, <1>2, <2>2 DEF PInv, OwnerKnown, RootRetained, Bare
  <2> QED
    BY <2>1, <2>2
<1>7. ValuesOwed'
  BY <1>1 DEF PInv, ValuesOwed
<1> QED
  BY <1>3, <1>4, <1>6, <1>7 DEF PInv

\* Close.
LEMMA ClosesHolds == PInv /\ ScopeCloses => PInv'
<1> SUFFICES ASSUME PInv, ScopeCloses PROVE PInv'
  OBVIOUS
<1>1. UNCHANGED <<game, release>>
  BY DEF ScopeCloses
<1>2. CASE ~scope.retained
  <2>1. ScopeReleases /\ UNCHANGED <<body, rollback>>
    BY <1>2 DEF ScopeCloses
  <2>2. ~scope.culls /\ ~scope.fades /\ body \in [Roots -> Values]
    BY <1>2 DEF PInv, ScopeShape, PlayerTypes
  <2> QED
    BY <1>1, <2>1, <2>2, ReleasedHolds
<1>3. CASE scope.retained
  <2> DEFINE r == scope.root
  <2>1. PICK o \in WrittenBack(body[r], scope) :
          /\ body' = [body EXCEPT ![r] = o.values]
          /\ IF o.culls \/ o.fades THEN QueueFailedRollback(o)
             ELSE ScopeReleases /\ UNCHANGED rollback
    BY <1>3 DEF ScopeCloses
  <2>2. CASE o.culls \/ o.fades
    BY <1>1, <1>3, <2>1, <2>2, QueuedHolds
  <2>3. CASE ~(o.culls \/ o.fades)
    <3>1. /\ r \in Roots /\ scope.prior = game[r] /\ body \in [Roots -> Values]
          /\ body[r] \in Values /\ scope.prior \in Values
          /\ scope.culls \in BOOLEAN /\ scope.fades \in BOOLEAN
      BY <1>3 DEF PInv, ScopeShape, PlayerTypes, ScopeType, PriorsKnown
    <3>2. /\ o.values \in Values
          /\ o.values.culled = IF scope.culls THEN scope.prior.culled ELSE body[r].culled
          /\ o.values.faded = IF scope.fades THEN scope.prior.faded ELSE body[r].faded
      BY <2>3, <3>1, WrittenBackFact
    <3>3. /\ body' \in [Roots -> Values] /\ body'[r] = o.values
          /\ \A q \in Roots \ {r} : body'[q] = body[q]
      BY <2>1, <3>1, <3>2
    <3>4. ScopeReleases /\ UNCHANGED rollback
      BY <2>1, <2>3
    <3> QED
      BY <1>1, <3>1, <3>2, <3>3, <3>4, ReleasedHolds
  <2> QED
    BY <2>2, <2>3
<1> QED
  BY <1>2, <1>3

\* Every step of the player's scopes and of the loads keeps the invariant.
LEMMA PlayerStepHolds == PInv /\ [PlayerNext]_playerVars => PInv'
<1> SUFFICES ASSUME PInv, [PlayerNext]_playerVars PROVE PInv'
  OBVIOUS
<1>1. CASE ScopeStarts
  <2>1. ~scope.lease
    BY <1>1 DEF ScopeStarts, PInv, ScopeShape
  <2> QED
    BY <1>1, <2>1, RefusedIsBare, BareStep DEF ScopeStarts
<1>2. CASE ScopeRecovers
  <2>1. ~scope.lease
    BY <1>2 DEF ScopeRecovers, PInv, ScopeShape
  <2>2. Recover("render") /\ scope' \in {Refused, [scope EXCEPT !.stage = "recovering"]}
    BY <1>2 DEF ScopeRecovers
  <2>3. Bare(scope')
    BY <2>1, <2>2, BareShape, RefusedIsBare DEF ScopeStages
  <2> QED
    BY <2>2, <2>3, RecoverHolds
<1>3. CASE ScopeRecovered
  <2>1. ~scope.lease
    BY <1>3 DEF ScopeRecovered, PInv, ScopeShape
  <2>2. RecoveredBy("render") /\ scope' \in {Refused, [scope EXCEPT !.stage = "clear"]}
    BY <1>3 DEF ScopeRecovered
  <2>3. Bare(scope')
    BY <2>1, <2>2, BareShape, RefusedIsBare DEF ScopeStages
  <2> QED
    BY <2>2, <2>3, RecoveredHolds
<1>4. CASE ScopeCoherent
  <2>1. ~scope.lease
    BY <1>4 DEF ScopeCoherent, PInv, ScopeShape
  <2>2. scope' \in {Refused, [scope EXCEPT !.stage = "clear"]}
    BY <1>4 DEF ScopeCoherent
  <2>3. Bare(scope')
    BY <2>1, <2>2, BareShape, RefusedIsBare DEF ScopeStages
  <2> QED
    BY <1>4, <2>1, <2>3, BareStep DEF ScopeCoherent
<1>5. CASE ScopeRefused
  <2>1. ~scope.lease
    BY <1>5 DEF ScopeRefused, PInv, ScopeShape
  <2> QED
    BY <1>5, <2>1, RefusedIsBare, BareStep DEF ScopeRefused
<1>6. CASE ScopeUnretained
  BY <1>6, UnretainedHolds
<1>7. CASE ScopeOpens
  BY <1>7, OpensHolds
<1>8. CASE BeginWorldCullExclusion \/ RestoreForExplicitCull
  BY <1>8, ExcludesHolds DEF BeginWorldCullExclusion, RestoreForExplicitCull
<1>9. CASE ScopeCloses
  BY <1>9, ClosesHolds
<1>10. CASE LoadRecovers
  <2>1. ~scope.lease
    BY <1>10 DEF LoadRecovers, Recover, PInv, OwnerKnown, NoRollback
  <2> QED
    BY <1>10, <2>1, BareShape, RecoverHolds DEF LoadRecovers
<1>11. CASE LoadRecovered
  <2>1. ~scope.lease
    BY <1>11 DEF LoadRecovered, RecoveredBy, PInv, OwnerKnown, NoRelease
  <2> QED
    BY <1>11, <2>1, BareShape, RecoveredHolds DEF LoadRecovered
<1>12. CASE GameSetsBody
  BY <1>12, GameHolds
<1>13. CASE UNCHANGED playerVars
  BY <1>13 DEF playerVars, PInv, PlayerTypes, ScopeShape, OwnerKnown, RootRetained, PriorsKnown,
               ValuesOwed
<1> QED
  BY <1>1, <1>2, <1>3, <1>4, <1>5, <1>6, <1>7, <1>8, <1>9, <1>10, <1>11, <1>12, <1>13
  DEF PlayerNext

\* What the invariant says is what the property does.
LEMMA OwedAsStated == PInv => BodyHasOwner
<1> SUFFICES ASSUME PInv PROVE BodyHasOwner
  OBVIOUS
<1> DEFINE S == <<"scope", scope.retained, scope.root>>
           B == <<"slot", rollback.root # NoRoot, rollback.root>>
           L == <<"release", release.root # NoRoot, release.root>>
           Holders == {h \in {S, B, L} : h[2]}
<1>1. /\ scope.retained => ~(rollback.root # NoRoot) /\ ~(release.root # NoRoot)
      /\ rollback.root # NoRoot => ~(release.root # NoRoot)
  BY DEF PInv, ScopeShape, OwnerKnown, NoRollback, NoRelease
<1>2. /\ S[2] = scope.retained /\ S[3] = scope.root
      /\ B[2] = (rollback.root # NoRoot) /\ B[3] = rollback.root
      /\ L[2] = (release.root # NoRoot) /\ L[3] = release.root
  OBVIOUS
<1>3. \E x : Holders \subseteq {x}
  <2> HIDE DEF S, B, L
  <2>1. CASE scope.retained
    <3>1. Holders \subseteq {S}
      BY <1>1, <1>2, <2>1
    <3> QED
      BY <3>1
  <2>2. CASE ~scope.retained /\ rollback.root # NoRoot
    <3>1. Holders \subseteq {B}
      BY <1>1, <1>2, <2>2
    <3> QED
      BY <3>1
  <2>3. CASE ~scope.retained /\ ~(rollback.root # NoRoot)
    <3>1. Holders \subseteq {L}
      BY <1>2, <2>3
    <3> QED
      BY <3>1
  <2> QED
    BY <2>1, <2>2, <2>3
<1>4. Cardinality(Holders) <= 1
  <2>1. PICK x : Holders \subseteq {x}
    BY <1>3
  <2>2. IsFiniteSet({x}) /\ Cardinality({x}) = 1
    BY FS_Singleton
  <2> HIDE DEF Holders
  <2> QED
    BY <2>1, <2>2, FS_Subset
<1>5. \A h \in Holders : rootRefs[h[3]] >= 1
  <2> HIDE DEF S, B, L
  <2> QED
    BY <1>2 DEF PInv, RootRetained
<1>6. \A r \in Roots : rootRefs[r] >= 0
  BY DEF PInv, PlayerTypes
<1>7. OneHolder
  BY <1>4, <1>5, <1>6 DEF OneHolder
<1>8. ASSUME NEW r \in Roots, body[r] # game[r]
      PROVE  \E s \in {scope, rollback} :
               /\ s.root = r
               /\ body[r].culled # game[r].culled => s.culls /\ s.prior.culled = game[r].culled
               /\ body[r].faded # game[r].faded => s.fades /\ s.prior.faded = game[r].faded
  <2>1. body[r].culled # game[r].culled \/ body[r].faded # game[r].faded
    BY <1>8 DEF PInv, PlayerTypes, Values
  <2>2. /\ scope.root = r /\ (scope.culls \/ scope.fades) => scope.prior = game[r]
        /\ rollback.root = r => rollback.prior = game[r]
    BY PlayerConstants DEF PInv, ScopeShape, PriorsKnown
  <2>3. ~((scope.culls \/ scope.fades) /\ rollback.root = r)
    BY <1>1, PlayerConstants DEF PInv, ScopeShape
  <2> QED
    BY <2>1, <2>2, <2>3 DEF PInv, ValuesOwed
<1> QED
  BY <1>7, <1>8 DEF BodyHasOwner

-----------------------------------------------------------------------------
(* The mirror item *)

\* The places of a capture, the failures a machine latches, and its phases.
ItemPlaces == {"none", "start", "recovered", "read", "begun", "retained", "written", "completed",
               "active", "closing", "closeread", "closed", "restoring", "again", "rewritten",
               "reread", "restored", "settling", "judging", "returned"}
ItemFailures == {"none", "abnormal", "missing", "drift", "ancestry", "mismatch"}
ItemPhases == {"idle", "no-write", "awaiting-set", "owned-write", "awaiting-restore",
               "fail-stop", "closed", "faulted"}

\* Machines, leases and tickets.
MachineSet ==
  [phase : ItemPhases, first : ItemFailures, prior : BOOLEAN, owned : BOOLEAN, proven : BOOLEAN]
LeaseSet ==
  [at : ItemPlaces, target : Items \cup {NoItem}, ok : BOOLEAN, culled : BOOLEAN, tries : Nat,
   closing : BOOLEAN, pass : {"none", "normal", "failed", "native-fault"},
   context : {"ordinary", "pass-failed"}, retained : Items \cup {NoItem}, may : BOOLEAN,
   faulted : BOOLEAN, cleanupOnly : BOOLEAN, clone : {"current", "stale", "replaced"},
   plain : BOOLEAN]
TicketSet == [item : Items, prior : BOOLEAN] \cup {NoTicket}

\* The types.
ItemTyped ==
  /\ item \in [Items -> BOOLEAN] /\ worn \in [Items -> BOOLEAN]
  /\ itemRefs \in [Items -> Nat]
  /\ machine \in MachineSet /\ lease \in LeaseSet /\ ticket \in TicketSet
  /\ suspended \in BOOLEAN /\ latched \in BOOLEAN

\* What differs is owed by the capture, or by the ticket.
ItemOwed ==
  /\ \A i \in Items : item[i] # worn[i] => i \in {lease.retained, ticket.item}
  /\ ticket # NoTicket => ticket.prior = worn[ticket.item]
  /\ lease.retained # NoItem => /\ lease.retained = lease.target /\ lease.may
                                /\ machine.prior = worn[lease.target]
  /\ lease.may /\ lease.at # "returned" => lease.retained # NoItem
  /\ ticket # NoTicket => lease.at \in {"none", "start", "recovered", "returned"}
  /\ lease.at \notin {"none", "returned"} => lease.target \in Items

\* A reference for each that is owed, and exactly one unless a call has failed.
ItemRefsKnown ==
  \A i \in Items :
    /\ i \in {lease.retained, ticket.item} => itemRefs[i] >= 1
    /\ ~latched => itemRefs[i] = IF i \in {lease.retained, ticket.item} THEN 1 ELSE 0

\* How far a capture has come.
ItemPlace ==
  /\ lease.at = "none" => lease = NoLease
  /\ lease.at \in {"none", "start", "recovered", "read"} => machine = NewMachine
  /\ lease.at \in {"none", "start", "recovered", "read", "begun", "judging", "returned"} =>
       lease.retained = NoItem
  /\ lease.at = "recovered" /\ lease.ok => ticket = NoTicket
  /\ lease.at = "returned" => ticket = NoTicket \/ lease.cleanupOnly \/ lease.faulted
  /\ lease.at \in {"read", "written", "rewritten"} => lease.culled = item[lease.target]
  /\ lease.at = "begun" =>
       /\ machine.phase \in {"no-write", "faulted", "awaiting-set"} /\ ~machine.owned
       /\ machine.phase = "awaiting-set" => machine.prior = item[lease.target]
       /\ machine.phase # "faulted" => machine.first = "none"
  /\ lease.at \in {"retained", "written"} => machine.first = "none" /\ ~machine.owned
  /\ lease.at \in {"begun", "retained", "written", "completed", "active", "closing",
                   "closeread"} => ~machine.proven
  /\ lease.at \in {"retained", "written", "completed", "restoring", "again", "rewritten",
                   "reread"} => lease.retained # NoItem
  /\ lease.at = "completed" /\ machine.owned => machine.phase = "owned-write"
  /\ lease.at \in {"none", "start", "recovered", "read", "begun", "retained", "written", "completed",
                   "active"} => ~lease.closing
  /\ ~lease.closing => lease.pass = "none"
  /\ lease.at \in {"closing", "closeread"} => lease.pass # "none"
  /\ lease.at \in {"active", "closing", "closeread", "closed"} =>
       (lease.retained # NoItem <=> machine.owned)
  /\ lease.at \in {"active", "closing", "closeread"} =>
       machine.phase = IF machine.owned THEN "owned-write" ELSE "no-write"
  /\ lease.at = "closed" => (machine.phase \in {"closed", "faulted"} <=> ~machine.owned)
  /\ lease.at = "reread" /\ machine.proven => item[lease.target] = worn[lease.target]
  /\ lease.at \in {"restored", "settling"} =>
       /\ lease.ok => lease.retained = NoItem /\ machine.proven
       /\ lease.retained = NoItem => lease.ok \/ lease.faulted \/ ~machine.owned
  /\ lease.at = "judging" => machine.first # "none" /\ machine.proven

\* What is known of a capture whose every call worked, and of the hidden item.
ItemPlain ==
  /\ lease.plain /\ lease.at \notin {"none", "returned"} => ~latched /\ ~lease.faulted
  /\ lease.at = "start" => lease.plain
  /\ lease.at \in {"start", "read"} \/ (lease.at = "recovered" /\ lease.plain) => lease.ok
  /\ lease.at = "begun" /\ machine.phase = "no-write" => item[lease.target]
  /\ lease.at \in {"active", "closing"} \/ (lease.at = "completed" /\ machine.owned) =>
       item[lease.target]
  /\ lease.plain =>
       /\ lease.at \in {"written", "rewritten", "closeread"} => lease.ok
       /\ lease.at \in {"written", "closeread"} => lease.culled
       /\ lease.at = "rewritten" => lease.culled = machine.prior
       /\ lease.pass \in {"none", "normal"} => machine.first \in {"none", "drift", "ancestry"}

\* Why a machine has failed, and which of its phases tell that it has.
ItemFaults ==
  /\ machine.first \in {"drift", "ancestry"} => lease.clone # "current" /\ ~machine.proven
  /\ machine.first = "ancestry" => lease.at \in {"begun", "returned"} /\ ~machine.owned
  /\ lease.at = "closed" => lease.closing /\ (machine.phase = "closed" => machine.first = "none")
  /\ lease.at \in {"begun", "closed"} /\ machine.phase = "faulted" => machine.first # "none"
  /\ lease.at \in {"completed", "restoring", "again", "rewritten", "reread", "restored",
                   "settling"} /\ ~machine.owned => machine.first # "none"
  /\ lease.at \in {"restoring", "again", "rewritten", "reread", "restored"} /\ ~lease.closing =>
       ~machine.owned

\* Together they are inductive.
ItemInv ==
  /\ ItemTyped /\ ItemOwed /\ ItemRefsKnown
  /\ ItemPlace /\ ItemPlain /\ ItemFaults /\ HidingSurvivesInventory

-----------------------------------------------------------------------------
\* A write leaves the other items alone, and a verified one leaves its value.
LEMMA WrittenFact ==
  ASSUME item \in [Items -> BOOLEAN], NEW i \in Items, NEW v \in BOOLEAN, NEW how \in Writes,
         Written(i, v, how)
  PROVE  /\ item' \in [Items -> BOOLEAN]
         /\ \A j \in Items : j # i => item'[j] = item[j]
         /\ how = "verified" => item'[i] = v
<1>1. PICK b \in BOOLEAN : item' = [item EXCEPT ![i] = b] /\ (how = "verified" => b = v)
  BY DEF Written, Writes
<1> QED
  BY <1>1

\* A dropped reference is one less, unless the call has failed.
LEMMA DroppedFact ==
  ASSUME itemRefs \in [Items -> Nat], NEW i \in Items, itemRefs[i] >= 1, NEW released \in BOOLEAN,
         ItemDropped(i, released)
  PROVE  /\ itemRefs' \in [Items -> Nat]
         /\ \A j \in Items : j # i => itemRefs'[j] = itemRefs[j]
         /\ released => itemRefs'[i] = itemRefs[i] - 1
<1>1. PICK n \in {0, 1} : itemRefs' = [itemRefs EXCEPT ![i] = @ - n] /\ (released => n = 1)
  BY DEF ItemDropped
<1>2. itemRefs[i] - n \in Nat
  BY <1>1
<1> QED
  BY <1>1, <1>2

\* A capture starts with a fresh lease; nothing is owed that was not.
LEMMA BeginStartsKeeps == ASSUME ItemInv, BeginStarts PROVE ItemInv'
<1>0. lease \in LeaseSet /\ UNCHANGED <<item, worn, itemRefs, machine, ticket, suspended, latched>>
  BY DEF ItemInv, ItemTyped, BeginStarts
<1>1. PICK i \in Items : lease' = [NoLease EXCEPT !.at = "start", !.target = i]
  BY DEF BeginStarts
<1>2. /\ lease' \in LeaseSet
      /\ lease'.at = "start" /\ lease'.target = i /\ lease'.retained = NoItem /\ ~lease'.may
      /\ lease'.pass = "none" /\ ~lease'.faulted /\ lease'.clone = "current" /\ lease'.plain
      /\ ~lease'.closing /\ lease'.ok
  BY <1>1 DEF NoLease, LeaseSet, ItemPlaces
<1>3. lease.at = "none" /\ ~latched /\ lease.retained = NoItem /\ machine = NewMachine
  BY DEF BeginStarts, ItemInv, ItemPlace, NoLease
<1>4. machine.first = "none" /\ ~machine.proven /\ ~machine.owned
  BY <1>3 DEF NewMachine
<1> HIDE <1>1
<1>5. ItemTyped'
  BY <1>0, <1>2 DEF ItemInv, ItemTyped
<1>6. ItemOwed'
  BY <1>0, <1>2, <1>3 DEF ItemInv, ItemOwed
<1>7. ItemRefsKnown'
  BY <1>0, <1>2, <1>3 DEF ItemInv, ItemRefsKnown
<1>8. ItemPlace'
  BY <1>0, <1>2, <1>3 DEF ItemInv, ItemPlace
<1>9. ItemPlain' /\ ItemFaults' /\ HidingSurvivesInventory'
  BY <1>0, <1>2, <1>3, <1>4 DEF ItemInv, ItemPlain, ItemFaults, HidingSurvivesInventory
<1> QED
  BY <1>5, <1>6, <1>7, <1>8, <1>9 DEF ItemInv

\* A ticket that is tried is paid, or kept.
LEMMA RecoverFact ==
  ASSUME ItemInv, ticket # NoTicket, NEW ok \in BOOLEAN, TryRecover(ok)
  PROVE  /\ item' \in [Items -> BOOLEAN] /\ itemRefs' \in [Items -> Nat]
         /\ latched' \in BOOLEAN /\ (latched => latched')
         /\ ticket' \in {ticket, NoTicket} /\ (ok => ticket' = NoTicket /\ latched' = latched)
         /\ lease.retained = NoItem
         /\ \A i \in Items : item'[i] # worn[i] => i = ticket'.item
         /\ \A i \in Items : /\ i = ticket'.item => itemRefs'[i] >= 1
                             /\ ~latched' => itemRefs'[i] = IF i = ticket'.item THEN 1 ELSE 0
<1>1. PICK how \in Writes, released \in BOOLEAN :
        /\ Written(ticket.item, ticket.prior, how)
        /\ IF how = "verified"
           THEN ticket' = NoTicket /\ ItemDropped(ticket.item, released) /\ Latched(~released)
           ELSE Latched(how = "fault") /\ UNCHANGED <<ticket, itemRefs>>
        /\ ok = (how = "verified" /\ released)
  BY DEF TryRecover
<1>2. /\ ticket.item \in Items /\ ticket.prior \in BOOLEAN
      /\ item \in [Items -> BOOLEAN] /\ itemRefs \in [Items -> Nat] /\ latched \in BOOLEAN
  BY DEF ItemInv, ItemTyped, TicketSet
<1>3. lease.retained = NoItem
  BY DEF ItemInv, ItemOwed, ItemPlace, NoLease
<1>4. \A i \in Items : i # NoItem
  BY ItemConstants
<1>5. /\ ticket.prior = worn[ticket.item]
      /\ \A i \in Items :
           /\ item[i] # worn[i] => i = ticket.item
           /\ i = ticket.item => itemRefs[i] >= 1
           /\ ~latched => itemRefs[i] = IF i = ticket.item THEN 1 ELSE 0
  BY <1>3, <1>4 DEF ItemInv, ItemOwed, ItemRefsKnown
<1>6. /\ item' \in [Items -> BOOLEAN]
      /\ \A j \in Items : j # ticket.item => item'[j] = item[j]
      /\ how = "verified" => item'[ticket.item] = ticket.prior
  BY <1>1, <1>2, WrittenFact
<1>7. NoTicket.item = NoItem
  BY DEF NoTicket
<1>8. CASE how = "verified"
  <2>1. /\ ticket' = NoTicket /\ latched' = (latched \/ ~released)
        /\ ItemDropped(ticket.item, released)
    BY <1>1, <1>8 DEF Latched
  <2>2. /\ itemRefs' \in [Items -> Nat]
        /\ \A j \in Items : j # ticket.item => itemRefs'[j] = itemRefs[j]
        /\ released => itemRefs'[ticket.item] = itemRefs[ticket.item] - 1
    BY <1>2, <1>5, <2>1, DroppedFact
  <2>3. \A i \in Items : item'[i] = worn[i]
    BY <1>5, <1>6, <1>8
  <2>4. ASSUME NEW i \in Items, ~latched' PROVE itemRefs'[i] = 0
    <3>1. released /\ ~latched
      BY <2>1, <2>4
    <3>2. CASE i = ticket.item
      BY <1>5, <2>2, <3>1, <3>2
    <3>3. CASE i # ticket.item
      BY <1>5, <2>2, <3>1, <3>3
    <3> QED
      BY <3>2, <3>3
  <2>5. latched' \in BOOLEAN /\ (latched => latched') /\ (ok => latched' = latched)
    BY <1>1, <1>2, <2>1
  <2> QED
    BY <1>3, <1>4, <1>6, <1>7, <2>1, <2>2, <2>3, <2>4, <2>5
<1>9. CASE how # "verified"
  <2>1. /\ ticket' = ticket /\ itemRefs' = itemRefs /\ latched' = (latched \/ how = "fault")
    BY <1>1, <1>9 DEF Latched
  <2> QED
    BY <1>1, <1>2, <1>3, <1>5, <1>6, <1>9, <2>1
<1> QED
  BY <1>8, <1>9

\* A lease that a transition refuses has neither read nor written.
LEMMA BeginRefusedKeeps == ASSUME ItemInv, BeginRefused PROVE ItemInv'
<1>1. /\ UNCHANGED <<item, worn, itemRefs, machine, ticket, suspended, latched>>
      /\ lease.at \in {"start", "recovered"}
  BY DEF BeginRefused
<1>2. /\ lease' \in LeaseSet
      /\ lease'.at = "returned" /\ lease'.target = lease.target /\ lease'.ok = lease.ok
      /\ lease'.culled = lease.culled /\ lease'.closing = lease.closing
      /\ lease'.pass = lease.pass /\ lease'.context = lease.context
      /\ lease'.retained = lease.retained /\ lease'.may = lease.may
      /\ lease'.faulted = lease.faulted /\ lease'.cleanupOnly = TRUE
      /\ lease'.clone = lease.clone /\ lease'.plain = lease.plain
  BY DEF ItemInv, ItemTyped, BeginRefused, Returns, Goes, LeaseSet, ItemPlaces
<1>3. machine = NewMachine /\ ~machine.owned /\ lease.retained = NoItem
  BY <1>1 DEF ItemInv, ItemPlace, NewMachine
<1>4. ItemTyped'
  BY <1>1, <1>2, <1>3 DEF ItemInv, ItemTyped
<1>5. ItemOwed'
  BY <1>1, <1>2, <1>3 DEF ItemInv, ItemOwed
<1>6. ItemRefsKnown'
  BY <1>1, <1>2, <1>3 DEF ItemInv, ItemRefsKnown
<1>7. ItemPlace'
  BY <1>1, <1>2, <1>3 DEF ItemInv, ItemPlace
<1>8. ItemPlain'
  BY <1>1, <1>2, <1>3 DEF ItemInv, ItemPlain
<1>9. ItemFaults'
  BY <1>1, <1>2, <1>3 DEF ItemInv, ItemFaults
<1>10. HidingSurvivesInventory'
  BY <1>1, <1>2, <1>3 DEF ItemInv, ItemPlain, HidingSurvivesInventory, NativeFault
<1> QED
  BY <1>4, <1>5, <1>6, <1>7, <1>8, <1>9, <1>10 DEF ItemInv

\* A pending ticket is tried before the lease begins.
LEMMA BeginRecoversKeeps == ASSUME ItemInv, BeginRecovers PROVE ItemInv'
<1>1. lease.at = "start" /\ UNCHANGED <<worn, suspended, machine>>
  BY DEF BeginRecovers, At
<1>2. machine = NewMachine /\ ~machine.owned /\ ~machine.proven /\ machine.first = "none"
  BY <1>1 DEF ItemInv, ItemPlace, NewMachine
<1>3. CASE ticket = NoTicket
  <2>1. UNCHANGED <<item, itemRefs, ticket, latched>>
    BY <1>3 DEF BeginRecovers
  <2>2. /\ lease' \in LeaseSet
        /\ lease'.at = "recovered" /\ lease'.target = lease.target /\ lease'.ok = lease.ok
        /\ lease'.culled = lease.culled /\ lease'.closing = lease.closing
        /\ lease'.pass = lease.pass /\ lease'.context = lease.context
        /\ lease'.retained = lease.retained /\ lease'.may = lease.may
        /\ lease'.faulted = lease.faulted /\ lease'.cleanupOnly = lease.cleanupOnly
        /\ lease'.clone = lease.clone /\ lease'.plain = lease.plain
    BY <1>3 DEF ItemInv, ItemTyped, BeginRecovers, Goes, LeaseSet, ItemPlaces
  <2>3. ItemTyped'
    BY <1>1, <1>2, <1>3, <2>1, <2>2 DEF ItemInv, ItemTyped
  <2>4. ItemOwed'
    BY <1>1, <1>2, <1>3, <2>1, <2>2 DEF ItemInv, ItemOwed
  <2>5. ItemRefsKnown'
    BY <1>1, <1>2, <1>3, <2>1, <2>2 DEF ItemInv, ItemRefsKnown
  <2>6. ItemPlace'
    BY <1>1, <1>2, <1>3, <2>1, <2>2 DEF ItemInv, ItemPlace
  <2>7. ItemPlain'
    BY <1>1, <1>2, <1>3, <2>1, <2>2 DEF ItemInv, ItemPlain
  <2>8. ItemFaults'
    BY <1>1, <1>2, <1>3, <2>1, <2>2 DEF ItemInv, ItemFaults
  <2>9. HidingSurvivesInventory'
    BY <1>1, <1>2, <1>3, <2>1, <2>2 DEF HidingSurvivesInventory
  <2> QED
    BY <2>3, <2>4, <2>5, <2>6, <2>7, <2>8, <2>9 DEF ItemInv
<1>4. CASE ticket # NoTicket
  <2>1. PICK ok \in BOOLEAN :
          TryRecover(ok) /\ Goes([lease EXCEPT !.ok = ok, !.plain = ok], "recovered")
    BY <1>4 DEF BeginRecovers
  <2>2. /\ lease' \in LeaseSet
        /\ lease'.at = "recovered" /\ lease'.target = lease.target /\ lease'.ok = ok
        /\ lease'.culled = lease.culled /\ lease'.closing = lease.closing
        /\ lease'.pass = lease.pass /\ lease'.context = lease.context
        /\ lease'.retained = lease.retained /\ lease'.may = lease.may
        /\ lease'.faulted = lease.faulted /\ lease'.cleanupOnly = lease.cleanupOnly
        /\ lease'.clone = lease.clone /\ lease'.plain = ok
    BY <2>1 DEF ItemInv, ItemTyped, Goes, LeaseSet, ItemPlaces
  <2>3. /\ item' \in [Items -> BOOLEAN] /\ itemRefs' \in [Items -> Nat]
        /\ latched' \in BOOLEAN /\ (latched => latched')
        /\ ticket' \in {ticket, NoTicket} /\ (ok => ticket' = NoTicket /\ latched' = latched)
        /\ lease.retained = NoItem
        /\ \A i \in Items : item'[i] # worn[i] => i = ticket'.item
        /\ \A i \in Items : /\ i = ticket'.item => itemRefs'[i] >= 1
                            /\ ~latched' => itemRefs'[i] = IF i = ticket'.item THEN 1 ELSE 0
    BY <1>4, <2>1, RecoverFact
  <2>4. NoTicket \in TicketSet /\ \A i \in Items : i # NoItem
    BY ItemConstants DEF TicketSet
  <2>5. ItemTyped'
    BY <1>1, <1>2, <2>2, <2>3, <2>4 DEF ItemInv, ItemTyped
  <2>6. ItemOwed'
    BY <1>1, <1>2, <2>2, <2>3, <2>4 DEF ItemInv, ItemOwed
  <2>7. ItemRefsKnown'
    BY <1>1, <1>2, <2>2, <2>3, <2>4 DEF ItemInv, ItemRefsKnown
  <2>8. ItemPlace'
    BY <1>1, <1>2, <2>2, <2>3, <2>4 DEF ItemInv, ItemPlace
  <2>9. ItemPlain'
    BY <1>1, <1>2, <2>2, <2>3, <2>4 DEF ItemInv, ItemPlain
  <2>10. ItemFaults'
    BY <1>1, <1>2, <2>2, <2>3, <2>4 DEF ItemInv, ItemFaults
  <2>11. HidingSurvivesInventory'
    BY <1>1, <1>2, <2>2, <2>3, <2>4 DEF HidingSurvivesInventory
  <2> QED
    BY <2>5, <2>6, <2>7, <2>8, <2>9, <2>10, <2>11 DEF ItemInv
<1> QED
  BY <1>3, <1>4

\* A lease is read only once no ticket is pending.
LEMMA BeginReadsKeeps == ASSUME ItemInv, BeginReads PROVE ItemInv'
<1>1. lease.at = "recovered" /\ UNCHANGED <<item, worn, itemRefs, machine, ticket, suspended>>
  BY DEF BeginReads, At
<1>2. /\ machine = NewMachine /\ ~machine.owned /\ ~machine.proven /\ machine.first = "none"
      /\ lease.retained = NoItem
      /\ lease.ok => ticket = NoTicket
  BY <1>1 DEF ItemInv, ItemPlace, NewMachine
<1>3. CASE ~lease.ok /\ Goes([lease EXCEPT !.faulted = TRUE], "returned") /\ UNCHANGED latched
  <2>1. /\ lease' \in LeaseSet
        /\ lease'.at = "returned" /\ lease'.target = lease.target /\ lease'.ok = lease.ok
        /\ lease'.culled = lease.culled /\ lease'.closing = lease.closing
        /\ lease'.pass = lease.pass /\ lease'.context = lease.context
        /\ lease'.retained = lease.retained /\ lease'.may = lease.may /\ lease'.faulted = TRUE
        /\ lease'.cleanupOnly = lease.cleanupOnly /\ lease'.clone = lease.clone
        /\ lease'.plain = lease.plain
    BY <1>3 DEF ItemInv, ItemTyped, Goes, LeaseSet, ItemPlaces
  <2>2. UNCHANGED latched /\ ~lease.plain
    BY <1>1, <1>3 DEF ItemInv, ItemPlain
  <2>3. ItemTyped'
    BY <1>1, <1>2, <2>1, <2>2 DEF ItemInv, ItemTyped
  <2>4. ItemOwed'
    BY <1>1, <1>2, <2>1, <2>2 DEF ItemInv, ItemOwed
  <2>5. ItemRefsKnown'
    BY <1>1, <1>2, <2>1, <2>2 DEF ItemInv, ItemRefsKnown
  <2>6. ItemPlace'
    BY <1>1, <1>2, <2>1, <2>2 DEF ItemInv, ItemPlace
  <2>7. ItemPlain'
    BY <1>1, <1>2, <2>1, <2>2 DEF ItemInv, ItemPlain
  <2>8. ItemFaults'
    BY <1>1, <1>2, <2>1, <2>2 DEF ItemInv, ItemFaults
  <2>9. HidingSurvivesInventory'
    BY <1>1, <1>2, <2>1, <2>2 DEF HidingSurvivesInventory
  <2> QED
    BY <2>3, <2>4, <2>5, <2>6, <2>7, <2>8, <2>9 DEF ItemInv
<1>4. CASE lease.ok /\ Goes([lease EXCEPT !.culled = item[lease.target]], "read") /\ UNCHANGED latched
  <2>1. item[lease.target] \in BOOLEAN
    BY <1>1 DEF ItemInv, ItemTyped, ItemOwed
  <2>2. /\ lease' \in LeaseSet
        /\ lease'.at = "read" /\ lease'.target = lease.target /\ lease'.ok = lease.ok
        /\ lease'.culled = item[lease.target] /\ lease'.closing = lease.closing
        /\ lease'.pass = lease.pass /\ lease'.context = lease.context
        /\ lease'.retained = lease.retained /\ lease'.may = lease.may
        /\ lease'.faulted = lease.faulted /\ lease'.cleanupOnly = lease.cleanupOnly
        /\ lease'.clone = lease.clone /\ lease'.plain = lease.plain
    BY <1>4, <2>1 DEF ItemInv, ItemTyped, Goes, LeaseSet, ItemPlaces
  <2>3. lease.ok /\ UNCHANGED latched
    BY <1>4
  <2>4. ItemTyped'
    BY <1>1, <1>2, <2>2, <2>3 DEF ItemInv, ItemTyped
  <2>5. ItemOwed'
    BY <1>1, <1>2, <2>2, <2>3 DEF ItemInv, ItemOwed
  <2>6. ItemRefsKnown'
    BY <1>1, <1>2, <2>2, <2>3 DEF ItemInv, ItemRefsKnown
  <2>7. ItemPlace'
    BY <1>1, <1>2, <2>2, <2>3 DEF ItemInv, ItemPlace
  <2>8. ItemPlain'
    BY <1>1, <1>2, <2>2, <2>3 DEF ItemInv, ItemPlain
  <2>9. ItemFaults'
    BY <1>1, <1>2, <2>2, <2>3 DEF ItemInv, ItemFaults
  <2>10. HidingSurvivesInventory'
    BY <1>1, <1>2, <2>2, <2>3 DEF HidingSurvivesInventory
  <2> QED
    BY <2>4, <2>5, <2>6, <2>7, <2>8, <2>9, <2>10 DEF ItemInv
<1>5. CASE lease.ok /\ FailStops([lease EXCEPT !.plain = FALSE])
  <2>1. /\ lease' \in LeaseSet
        /\ lease'.at = "returned" /\ lease'.target = lease.target /\ lease'.ok = lease.ok
        /\ lease'.culled = lease.culled /\ lease'.closing = lease.closing
        /\ lease'.pass = lease.pass /\ lease'.context = lease.context
        /\ lease'.retained = lease.retained /\ lease'.may = lease.may /\ lease'.faulted = TRUE
        /\ lease'.cleanupOnly = lease.cleanupOnly /\ lease'.clone = lease.clone
        /\ lease'.plain = FALSE
    BY <1>5 DEF ItemInv, ItemTyped, FailStops, Goes, LeaseSet, ItemPlaces
  <2>2. latched' = TRUE
    BY <1>5 DEF FailStops
  <2>3. ItemTyped'
    BY <1>1, <1>2, <2>1, <2>2 DEF ItemInv, ItemTyped
  <2>4. ItemOwed'
    BY <1>1, <1>2, <2>1, <2>2 DEF ItemInv, ItemOwed
  <2>5. ItemRefsKnown'
    BY <1>1, <1>2, <2>1, <2>2 DEF ItemInv, ItemRefsKnown
  <2>6. ItemPlace'
    BY <1>1, <1>2, <2>1, <2>2 DEF ItemInv, ItemPlace
  <2>7. ItemPlain'
    BY <1>1, <1>2, <2>1, <2>2 DEF ItemInv, ItemPlain
  <2>8. ItemFaults'
    BY <1>1, <1>2, <2>1, <2>2 DEF ItemInv, ItemFaults
  <2>9. HidingSurvivesInventory'
    BY <1>1, <1>2, <2>1, <2>2 DEF HidingSurvivesInventory
  <2> QED
    BY <2>3, <2>4, <2>5, <2>6, <2>7, <2>8, <2>9 DEF ItemInv
<1> QED
  BY <1>3, <1>4, <1>5 DEF BeginReads

\* An observation that is completed has the status of its call.
LEMMA ObservationFact ==
  ASSUME NEW ob \in Observations
  PROVE  /\ ob.status \in {"returned", "failed", "unread"} /\ ob.exact \in BOOLEAN
         /\ Completes(ob) => /\ ob.status = IF lease.ok THEN "returned" ELSE "failed"
                             /\ ob.exact <=> lease.clone = "current"
<1> DEFINE exact == lease.clone = "current"
           status == IF lease.ok THEN "returned" ELSE "failed"
<1>1. exact \in BOOLEAN /\ status \in {"returned", "failed"}
  OBVIOUS
<1>2. \/ ob = [status |-> status, exact |-> exact]
      \/ ob = [status |-> "unread", exact |-> FALSE]
  BY DEF Observations
<1> HIDE DEF exact, status
<1>3. /\ ob.status \in {"returned", "failed", "unread"} /\ ob.exact \in BOOLEAN
      /\ ob.status # "unread" => ob.status = status /\ ob.exact = exact
  <2>1. CASE ob = [status |-> status, exact |-> exact]
    <3>1. ob.status = status /\ ob.exact = exact
      BY <2>1
    <3> QED
      BY <1>1, <3>1
  <2>2. CASE ob = [status |-> "unread", exact |-> FALSE]
    BY <2>2
  <2> QED
    BY <1>2, <2>1, <2>2
<1> QED
  BY <1>3 DEF exact, status, Completes

\* What the first observation finds decides whether a write is due.
LEMMA BeginObservesKeeps == ASSUME ItemInv, BeginObserves PROVE ItemInv'
<1>1. /\ lease.at = "read" /\ ~suspended
      /\ UNCHANGED <<item, worn, itemRefs, ticket, suspended, latched>>
  BY DEF BeginObserves, At
<1>2. PICK ob \in Observations :
        /\ machine' = MachineBegin(machine, ob, lease.culled)
        /\ Goes([lease EXCEPT !.plain = @ /\ Completes(ob)], "begun")
  BY DEF BeginObserves
<1> DEFINE plain == lease.plain /\ Completes(ob)
<1>3. /\ plain \in BOOLEAN /\ (plain => lease.plain /\ Completes(ob))
      /\ lease' = [lease EXCEPT !.plain = plain, !.at = "begun"]
  BY <1>2 DEF Completes, Goes, ItemInv, ItemTyped, LeaseSet
<1> HIDE DEF plain
<1>4. /\ lease' \in LeaseSet
      /\ lease'.at = "begun" /\ lease'.target = lease.target /\ lease'.ok = lease.ok
      /\ lease'.culled = lease.culled /\ lease'.closing = lease.closing
      /\ lease'.pass = lease.pass /\ lease'.context = lease.context
      /\ lease'.retained = lease.retained /\ lease'.may = lease.may
      /\ lease'.faulted = lease.faulted /\ lease'.cleanupOnly = lease.cleanupOnly
      /\ lease'.clone = lease.clone /\ lease'.plain = plain
  BY <1>3 DEF ItemInv, ItemTyped, LeaseSet, ItemPlaces
<1>5. /\ machine = NewMachine /\ lease.retained = NoItem /\ lease.culled = item[lease.target]
      /\ lease.culled \in BOOLEAN
  BY <1>1 DEF ItemInv, ItemPlace, ItemTyped, LeaseSet
<1>6. /\ machine' \in MachineSet /\ ~machine'.owned /\ ~machine'.proven
      /\ machine'.phase \in {"no-write", "faulted", "awaiting-set"}
      /\ machine'.phase = "awaiting-set" => machine'.prior = lease.culled
      /\ machine'.phase # "faulted" <=> machine'.first = "none"
      /\ machine'.phase = "no-write" => lease.culled
      /\ machine'.first \in {"none", "abnormal", "missing", "ancestry"}
      /\ machine'.first = "ancestry" => lease.clone # "current"
      /\ plain => machine'.first \in {"none", "ancestry"}
  <2>1. /\ ob.status \in {"returned", "failed", "unread"} /\ ob.exact \in BOOLEAN
        /\ Completes(ob) => /\ ob.status = IF lease.ok THEN "returned" ELSE "failed"
                            /\ ob.exact <=> lease.clone = "current"
    BY ObservationFact
  <2>2. PICK f \in {"none", "abnormal", "missing", "ancestry"} :
         /\ machine' = IF f # "none" THEN [Latch(machine, f) EXCEPT !.phase = "faulted"]
                       ELSE [machine EXCEPT !.prior = lease.culled,
                               !.phase = IF lease.culled THEN "no-write" ELSE "awaiting-set"]
         /\ f = "ancestry" => lease.clone # "current"
         /\ plain => f \in {"none", "ancestry"}
    <3>1. lease.ok
      BY <1>1 DEF ItemInv, ItemPlain
    <3> QED
      BY <1>2, <1>3, <2>1, <3>1 DEF MachineBegin, AdapterFailure, Completes
  <2>3. CASE f = "none"
    BY <1>5, <2>2, <2>3 DEF NewMachine, MachineSet, ItemPhases, ItemFailures
  <2>4. CASE f # "none"
    BY <1>5, <2>2, <2>4 DEF NewMachine, Latch, MachineSet, ItemPhases, ItemFailures
  <2> QED
    BY <2>3, <2>4
<1>7. ItemTyped'
  BY <1>1, <1>3, <1>4, <1>5, <1>6 DEF ItemInv, ItemTyped
<1>8. ItemOwed'
  BY <1>1, <1>3, <1>4, <1>5, <1>6 DEF ItemInv, ItemOwed
<1>9. ItemRefsKnown'
  BY <1>1, <1>3, <1>4, <1>5, <1>6 DEF ItemInv, ItemRefsKnown
<1>10. ItemPlace'
  BY <1>1, <1>3, <1>4, <1>5, <1>6 DEF ItemInv, ItemPlace
<1>11. ItemPlain'
  BY <1>1, <1>3, <1>4, <1>5, <1>6 DEF ItemInv, ItemPlain
<1>12. ItemFaults'
  BY <1>1, <1>3, <1>4, <1>5, <1>6 DEF ItemInv, ItemFaults
<1>13. HidingSurvivesInventory'
  BY <1>1, <1>3, <1>4, <1>5, <1>6 DEF HidingSurvivesInventory
<1> QED
  BY <1>7, <1>8, <1>9, <1>10, <1>11, <1>12, <1>13 DEF ItemInv

\* The reference comes before the write it is for.
LEMMA BeginRetainsKeeps == ASSUME ItemInv, BeginRetains PROVE ItemInv'
<1>1. /\ lease.at = "begun" /\ ~suspended
      /\ UNCHANGED <<item, worn, machine, ticket, suspended>>
  BY DEF BeginRetains, At
<1>2. /\ machine.phase \in {"no-write", "faulted", "awaiting-set"}
      /\ ~machine.owned /\ ~machine.proven /\ lease.retained = NoItem /\ ~lease.may
      /\ machine.phase = "awaiting-set" => machine.prior = item[lease.target]
      /\ machine.phase # "faulted" => machine.first = "none"
      /\ ticket = NoTicket /\ lease.target \in Items
      /\ \A i \in Items : item[i] = worn[i]
  <2>1. /\ NoTicket.item = NoItem /\ \A i \in Items : i # NoItem
    BY ItemConstants DEF NoTicket
  <2> QED
    BY <1>1, <2>1 DEF ItemInv, ItemPlace, ItemOwed
<1>3. /\ itemRefs \in [Items -> Nat] /\ \A i \in Items : ~latched => itemRefs[i] = 0
  <2>1. /\ NoTicket.item = NoItem /\ \A i \in Items : i # NoItem
    BY ItemConstants DEF NoTicket
  <2> QED
    BY <1>2, <2>1 DEF ItemInv, ItemTyped, ItemRefsKnown
<1>4. CASE machine.phase = "no-write"
  <2>1. Goes(lease, "active") /\ UNCHANGED <<itemRefs, latched>>
    BY <1>4 DEF BeginRetains
  <2>2. /\ lease' \in LeaseSet
        /\ lease'.at = "active" /\ lease'.target = lease.target /\ lease'.ok = lease.ok
        /\ lease'.culled = lease.culled /\ lease'.closing = lease.closing
        /\ lease'.pass = lease.pass /\ lease'.context = lease.context
        /\ lease'.retained = lease.retained /\ lease'.may = lease.may
        /\ lease'.faulted = lease.faulted /\ lease'.cleanupOnly = lease.cleanupOnly
        /\ lease'.clone = lease.clone /\ lease'.plain = lease.plain
    BY <2>1 DEF ItemInv, ItemTyped, Goes, LeaseSet, ItemPlaces
  <2>3. ItemTyped'
    BY <1>1, <1>2, <1>4, <2>1, <2>2 DEF ItemInv, ItemTyped
  <2>4. ItemOwed'
    BY <1>1, <1>2, <1>4, <2>1, <2>2 DEF ItemInv, ItemOwed
  <2>5. ItemRefsKnown'
    BY <1>1, <1>2, <1>4, <2>1, <2>2 DEF ItemInv, ItemRefsKnown
  <2>6. ItemPlace'
    BY <1>1, <1>2, <1>4, <2>1, <2>2 DEF ItemInv, ItemPlace
  <2>7. ItemPlain'
    BY <1>1, <1>2, <1>4, <2>1, <2>2 DEF ItemInv, ItemPlain
  <2>8. ItemFaults'
    BY <1>1, <1>2, <1>4, <2>1, <2>2 DEF ItemInv, ItemFaults
  <2>9. HidingSurvivesInventory'
    BY <1>1, <1>2, <1>4, <2>1, <2>2 DEF HidingSurvivesInventory
  <2> QED
    BY <2>3, <2>4, <2>5, <2>6, <2>7, <2>8, <2>9 DEF ItemInv
<1>5. CASE machine.phase = "faulted"
  <2>1. FailStops(lease) /\ UNCHANGED itemRefs
    BY <1>5 DEF BeginRetains
  <2>2. /\ lease' \in LeaseSet
        /\ lease'.at = "returned" /\ lease'.target = lease.target /\ lease'.ok = lease.ok
        /\ lease'.culled = lease.culled /\ lease'.closing = lease.closing
        /\ lease'.pass = lease.pass /\ lease'.context = lease.context
        /\ lease'.retained = lease.retained /\ lease'.may = lease.may /\ lease'.faulted = TRUE
        /\ lease'.cleanupOnly = lease.cleanupOnly /\ lease'.clone = lease.clone
        /\ lease'.plain = lease.plain
    BY <2>1 DEF ItemInv, ItemTyped, FailStops, Goes, LeaseSet, ItemPlaces
  <2>3. /\ latched' = TRUE
        /\ lease.plain => lease.clone # "current" /\ ~machine.owned
    BY <1>1, <1>5, <2>1 DEF FailStops, ItemInv, ItemPlace, ItemPlain, ItemFaults
  <2>4. ItemTyped'
    BY <1>1, <1>2, <2>1, <2>2, <2>3 DEF ItemInv, ItemTyped
  <2>5. ItemOwed'
    BY <1>1, <1>2, <2>1, <2>2, <2>3 DEF ItemInv, ItemOwed
  <2>6. ItemRefsKnown'
    BY <1>1, <1>2, <2>1, <2>2, <2>3 DEF ItemInv, ItemRefsKnown
  <2>7. ItemPlace'
    BY <1>1, <1>2, <2>1, <2>2, <2>3 DEF ItemInv, ItemPlace
  <2>8. ItemPlain'
    BY <1>1, <1>2, <2>1, <2>2, <2>3 DEF ItemInv, ItemPlain
  <2>9. ItemFaults'
    BY <1>1, <1>2, <2>1, <2>2, <2>3 DEF ItemInv, ItemFaults
  <2>10. HidingSurvivesInventory'
    BY <1>1, <1>2, <2>2, <2>3 DEF HidingSurvivesInventory
  <2> QED
    BY <2>4, <2>5, <2>6, <2>7, <2>8, <2>9, <2>10 DEF ItemInv
<1>6. CASE /\ machine.phase = "awaiting-set"
           /\ itemRefs' = [itemRefs EXCEPT ![lease.target] = @ + 1]
           /\ Goes([lease EXCEPT !.retained = lease.target, !.may = TRUE], "retained")
           /\ UNCHANGED latched
  <2>1. /\ lease' \in LeaseSet
        /\ lease'.at = "retained" /\ lease'.target = lease.target /\ lease'.ok = lease.ok
        /\ lease'.culled = lease.culled /\ lease'.closing = lease.closing
        /\ lease'.pass = lease.pass /\ lease'.context = lease.context
        /\ lease'.retained = lease.target /\ lease'.may = TRUE /\ lease'.faulted = lease.faulted
        /\ lease'.cleanupOnly = lease.cleanupOnly /\ lease'.clone = lease.clone
        /\ lease'.plain = lease.plain
    BY <1>2, <1>6 DEF ItemInv, ItemTyped, Goes, LeaseSet, ItemPlaces
  <2>2. /\ itemRefs' \in [Items -> Nat]
        /\ \A i \in Items : itemRefs'[i] = IF i = lease.target THEN itemRefs[i] + 1 ELSE itemRefs[i]
    BY <1>2, <1>3, <1>6
  <2>3. UNCHANGED latched
    BY <1>6
  <2>4. NoTicket.item = NoItem /\ \A i \in Items : i # NoItem
    BY ItemConstants DEF NoTicket
  <2>5. ItemTyped'
    BY <1>1, <1>2, <1>3, <1>6, <2>1, <2>2, <2>3, <2>4 DEF ItemInv, ItemTyped
  <2>6. ItemOwed'
    BY <1>1, <1>2, <1>3, <1>6, <2>1, <2>2, <2>3, <2>4 DEF ItemInv, ItemOwed
  <2>7. ItemRefsKnown'
    BY <1>1, <1>2, <1>3, <1>6, <2>1, <2>2, <2>3, <2>4 DEF ItemInv, ItemRefsKnown
  <2>8. ItemPlace'
    BY <1>1, <1>2, <1>3, <1>6, <2>1, <2>2, <2>3, <2>4 DEF ItemInv, ItemPlace
  <2>9. ItemPlain'
    BY <1>1, <1>2, <1>3, <1>6, <2>1, <2>2, <2>3, <2>4 DEF ItemInv, ItemPlain
  <2>10. ItemFaults'
    BY <1>1, <1>2, <1>3, <1>6, <2>1, <2>2, <2>3, <2>4 DEF ItemInv, ItemFaults
  <2>11. HidingSurvivesInventory'
    BY <1>1, <1>2, <1>3, <1>6, <2>1, <2>2, <2>3, <2>4 DEF HidingSurvivesInventory
  <2> QED
    BY <2>5, <2>6, <2>7, <2>8, <2>9, <2>10, <2>11 DEF ItemInv
<1>7. CASE /\ machine.phase = "awaiting-set"
           /\ \E n \in 0 .. 1 : itemRefs' = [itemRefs EXCEPT ![lease.target] = @ + n]
           /\ FailStops([lease EXCEPT !.plain = FALSE])
  <2>1. /\ lease' \in LeaseSet
        /\ lease'.at = "returned" /\ lease'.target = lease.target /\ lease'.ok = lease.ok
        /\ lease'.culled = lease.culled /\ lease'.closing = lease.closing
        /\ lease'.pass = lease.pass /\ lease'.context = lease.context
        /\ lease'.retained = lease.retained /\ lease'.may = lease.may /\ lease'.faulted = TRUE
        /\ lease'.cleanupOnly = lease.cleanupOnly /\ lease'.clone = lease.clone
        /\ lease'.plain = FALSE
    BY <1>7 DEF ItemInv, ItemTyped, FailStops, Goes, LeaseSet, ItemPlaces
  <2>2. latched' = TRUE
    BY <1>7 DEF FailStops
  <2>3. itemRefs' \in [Items -> Nat]
    BY <1>2, <1>3, <1>7
  <2>4. NoTicket.item = NoItem /\ \A i \in Items : i # NoItem
    BY ItemConstants DEF NoTicket
  <2>5. ItemTyped'
    BY <1>1, <1>2, <2>1, <2>2, <2>3, <2>4 DEF ItemInv, ItemTyped
  <2>6. ItemOwed'
    BY <1>1, <1>2, <2>1, <2>2, <2>3, <2>4 DEF ItemInv, ItemOwed
  <2>7. ItemRefsKnown'
    BY <1>1, <1>2, <2>1, <2>2, <2>3, <2>4 DEF ItemInv, ItemRefsKnown
  <2>8. ItemPlace'
    BY <1>1, <1>2, <2>1, <2>2, <2>3, <2>4 DEF ItemInv, ItemPlace
  <2>9. ItemPlain'
    BY <1>1, <1>2, <2>1, <2>2, <2>3, <2>4 DEF ItemInv, ItemPlain
  <2>10. ItemFaults'
    BY <1>1, <1>2, <2>1, <2>2, <2>3, <2>4 DEF ItemInv, ItemFaults
  <2>11. HidingSurvivesInventory'
    BY <1>1, <1>2, <2>1, <2>2, <2>3, <2>4 DEF HidingSurvivesInventory
  <2> QED
    BY <2>5, <2>6, <2>7, <2>8, <2>9, <2>10, <2>11 DEF ItemInv
<1> QED
  BY <1>2, <1>4, <1>5, <1>6, <1>7 DEF BeginRetains

\* A write of the value v to the item that is retained.
LEMMA WritesKeeps ==
  ASSUME ItemInv, NEW v \in BOOLEAN, NEW next \in {"written", "rewritten"},
         lease.at \in {"retained", "restoring", "again"}, WritesItem(v, next),
         next = "written" => v /\ lease.at = "retained",
         next = "rewritten" => v = machine.prior /\ lease.at \in {"restoring", "again"}
  PROVE  ItemInv'
<1>1. UNCHANGED <<worn, itemRefs, machine, ticket, suspended>>
  BY DEF WritesItem
<1>2. PICK how \in Writes :
        /\ Written(lease.target, v, how)
        /\ Latched(how = "fault")
        /\ Goes([lease EXCEPT !.ok = how = "verified", !.culled = item'[lease.target],
                              !.plain = @ /\ how = "verified",
                              !.context = IF how = "verified" THEN @ ELSE "ordinary"], next)
  BY DEF WritesItem
<1>3. /\ lease.target \in Items /\ lease.retained = lease.target /\ ticket = NoTicket
      /\ machine.prior = worn[lease.target]
      /\ NoTicket.item = NoItem
  BY DEF ItemInv, ItemOwed, ItemPlace, NoTicket
<1>4. /\ item' \in [Items -> BOOLEAN]
      /\ \A j \in Items : j # lease.target => item'[j] = item[j]
      /\ how = "verified" => item'[lease.target] = v
  BY <1>2, <1>3, WrittenFact DEF ItemInv, ItemTyped
<1> DEFINE ok == how = "verified"
           plain == lease.plain /\ ok
           context == IF ok THEN lease.context ELSE "ordinary"
<1>5. /\ lease' \in LeaseSet
      /\ lease'.at = next /\ lease'.target = lease.target /\ lease'.ok = ok
      /\ lease'.culled = item'[lease.target] /\ lease'.closing = lease.closing
      /\ lease'.pass = lease.pass /\ lease'.retained = lease.retained /\ lease'.may = lease.may
      /\ lease'.faulted = lease.faulted /\ lease'.cleanupOnly = lease.cleanupOnly
      /\ lease'.clone = lease.clone /\ lease'.plain = plain
  <2>1. /\ ok \in BOOLEAN /\ plain \in BOOLEAN
        /\ context \in {"ordinary", "pass-failed"} /\ item'[lease.target] \in BOOLEAN
    BY <1>3, <1>4 DEF ItemInv, ItemTyped, LeaseSet
  <2>2. lease' = [lease EXCEPT !.ok = ok, !.culled = item'[lease.target], !.plain = plain,
                               !.context = context, !.at = next]
    BY <1>2 DEF Goes, ItemInv, ItemTyped, LeaseSet
  <2>3. next \in ItemPlaces
    BY DEF ItemPlaces
  <2> HIDE DEF ok, plain, context
  <2> QED
    BY <2>1, <2>2, <2>3 DEF ItemInv, ItemTyped, LeaseSet
<1>6. latched' = (latched \/ how = "fault") /\ latched \in BOOLEAN
  BY <1>2 DEF Latched, ItemInv, ItemTyped
<1>7. how # "fault" \/ how # "verified"
  OBVIOUS
<1>8. ItemTyped'
  BY <1>1, <1>3, <1>4, <1>5, <1>6, <1>7 DEF ItemInv, ItemTyped
<1>9. ItemOwed'
  BY <1>1, <1>3, <1>4, <1>5, <1>6, <1>7 DEF ItemInv, ItemOwed
<1>10. ItemRefsKnown'
  BY <1>1, <1>3, <1>4, <1>5, <1>6, <1>7 DEF ItemInv, ItemRefsKnown
<1>11. ItemPlace'
  BY <1>1, <1>3, <1>4, <1>5, <1>6, <1>7 DEF ItemInv, ItemPlace
<1>12. ItemPlain'
  BY <1>1, <1>3, <1>4, <1>5, <1>6, <1>7 DEF ItemInv, ItemPlain
<1>13. ItemFaults'
  BY <1>1, <1>3, <1>4, <1>5, <1>6, <1>7 DEF ItemInv, ItemFaults
<1>14. HidingSurvivesInventory'
  BY <1>1, <1>3, <1>4, <1>5, <1>6, <1>7 DEF HidingSurvivesInventory
<1> QED
  BY <1>8, <1>9, <1>10, <1>11, <1>12, <1>13, <1>14 DEF ItemInv

\* The item is hidden.
LEMMA BeginWritesKeeps == ASSUME ItemInv, BeginWrites PROVE ItemInv'
BY WritesKeeps DEF BeginWrites, At

\* The item is put back, at the first try or a later one.
LEMMA RestoreWritesKeeps == ASSUME ItemInv, RestoreWrites PROVE ItemInv'
<1>1. machine.prior \in BOOLEAN
  BY DEF ItemInv, ItemTyped, MachineSet
<1> QED
  BY <1>1, WritesKeeps DEF RestoreWrites, At

\* What a failed readback means: drift is of the clone, the rest of a call or a write.
LEMMA ReadbackFact ==
  ASSUME NEW ob \in Observations, NEW culled \in BOOLEAN, NEW wanted \in BOOLEAN
  PROVE  /\ ReadbackFailure(ob, culled, wanted) \in ItemFailures \ {"ancestry"}
         /\ ReadbackFailure(ob, culled, wanted) = "none" =>
              culled = wanted /\ lease.clone = "current"
         /\ ReadbackFailure(ob, culled, wanted) = "drift" => lease.clone # "current"
         /\ Completes(ob) /\ lease.ok /\ culled = wanted =>
              ReadbackFailure(ob, culled, wanted) \in {"none", "drift"}
<1>1. /\ ob.status \in {"returned", "failed", "unread"} /\ ob.exact \in BOOLEAN
      /\ Completes(ob) => /\ ob.status = IF lease.ok THEN "returned" ELSE "failed"
                          /\ ob.exact <=> lease.clone = "current"
  BY ObservationFact
<1>2. Completes(ob) <=> ob.status # "unread"
  BY DEF Completes
<1> QED
  BY <1>1, <1>2 DEF ReadbackFailure, AdapterFailure, ItemFailures

\* A readback's failure is latched if it is the first.
LEMMA LatchFact ==
  ASSUME NEW m \in MachineSet, NEW f \in ItemFailures
  PROVE  /\ Latch(m, f) \in MachineSet
         /\ Latch(m, f).first = IF m.first = "none" THEN f ELSE m.first
         /\ Latch(m, f).prior = m.prior /\ Latch(m, f).owned = m.owned
         /\ Latch(m, f).proven = m.proven /\ Latch(m, f).phase = m.phase
BY DEF Latch, MachineSet

\* The readback of the hide: the capture owns the write if it is clean.
LEMMA BeginRereadsKeeps == ASSUME ItemInv, BeginRereads PROVE ItemInv'
<1>1. /\ lease.at = "written" /\ ~suspended
      /\ UNCHANGED <<item, worn, itemRefs, ticket, suspended, latched>>
  BY DEF BeginRereads, At
<1>2. PICK ob \in Observations :
        /\ machine' = CompleteSuppressionReadback(machine, ob, lease.culled)
        /\ Goes([lease EXCEPT !.plain = @ /\ Completes(ob)], "completed")
  BY DEF BeginRereads
<1> DEFINE plain == lease.plain /\ Completes(ob)
           f == ReadbackFailure(ob, lease.culled, TRUE)
<1>3. /\ plain \in BOOLEAN /\ (plain => lease.plain /\ Completes(ob))
      /\ lease' = [lease EXCEPT !.plain = plain, !.at = "completed"]
  BY <1>2 DEF Completes, Goes, ItemInv, ItemTyped, LeaseSet
<1> HIDE DEF plain
<1>4. /\ lease' \in LeaseSet
      /\ lease'.at = "completed" /\ lease'.target = lease.target /\ lease'.ok = lease.ok
      /\ lease'.culled = lease.culled /\ lease'.closing = lease.closing
      /\ lease'.pass = lease.pass /\ lease'.context = lease.context
      /\ lease'.retained = lease.retained /\ lease'.may = lease.may
      /\ lease'.faulted = lease.faulted /\ lease'.cleanupOnly = lease.cleanupOnly
      /\ lease'.clone = lease.clone /\ lease'.plain = plain
  BY <1>3 DEF ItemInv, ItemTyped, LeaseSet, ItemPlaces
<1>5. /\ machine \in MachineSet /\ lease.culled \in BOOLEAN
      /\ machine.first = "none" /\ ~machine.owned /\ ~machine.proven
      /\ lease.culled = item[lease.target]
  BY <1>1 DEF ItemInv, ItemPlace, ItemTyped, LeaseSet
<1>6. /\ f \in ItemFailures /\ f # "ancestry"
      /\ f = "none" => lease.culled = TRUE
      /\ f = "drift" => lease.clone # "current"
      /\ Completes(ob) /\ lease.ok /\ lease.culled = TRUE => f \in {"none", "drift"}
  BY <1>5, ReadbackFact
<1>7. machine' = IF f # "none" THEN [Latch(machine, f) EXCEPT !.phase = "fail-stop"]
                 ELSE [machine EXCEPT !.owned = TRUE, !.phase = "owned-write"]
  BY <1>2 DEF CompleteSuppressionReadback
<1> HIDE DEF f
<1>8. /\ machine' \in MachineSet /\ machine'.prior = machine.prior /\ ~machine'.proven
      /\ machine'.owned <=> machine'.first = "none"
      /\ machine'.first = f
      /\ machine'.owned => machine'.phase = "owned-write"
  <2>1. CASE f = "none"
    BY <1>5, <1>7, <2>1 DEF MachineSet, ItemPhases
  <2>2. CASE f # "none"
    BY <1>5, <1>6, <1>7, <2>2, LatchFact DEF MachineSet, ItemPhases
  <2> QED
    BY <2>1, <2>2
<1>9. ItemTyped'
  BY <1>1, <1>3, <1>4, <1>5, <1>6, <1>8 DEF ItemInv, ItemTyped
<1>10. ItemOwed'
  BY <1>1, <1>3, <1>4, <1>5, <1>6, <1>8 DEF ItemInv, ItemOwed
<1>11. ItemRefsKnown'
  BY <1>1, <1>3, <1>4, <1>5, <1>6, <1>8 DEF ItemInv, ItemRefsKnown
<1>12. ItemPlace'
  BY <1>1, <1>3, <1>4, <1>5, <1>6, <1>8 DEF ItemInv, ItemPlace
<1>13. ItemPlain'
  BY <1>1, <1>3, <1>4, <1>5, <1>6, <1>8 DEF ItemInv, ItemPlain
<1>14. ItemFaults'
  BY <1>1, <1>3, <1>4, <1>5, <1>6, <1>8 DEF ItemInv, ItemFaults
<1>15. HidingSurvivesInventory'
  BY <1>1, <1>3, <1>4, <1>5, <1>6, <1>8 DEF HidingSurvivesInventory
<1> QED
  BY <1>9, <1>10, <1>11, <1>12, <1>13, <1>14, <1>15 DEF ItemInv

\* A write that is not owned is put back at once.
LEMMA BeginCompletesKeeps == ASSUME ItemInv, BeginCompletes PROVE ItemInv'
<1>1. /\ lease.at = "completed" /\ ~suspended
      /\ UNCHANGED <<item, worn, itemRefs, machine, ticket, suspended, latched>>
  BY DEF BeginCompletes, At
<1> DEFINE next == IF machine.owned THEN "active" ELSE "restoring"
<1>2. /\ next \in ItemPlaces /\ lease' = [lease EXCEPT !.at = next]
      /\ (next = "active" /\ machine.owned) \/ (next = "restoring" /\ ~machine.owned)
  <2>1. next \in ItemPlaces
    BY DEF ItemPlaces
  <2>2. lease' = [lease EXCEPT !.at = next]
    BY DEF BeginCompletes, Goes
  <2>3. (next = "active" /\ machine.owned) \/ (next = "restoring" /\ ~machine.owned)
    OBVIOUS
  <2> QED
    BY <2>1, <2>2, <2>3
<1> HIDE DEF next
<1>3. /\ lease' \in LeaseSet
      /\ lease'.at = next /\ lease'.target = lease.target /\ lease'.ok = lease.ok
      /\ lease'.culled = lease.culled /\ lease'.closing = lease.closing
      /\ lease'.pass = lease.pass /\ lease'.context = lease.context
      /\ lease'.retained = lease.retained /\ lease'.may = lease.may
      /\ lease'.faulted = lease.faulted /\ lease'.cleanupOnly = lease.cleanupOnly
      /\ lease'.clone = lease.clone /\ lease'.plain = lease.plain
  BY <1>2 DEF ItemInv, ItemTyped, LeaseSet
<1>4. ItemTyped'
  BY <1>1, <1>2, <1>3 DEF ItemInv, ItemTyped
<1>5. ItemOwed'
  BY <1>1, <1>2, <1>3 DEF ItemInv, ItemOwed
<1>6. ItemRefsKnown'
  BY <1>1, <1>2, <1>3 DEF ItemInv, ItemRefsKnown
<1>7. ItemPlace'
  BY <1>1, <1>2, <1>3 DEF ItemInv, ItemPlace
<1>8. ItemPlain'
  BY <1>1, <1>2, <1>3 DEF ItemInv, ItemPlain
<1>9. ItemFaults'
  BY <1>1, <1>2, <1>3 DEF ItemInv, ItemFaults
<1>10. HidingSurvivesInventory'
  BY <1>1, <1>2, <1>3 DEF HidingSurvivesInventory
<1> QED
  BY <1>4, <1>5, <1>6, <1>7, <1>8, <1>9, <1>10 DEF ItemInv

\* A begin that could not be completed leaves its item to the ticket.
LEMMA BeginFailsKeeps == ASSUME ItemInv, BeginFails PROVE ItemInv'
<1>1. /\ lease.at = "restored" /\ ~lease.closing /\ latched' = TRUE
      /\ UNCHANGED <<item, worn, itemRefs, machine, suspended>>
      /\ ticket' = IF Retainable(lease) THEN Ticket(lease) ELSE ticket
  BY DEF BeginFails, FailStops
<1>2. /\ lease' \in LeaseSet
      /\ lease'.at = "returned" /\ lease'.target = lease.target /\ lease'.ok = lease.ok
      /\ lease'.culled = lease.culled /\ lease'.closing = lease.closing
      /\ lease'.pass = lease.pass /\ lease'.context = lease.context /\ lease'.retained = NoItem
      /\ lease'.may = lease.may /\ lease'.faulted = TRUE
      /\ lease'.cleanupOnly = lease.cleanupOnly /\ lease'.clone = lease.clone
      /\ lease'.plain = lease.plain
  BY DEF BeginFails, FailStops, Goes, ItemInv, ItemTyped, LeaseSet, ItemPlaces
<1>3. /\ ticket = NoTicket /\ lease.pass = "none"
      /\ lease.retained # NoItem => lease.may /\ machine.prior = worn[lease.retained]
  BY <1>1 DEF ItemInv, ItemOwed, ItemPlace
<1>6. /\ lease.retained \in Items \cup {NoItem} /\ machine.prior \in BOOLEAN
      /\ NoTicket.item = NoItem
  BY DEF ItemInv, NoTicket, ItemTyped, LeaseSet, MachineSet
<1>4. CASE lease.retained = NoItem
  <2>1. ticket' = NoTicket
    BY <1>1, <1>3, <1>4 DEF Retainable
  <2>2. ItemTyped'
    BY <1>1, <1>2, <1>3, <1>4, <1>6, <2>1 DEF ItemInv, ItemTyped
  <2>3. ItemOwed'
    BY <1>1, <1>2, <1>3, <1>4, <1>6, <2>1 DEF ItemInv, ItemOwed
  <2>4. ItemRefsKnown'
    BY <1>1, <1>2, <1>3, <1>4, <1>6, <2>1 DEF ItemInv, ItemRefsKnown
  <2>5. ItemPlace'
    BY <1>1, <1>2, <1>3, <1>4, <1>6, <2>1 DEF ItemInv, ItemPlace
  <2>6. ItemPlain'
    BY <1>1, <1>2, <1>3, <1>4, <1>6, <2>1 DEF ItemInv, ItemPlain
  <2>7. ItemFaults'
    BY <1>1, <1>2, <1>3, <1>4, <1>6, <2>1 DEF ItemInv, ItemFaults
  <2>8. HidingSurvivesInventory'
    BY <1>1, <1>2, <1>3, <1>4, <1>6, <2>1
    DEF ItemInv, ItemPlace, ItemPlain, ItemFaults, HidingSurvivesInventory, NativeFault
  <2> QED
    BY <2>2, <2>3, <2>4, <2>5, <2>6, <2>7, <2>8 DEF ItemInv
<1>5. CASE lease.retained # NoItem
  <2>1. ticket' = [item |-> lease.retained, prior |-> machine.prior]
    BY <1>1, <1>3, <1>5 DEF Retainable, Ticket
  <2>2. ticket' \in TicketSet /\ ticket'.item = lease.retained /\ ticket'.prior = machine.prior
    BY <1>3, <1>5, <1>6, <2>1 DEF TicketSet
  <2>3. ItemTyped'
    BY <1>1, <1>2, <1>3, <1>5, <1>6, <2>2 DEF ItemInv, ItemTyped
  <2>4. ItemOwed'
    BY <1>1, <1>2, <1>3, <1>5, <1>6, <2>2 DEF ItemInv, ItemOwed
  <2>5. ItemRefsKnown'
    BY <1>1, <1>2, <1>3, <1>5, <1>6, <2>2 DEF ItemInv, ItemRefsKnown
  <2>6. ItemPlace'
    BY <1>1, <1>2, <1>3, <1>5, <1>6, <2>2 DEF ItemInv, ItemPlace
  <2>7. ItemPlain'
    BY <1>1, <1>2, <1>3, <1>5, <1>6, <2>2 DEF ItemInv, ItemPlain
  <2>8. ItemFaults'
    BY <1>1, <1>2, <1>3, <1>5, <1>6, <2>2 DEF ItemInv, ItemFaults
  <2>9. HidingSurvivesInventory'
    BY <1>1, <1>2, <1>3, <1>5, <1>6, <2>2
    DEF ItemInv, ItemPlace, ItemPlain, ItemFaults, HidingSurvivesInventory, NativeFault
  <2> QED
    BY <2>3, <2>4, <2>5, <2>6, <2>7, <2>8, <2>9 DEF ItemInv
<1> QED
  BY <1>4, <1>5

\* The readback of a restore: proven if it finds the prior value.
LEMMA RestoreRereadsKeeps == ASSUME ItemInv, RestoreRereads PROVE ItemInv'
<1>1. /\ lease.at = "rewritten" /\ ~suspended
      /\ UNCHANGED <<item, worn, itemRefs, ticket, suspended, latched>>
  BY DEF RestoreRereads, At
<1>2. PICK ob \in Observations :
        /\ machine' = CompleteRestoreReadback(machine, ob, lease.culled)
        /\ Goes([lease EXCEPT !.plain = @ /\ Completes(ob)], "reread")
  BY DEF RestoreRereads
<1> DEFINE plain == lease.plain /\ Completes(ob)
           f == ReadbackFailure(ob, lease.culled, machine.prior)
<1>3. /\ plain \in BOOLEAN /\ (plain => lease.plain /\ Completes(ob))
      /\ lease' = [lease EXCEPT !.plain = plain, !.at = "reread"]
  BY <1>2 DEF Completes, Goes, ItemInv, ItemTyped, LeaseSet
<1> HIDE DEF plain
<1>4. /\ lease' \in LeaseSet
      /\ lease'.at = "reread" /\ lease'.target = lease.target /\ lease'.ok = lease.ok
      /\ lease'.culled = lease.culled /\ lease'.closing = lease.closing
      /\ lease'.pass = lease.pass /\ lease'.context = lease.context
      /\ lease'.retained = lease.retained /\ lease'.may = lease.may
      /\ lease'.faulted = lease.faulted /\ lease'.cleanupOnly = lease.cleanupOnly
      /\ lease'.clone = lease.clone /\ lease'.plain = plain
  BY <1>3 DEF ItemInv, ItemTyped, LeaseSet, ItemPlaces
<1>5. /\ machine \in MachineSet /\ lease.culled \in BOOLEAN /\ machine.prior \in BOOLEAN
      /\ lease.culled = item[lease.target] /\ machine.prior = worn[lease.target]
      /\ machine.first \in ItemFailures
  BY <1>1 DEF ItemInv, ItemOwed, ItemPlace, ItemTyped, LeaseSet, MachineSet
<1>6. /\ f \in ItemFailures /\ f # "ancestry"
      /\ f = "none" => lease.culled = machine.prior /\ lease.clone = "current"
      /\ f = "drift" => lease.clone # "current"
      /\ Completes(ob) /\ lease.ok /\ lease.culled = machine.prior => f \in {"none", "drift"}
  BY <1>5, ReadbackFact
<1>7. machine' =
        IF f # "none" THEN [Latch(machine, f) EXCEPT !.proven = FALSE, !.phase = "fail-stop"]
        ELSE [machine EXCEPT !.proven = TRUE,
                !.phase = IF machine.first = "none" THEN "closed" ELSE "faulted"]
  BY <1>2 DEF CompleteRestoreReadback
<1> HIDE DEF f
<1>8. /\ machine' \in MachineSet /\ machine'.prior = machine.prior
      /\ machine'.owned = machine.owned
      /\ machine'.proven <=> f = "none"
      /\ machine'.first = IF machine.first = "none" THEN f ELSE machine.first
  BY <1>5, <1>6, <1>7, LatchFact DEF MachineSet, ItemPhases
<1>9. ItemTyped'
  BY <1>1, <1>3, <1>4, <1>5, <1>6, <1>8 DEF ItemInv, ItemTyped
<1>10. ItemOwed'
  BY <1>1, <1>3, <1>4, <1>5, <1>6, <1>8 DEF ItemInv, ItemOwed
<1>11. ItemRefsKnown'
  BY <1>1, <1>3, <1>4, <1>5, <1>6, <1>8 DEF ItemInv, ItemRefsKnown
<1>12. ItemPlace'
  BY <1>1, <1>3, <1>4, <1>5, <1>6, <1>8 DEF ItemInv, ItemPlace
<1>13. ItemPlain'
  BY <1>1, <1>3, <1>4, <1>5, <1>6, <1>8 DEF ItemInv, ItemPlain
<1>14. ItemFaults'
  BY <1>1, <1>3, <1>4, <1>5, <1>6, <1>8 DEF ItemInv, ItemFaults
<1>15. HidingSurvivesInventory'
  BY <1>1, <1>3, <1>4, <1>5, <1>6, <1>8 DEF HidingSurvivesInventory
<1> QED
  BY <1>9, <1>10, <1>11, <1>12, <1>13, <1>14, <1>15 DEF ItemInv

\* A proven restore drops its reference; one that is not tries again.
LEMMA RestoreReleasesKeeps == ASSUME ItemInv, RestoreReleases PROVE ItemInv'
<1>1. /\ lease.at = "reread" /\ ~suspended
      /\ UNCHANGED <<item, worn, machine, ticket, suspended>>
  BY DEF RestoreReleases, At
<1>2. /\ lease.target \in Items /\ lease.retained = lease.target /\ ticket = NoTicket
      /\ lease.may /\ machine.prior = worn[lease.target] /\ NoTicket.item = NoItem
      /\ itemRefs \in [Items -> Nat] /\ itemRefs[lease.target] >= 1
      /\ \A i \in Items : i # NoItem
      /\ \A i \in Items : ~latched => itemRefs[i] = IF i = lease.target THEN 1 ELSE 0
      /\ latched \in BOOLEAN
  <2>1. NoTicket.item = NoItem /\ \A i \in Items : i # NoItem
    BY ItemConstants DEF NoTicket
  <2> QED
    BY <1>1, <2>1 DEF ItemInv, ItemTyped, ItemOwed, ItemPlace, ItemRefsKnown
<1>3. CASE machine.proven
  <2>1. PICK released \in BOOLEAN :
          /\ ItemDropped(lease.retained, released)
          /\ Goes([lease EXCEPT !.ok = released, !.may = FALSE, !.retained = NoItem,
                                !.faulted = ~released, !.plain = @ /\ released], "restored")
          /\ Latched(~released)
    BY <1>3 DEF RestoreReleases
  <2>2. /\ itemRefs' \in [Items -> Nat]
        /\ \A j \in Items : j # lease.target => itemRefs'[j] = itemRefs[j]
        /\ released => itemRefs'[lease.target] = itemRefs[lease.target] - 1
    BY <1>2, <2>1, DroppedFact
  <2> DEFINE plain == lease.plain /\ released
             faulted == ~released
  <2>3. /\ plain \in BOOLEAN /\ faulted \in BOOLEAN
        /\ (plain => lease.plain /\ released) /\ (faulted <=> ~released)
        /\ lease' = [lease EXCEPT !.ok = released, !.may = FALSE, !.retained = NoItem,
                                  !.faulted = faulted, !.plain = plain, !.at = "restored"]
        /\ released \in BOOLEAN /\ "restored" \in ItemPlaces
    BY <2>1 DEF Goes, ItemInv, ItemTyped, LeaseSet, ItemPlaces
  <2> HIDE DEF plain, faulted
  <2>4. /\ lease' \in LeaseSet
        /\ lease'.at = "restored" /\ lease'.target = lease.target /\ lease'.ok = released
        /\ lease'.culled = lease.culled /\ lease'.closing = lease.closing
        /\ lease'.pass = lease.pass /\ lease'.context = lease.context /\ lease'.retained = NoItem
        /\ lease'.may = FALSE /\ lease'.faulted = faulted
        /\ lease'.cleanupOnly = lease.cleanupOnly /\ lease'.clone = lease.clone
        /\ lease'.plain = plain
    BY <2>3 DEF ItemInv, ItemTyped, LeaseSet
  <2>5. latched' = (latched \/ ~released)
    BY <2>1 DEF Latched
  <2>6. ASSUME NEW i \in Items PROVE (~latched' => itemRefs'[i] = 0) /\ item[i] = worn[i]
    <3>1. item[i] = worn[i]
      BY <1>1, <1>2, <1>3 DEF ItemInv, ItemOwed, ItemPlace
    <3>2. CASE i = lease.target
      <4>1. ASSUME ~latched' PROVE itemRefs'[i] = 0
        <5>1. released /\ ~latched
          BY <2>5, <4>1
        <5>2. itemRefs[i] = 1 /\ itemRefs'[i] = itemRefs[i] - 1
          BY <1>2, <2>2, <3>2, <5>1
        <5> QED
          BY <5>2
      <4> QED
        BY <3>1, <4>1
    <3>3. CASE i # lease.target
      BY <1>2, <2>2, <2>5, <3>1, <3>3
    <3> QED
      BY <3>2, <3>3
  <2>7. ItemTyped'
    BY <1>1, <1>2, <1>3, <2>2, <2>3, <2>4, <2>5, <2>6 DEF ItemInv, ItemTyped
  <2>8. ItemOwed'
    BY <1>1, <1>2, <1>3, <2>2, <2>3, <2>4, <2>5, <2>6 DEF ItemInv, ItemOwed
  <2>9. ItemRefsKnown'
    BY <1>1, <1>2, <1>3, <2>2, <2>3, <2>4, <2>5, <2>6 DEF ItemInv, ItemRefsKnown
  <2>10. ItemPlace'
    BY <1>1, <1>2, <1>3, <2>2, <2>3, <2>4, <2>5, <2>6 DEF ItemInv, ItemPlace
  <2>11. ItemPlain'
    BY <1>1, <1>2, <1>3, <2>2, <2>3, <2>4, <2>5, <2>6 DEF ItemInv, ItemPlain
  <2>12. ItemFaults'
    BY <1>1, <1>2, <1>3, <2>2, <2>3, <2>4, <2>5, <2>6 DEF ItemInv, ItemFaults
  <2>13. HidingSurvivesInventory'
    BY <1>1, <1>2, <1>3, <2>2, <2>3, <2>4, <2>5, <2>6 DEF HidingSurvivesInventory
  <2> QED
    BY <2>7, <2>8, <2>9, <2>10, <2>11, <2>12, <2>13 DEF ItemInv
<1>4. CASE ~machine.proven
  <2> DEFINE next == IF lease.tries + 1 < Attempts THEN "again" ELSE "restored"
  <2>1. /\ lease' = [lease EXCEPT !.ok = FALSE, !.tries = @ + 1, !.at = next]
        /\ next \in {"again", "restored"} /\ UNCHANGED <<itemRefs, latched>>
        /\ next \in ItemPlaces /\ lease.tries + 1 \in Nat
    BY <1>4 DEF RestoreReleases, Goes, ItemInv, ItemTyped, LeaseSet, ItemPlaces
  <2> HIDE DEF next
  <2>2. /\ lease' \in LeaseSet
        /\ lease'.at = next /\ lease'.target = lease.target /\ lease'.ok = FALSE
        /\ lease'.culled = lease.culled /\ lease'.closing = lease.closing
        /\ lease'.pass = lease.pass /\ lease'.context = lease.context
        /\ lease'.retained = lease.retained /\ lease'.may = lease.may
        /\ lease'.faulted = lease.faulted /\ lease'.cleanupOnly = lease.cleanupOnly
        /\ lease'.clone = lease.clone /\ lease'.plain = lease.plain
    BY <2>1 DEF ItemInv, ItemTyped, LeaseSet
  <2>3. ItemTyped'
    BY <1>1, <1>2, <1>4, <2>1, <2>2 DEF ItemInv, ItemTyped
  <2>4. ItemOwed'
    BY <1>1, <1>2, <1>4, <2>1, <2>2 DEF ItemInv, ItemOwed
  <2>5. ItemRefsKnown'
    BY <1>1, <1>2, <1>4, <2>1, <2>2 DEF ItemInv, ItemRefsKnown
  <2>6. ItemPlace'
    BY <1>1, <1>2, <1>4, <2>1, <2>2 DEF ItemInv, ItemPlace
  <2>7. ItemPlain'
    BY <1>1, <1>2, <1>4, <2>1, <2>2 DEF ItemInv, ItemPlain
  <2>8. ItemFaults'
    BY <1>1, <1>2, <1>4, <2>1, <2>2 DEF ItemInv, ItemFaults
  <2>9. HidingSurvivesInventory'
    BY <1>1, <1>2, <1>4, <2>1, <2>2 DEF HidingSurvivesInventory
  <2> QED
    BY <2>3, <2>4, <2>5, <2>6, <2>7, <2>8, <2>9 DEF ItemInv
<1> QED
  BY <1>3, <1>4

\* The private pass touches neither the item nor the machine.
LEMMA PassReturnsKeeps == ASSUME ItemInv, PassReturns PROVE ItemInv'
<1>1. /\ lease.at = "active"
      /\ UNCHANGED <<item, worn, itemRefs, machine, ticket, suspended, latched>>
  BY DEF PassReturns
<1>2. PICK pass \in {"normal", "failed", "native-fault"} :
        Goes([lease EXCEPT !.pass = pass, !.closing = TRUE, !.tries = 0,
                           !.context = IF pass = "failed" THEN "pass-failed" ELSE "ordinary"],
             "closing")
  BY DEF PassReturns
<1> DEFINE context == IF pass = "failed" THEN "pass-failed" ELSE "ordinary"
<1>3. /\ context \in {"ordinary", "pass-failed"} /\ "closing" \in ItemPlaces /\ 0 \in Nat
      /\ lease' = [lease EXCEPT !.pass = pass, !.closing = TRUE, !.tries = 0,
                                !.context = context, !.at = "closing"]
  BY <1>2 DEF Goes, ItemPlaces, ItemInv, ItemTyped, LeaseSet
<1> HIDE DEF context
<1>4. /\ lease' \in LeaseSet
      /\ lease'.at = "closing" /\ lease'.target = lease.target /\ lease'.ok = lease.ok
      /\ lease'.culled = lease.culled /\ lease'.closing = TRUE /\ lease'.pass = pass
      /\ lease'.context = context /\ lease'.retained = lease.retained /\ lease'.may = lease.may
      /\ lease'.faulted = lease.faulted /\ lease'.cleanupOnly = lease.cleanupOnly
      /\ lease'.clone = lease.clone /\ lease'.plain = lease.plain
  BY <1>3 DEF ItemInv, ItemTyped, LeaseSet
<1>5. lease.pass = "none" /\ pass # "none"
  BY <1>1 DEF ItemInv, ItemPlace
<1>6. ItemTyped'
  BY <1>1, <1>4, <1>5 DEF ItemInv, ItemTyped
<1>7. ItemOwed'
  BY <1>1, <1>4, <1>5 DEF ItemInv, ItemOwed
<1>8. ItemRefsKnown'
  BY <1>1, <1>4, <1>5 DEF ItemInv, ItemRefsKnown
<1>9. ItemPlace'
  BY <1>1, <1>4, <1>5 DEF ItemInv, ItemPlace
<1>10. ItemPlain'
  BY <1>1, <1>4, <1>5 DEF ItemInv, ItemPlain
<1>11. ItemFaults'
  BY <1>1, <1>4, <1>5 DEF ItemInv, ItemFaults
<1>12. HidingSurvivesInventory'
  BY <1>1, <1>4, <1>5 DEF HidingSurvivesInventory
<1> QED
  BY <1>6, <1>7, <1>8, <1>9, <1>10, <1>11, <1>12 DEF ItemInv

\* The close reads the item before it judges.
LEMMA CloseReadsKeeps == ASSUME ItemInv, CloseReads PROVE ItemInv'
<1>1. /\ lease.at = "closing"
      /\ UNCHANGED <<item, worn, itemRefs, machine, ticket, suspended>>
  BY DEF CloseReads, At
<1>2. PICK read \in BOOLEAN :
       /\ Goes([lease EXCEPT !.ok = read, !.culled = item[lease.target] /\ read,
                             !.plain = @ /\ read,
                             !.context = IF read /\ item[lease.target] THEN @ ELSE "ordinary"],
               "closeread")
       /\ Latched(~read)
  BY DEF CloseReads
<1> DEFINE culled == item[lease.target] /\ read
           plain == lease.plain /\ read
           context == IF read /\ item[lease.target] THEN lease.context ELSE "ordinary"
<1>3. lease.target \in Items /\ item \in [Items -> BOOLEAN] /\ lease \in LeaseSet
      /\ latched \in BOOLEAN
  BY <1>1 DEF ItemInv, ItemOwed, ItemTyped
<1>4. /\ culled \in BOOLEAN /\ plain \in BOOLEAN
      /\ (culled <=> item[lease.target] /\ read) /\ (plain <=> lease.plain /\ read)
  BY <1>3
<1>5. context \in {"ordinary", "pass-failed"} /\ "closeread" \in ItemPlaces
  BY <1>3 DEF LeaseSet, ItemPlaces
<1>6. lease' = [lease EXCEPT !.ok = read, !.culled = culled, !.plain = plain,
                             !.context = context, !.at = "closeread"]
  BY <1>2, <1>3 DEF Goes, LeaseSet
<1>7. latched' = (latched \/ ~read)
  BY <1>2 DEF Latched
<1> HIDE DEF culled, plain, context
<1>8. /\ lease' \in LeaseSet
      /\ lease'.at = "closeread" /\ lease'.target = lease.target /\ lease'.ok = read
      /\ lease'.culled = culled /\ lease'.closing = lease.closing /\ lease'.pass = lease.pass
      /\ lease'.context = context /\ lease'.retained = lease.retained /\ lease'.may = lease.may
      /\ lease'.faulted = lease.faulted /\ lease'.cleanupOnly = lease.cleanupOnly
      /\ lease'.clone = lease.clone /\ lease'.plain = plain
  BY <1>3, <1>4, <1>5, <1>6 DEF LeaseSet
<1>9. ItemTyped'
  BY <1>1, <1>3, <1>4, <1>7, <1>8 DEF ItemInv, ItemTyped
<1>10. ItemOwed'
  BY <1>1, <1>3, <1>4, <1>7, <1>8 DEF ItemInv, ItemOwed
<1>11. ItemRefsKnown'
  BY <1>1, <1>3, <1>4, <1>7, <1>8 DEF ItemInv, ItemRefsKnown
<1>12. ItemPlace'
  BY <1>1, <1>3, <1>4, <1>7, <1>8 DEF ItemInv, ItemPlace
<1>13. ItemPlain'
  BY <1>1, <1>3, <1>4, <1>7, <1>8 DEF ItemInv, ItemPlain
<1>14. ItemFaults'
  BY <1>1, <1>3, <1>4, <1>7, <1>8 DEF ItemInv, ItemFaults
<1>15. HidingSurvivesInventory'
  BY <1>1, <1>3, <1>4, <1>7, <1>8 DEF HidingSurvivesInventory
<1> QED
  BY <1>9, <1>10, <1>11, <1>12, <1>13, <1>14, <1>15 DEF ItemInv

\* Only a lease that owns its write goes on to restore.
LEMMA CloseRestoresKeeps == ASSUME ItemInv, CloseRestores PROVE ItemInv'
<1>1. /\ lease.at = "closed"
      /\ UNCHANGED <<item, worn, itemRefs, machine, ticket, suspended, latched>>
  BY DEF CloseRestores, At
<1> DEFINE next == CASE machine.phase = "closed" -> "returned"
                     [] machine.phase = "faulted" -> "settling"
                     [] OTHER -> "restoring"
<1>2. /\ next = "returned" => machine.phase = "closed"
      /\ next = "settling" => machine.phase = "faulted"
      /\ next = "restoring" => machine.phase \notin {"closed", "faulted"}
      /\ next \in {"returned", "settling", "restoring"}
  OBVIOUS
<1>3. next \in ItemPlaces /\ lease' = [lease EXCEPT !.ok = FALSE, !.at = next]
  BY <1>2 DEF ItemPlaces, CloseRestores, Goes, ItemInv, ItemTyped, LeaseSet
<1> HIDE DEF next
<1>4. /\ lease' \in LeaseSet
      /\ lease'.at = next /\ lease'.target = lease.target /\ lease'.ok = FALSE
      /\ lease'.culled = lease.culled /\ lease'.closing = lease.closing
      /\ lease'.pass = lease.pass /\ lease'.context = lease.context
      /\ lease'.retained = lease.retained /\ lease'.may = lease.may
      /\ lease'.faulted = lease.faulted /\ lease'.cleanupOnly = lease.cleanupOnly
      /\ lease'.clone = lease.clone /\ lease'.plain = lease.plain
  BY <1>3 DEF ItemInv, ItemTyped, LeaseSet
<1>5. /\ ticket = NoTicket
      /\ next \in {"returned", "settling"} => ~machine.owned /\ lease.retained = NoItem
      /\ next = "restoring" => machine.owned /\ lease.retained # NoItem
  BY <1>1, <1>2 DEF ItemInv, ItemOwed, ItemPlace
<1>6. ItemTyped'
  BY <1>1, <1>2, <1>4, <1>5 DEF ItemInv, ItemTyped
<1>7. ItemOwed'
  BY <1>1, <1>2, <1>4, <1>5 DEF ItemInv, ItemOwed
<1>8. ItemRefsKnown'
  BY <1>1, <1>2, <1>4, <1>5 DEF ItemInv, ItemRefsKnown
<1>9. ItemPlace'
  BY <1>1, <1>2, <1>4, <1>5 DEF ItemInv, ItemPlace
<1>10. ItemPlain'
  BY <1>1, <1>2, <1>4, <1>5 DEF ItemInv, ItemPlain
<1>11. ItemFaults'
  BY <1>1, <1>2, <1>4, <1>5 DEF ItemInv, ItemFaults
<1>12. HidingSurvivesInventory'
  BY <1>1, <1>2, <1>4, <1>5
  DEF ItemInv, ItemOwed, ItemPlace, ItemPlain, ItemFaults, HidingSurvivesInventory, NativeFault
<1> QED
  BY <1>6, <1>7, <1>8, <1>9, <1>10, <1>11, <1>12 DEF ItemInv

\* A restored close settles, or the transition excuses it.
LEMMA CloseSettlesKeeps == ASSUME ItemInv, CloseSettles PROVE ItemInv'
<1>1. /\ lease.at = "restored" /\ lease.closing
      /\ UNCHANGED <<item, worn, itemRefs, machine, ticket, suspended, latched>>
  BY DEF CloseSettles
<1>2. CASE CleanLifecycle
  <2>1. /\ lease' \in LeaseSet
        /\ lease'.at = "returned" /\ lease'.target = lease.target /\ lease'.ok = lease.ok
        /\ lease'.culled = lease.culled /\ lease'.closing = lease.closing
        /\ lease'.pass = lease.pass /\ lease'.context = lease.context
        /\ lease'.retained = lease.retained /\ lease'.may = lease.may
        /\ lease'.faulted = lease.faulted /\ lease'.cleanupOnly = TRUE
        /\ lease'.clone = lease.clone /\ lease'.plain = lease.plain
    <3>1. lease' = [[lease EXCEPT !.cleanupOnly = TRUE] EXCEPT !.at = "returned"]
      BY <1>2 DEF CloseSettles, Returns, Goes
    <3>2. lease \in LeaseSet
      BY DEF ItemInv, ItemTyped
    <3> QED
      BY <3>1, <3>2 DEF LeaseSet, ItemPlaces
  <2>2. lease.retained = NoItem /\ ticket = NoTicket
    BY <1>1, <1>2 DEF CleanLifecycle, ItemInv, ItemOwed
  <2>3. ItemTyped'
    BY <1>1, <2>1, <2>2 DEF ItemInv, ItemTyped
  <2>4. ItemOwed'
    BY <1>1, <2>1, <2>2 DEF ItemInv, ItemOwed
  <2>5. ItemRefsKnown'
    BY <1>1, <2>1, <2>2 DEF ItemInv, ItemRefsKnown
  <2>6. ItemPlace'
    BY <1>1, <2>1, <2>2 DEF ItemInv, ItemPlace
  <2>7. ItemPlain'
    BY <1>1, <2>1, <2>2 DEF ItemInv, ItemPlain
  <2>8. ItemFaults'
    BY <1>1, <2>1, <2>2 DEF ItemInv, ItemFaults
  <2>9. HidingSurvivesInventory'
    BY <1>1, <2>1, <2>2 DEF ItemInv, ItemPlain, HidingSurvivesInventory, NativeFault
  <2> QED
    BY <2>3, <2>4, <2>5, <2>6, <2>7, <2>8, <2>9 DEF ItemInv
<1>3. CASE ~CleanLifecycle
  <2>1. /\ lease' \in LeaseSet
        /\ lease'.at = "settling" /\ lease'.target = lease.target /\ lease'.ok = lease.ok
        /\ lease'.culled = lease.culled /\ lease'.closing = lease.closing
        /\ lease'.pass = lease.pass /\ lease'.context = lease.context
        /\ lease'.retained = lease.retained /\ lease'.may = lease.may
        /\ lease'.faulted = lease.faulted /\ lease'.cleanupOnly = lease.cleanupOnly
        /\ lease'.clone = lease.clone /\ lease'.plain = lease.plain
    <3>1. lease' = [lease EXCEPT !.at = "settling"]
      BY <1>3 DEF CloseSettles, Goes
    <3>2. lease \in LeaseSet
      BY DEF ItemInv, ItemTyped
    <3> QED
      BY <3>1, <3>2 DEF LeaseSet, ItemPlaces
  <2>2. ItemTyped'
    BY <1>1, <2>1 DEF ItemInv, ItemTyped
  <2>3. ItemOwed'
    BY <1>1, <2>1 DEF ItemInv, ItemOwed
  <2>4. ItemRefsKnown'
    BY <1>1, <2>1 DEF ItemInv, ItemRefsKnown
  <2>5. ItemPlace'
    BY <1>1, <2>1 DEF ItemInv, ItemPlace
  <2>6. ItemPlain'
    BY <1>1, <2>1 DEF ItemInv, ItemPlain
  <2>7. ItemFaults'
    BY <1>1, <2>1 DEF ItemInv, ItemFaults
  <2>8. HidingSurvivesInventory'
    BY <1>1, <2>1 DEF HidingSurvivesInventory
  <2> QED
    BY <2>2, <2>3, <2>4, <2>5, <2>6, <2>7, <2>8 DEF ItemInv
<1> QED
  BY <1>2, <1>3

\* A failure that is no transition's is no plain capture's.
LEMMA CloseJudgesKeeps == ASSUME ItemInv, CloseJudges PROVE ItemInv'
<1>1. /\ lease.at = "judging"
      /\ UNCHANGED <<item, worn, itemRefs, machine, ticket, suspended>>
  BY DEF CloseJudges
<1>2. /\ lease.retained = NoItem /\ ticket = NoTicket
      /\ machine.first \notin {"none", "drift", "ancestry"}
  BY <1>1 DEF ItemInv, ItemOwed, ItemPlace, ItemFaults
<1>3. CASE CleanLifecycle
  <2>1. /\ lease' \in LeaseSet
        /\ lease'.at = "returned" /\ lease'.target = lease.target /\ lease'.ok = lease.ok
        /\ lease'.culled = lease.culled /\ lease'.closing = lease.closing
        /\ lease'.pass = lease.pass /\ lease'.context = lease.context
        /\ lease'.retained = lease.retained /\ lease'.may = lease.may
        /\ lease'.faulted = lease.faulted /\ lease'.cleanupOnly = TRUE
        /\ lease'.clone = lease.clone /\ lease'.plain = lease.plain
        /\ latched' = latched
    <3>1. lease' = [[lease EXCEPT !.cleanupOnly = TRUE] EXCEPT !.at = "returned"] /\ latched' = latched
      BY <1>3 DEF CloseJudges, Returns, Goes
    <3>2. lease \in LeaseSet
      BY DEF ItemInv, ItemTyped
    <3> QED
      BY <3>1, <3>2 DEF LeaseSet, ItemPlaces
  <2>3. ItemTyped'
    BY <1>1, <1>2, <2>1 DEF ItemInv, ItemTyped
  <2>4. ItemOwed'
    BY <1>1, <1>2, <2>1 DEF ItemInv, ItemOwed
  <2>5. ItemRefsKnown'
    BY <1>1, <1>2, <2>1 DEF ItemInv, ItemRefsKnown
  <2>6. ItemPlace'
    BY <1>1, <1>2, <2>1 DEF ItemInv, ItemPlace
  <2>7. ItemPlain'
    BY <1>1, <1>2, <2>1 DEF ItemInv, ItemPlain
  <2>8. ItemFaults'
    BY <1>1, <1>2, <2>1 DEF ItemInv, ItemFaults
  <2>9. HidingSurvivesInventory'
    BY <1>1, <1>2, <2>1 DEF ItemInv, ItemPlain, HidingSurvivesInventory, NativeFault
  <2> QED
    BY <2>3, <2>4, <2>5, <2>6, <2>7, <2>8, <2>9 DEF ItemInv
<1>4. CASE ~CleanLifecycle
  <2>1. /\ lease' \in LeaseSet
        /\ lease'.at = "returned" /\ lease'.target = lease.target /\ lease'.ok = lease.ok
        /\ lease'.culled = lease.culled /\ lease'.closing = lease.closing
        /\ lease'.pass = lease.pass /\ lease'.context = lease.context
        /\ lease'.retained = lease.retained /\ lease'.may = lease.may /\ lease'.faulted = TRUE
        /\ lease'.cleanupOnly = lease.cleanupOnly /\ lease'.clone = lease.clone
        /\ lease'.plain = lease.plain
        /\ latched' = TRUE
    <3>1. lease' = [[lease EXCEPT !.faulted = TRUE] EXCEPT !.at = "returned"] /\ latched' = TRUE
      BY <1>4 DEF CloseJudges, FailStops, Goes
    <3>2. lease \in LeaseSet
      BY DEF ItemInv, ItemTyped
    <3> QED
      BY <3>1, <3>2 DEF LeaseSet, ItemPlaces
  <2>2. ItemTyped'
    BY <1>1, <1>2, <2>1 DEF ItemInv, ItemTyped
  <2>3. ItemOwed'
    BY <1>1, <1>2, <2>1 DEF ItemInv, ItemOwed
  <2>4. ItemRefsKnown'
    BY <1>1, <1>2, <2>1 DEF ItemInv, ItemRefsKnown
  <2>5. ItemPlace'
    BY <1>1, <1>2, <2>1 DEF ItemInv, ItemPlace
  <2>6. ItemPlain'
    BY <1>1, <1>2, <2>1 DEF ItemInv, ItemPlain
  <2>7. ItemFaults'
    BY <1>1, <1>2, <2>1 DEF ItemInv, ItemFaults
  <2>8. HidingSurvivesInventory'
    BY <1>1, <1>2, <2>1 DEF ItemInv, ItemPlain, HidingSurvivesInventory, NativeFault
  <2> QED
    BY <2>2, <2>3, <2>4, <2>5, <2>6, <2>7, <2>8 DEF ItemInv
<1> QED
  BY <1>3, <1>4

\* What a capture leaves is nothing, or in the ticket, or a latched fault.
LEMMA CaptureEndsKeeps == ASSUME ItemInv, CaptureEnds PROVE ItemInv'
<1>1. /\ lease.at = "returned" /\ latched' = NativeFault
      /\ lease' = NoLease /\ machine' = NewMachine
      /\ UNCHANGED <<item, worn, itemRefs, ticket, suspended>>
  BY DEF CaptureEnds
<1>2. latched' \in BOOLEAN /\ (latched => latched')
  BY <1>1 DEF NativeFault, ItemInv, ItemTyped, LeaseSet
<1>3. /\ lease' \in LeaseSet /\ machine' \in MachineSet /\ lease'.at = "none"
      /\ lease'.retained = NoItem /\ ~lease'.may /\ ~lease'.closing /\ lease'.pass = "none"
      /\ lease'.plain /\ machine'.first = "none" /\ ~machine'.proven /\ ~machine'.owned
  BY <1>1 DEF NoLease, NewMachine, LeaseSet, MachineSet, ItemPlaces, ItemPhases, ItemFailures
<1>4. lease.retained = NoItem
  BY <1>1 DEF ItemInv, ItemPlace
<1>5. ItemTyped'
  BY <1>1, <1>2, <1>3, <1>4 DEF ItemInv, ItemTyped
<1>6. ItemOwed'
  BY <1>1, <1>2, <1>3, <1>4 DEF ItemInv, ItemOwed
<1>7. ItemRefsKnown'
  BY <1>1, <1>2, <1>3, <1>4 DEF ItemInv, ItemRefsKnown
<1>8. ItemPlace'
  BY <1>1, <1>2, <1>3, <1>4 DEF ItemInv, ItemPlace
<1>9. ItemPlain'
  BY <1>1, <1>2, <1>3, <1>4 DEF ItemInv, ItemPlain
<1>10. ItemFaults'
  BY <1>1, <1>2, <1>3, <1>4 DEF ItemInv, ItemFaults
<1>11. HidingSurvivesInventory'
  BY <1>1, <1>2, <1>3, <1>4 DEF HidingSurvivesInventory
<1> QED
  BY <1>5, <1>6, <1>7, <1>8, <1>9, <1>10, <1>11 DEF ItemInv

\* A menu, and the fence after it, change only the suspension.
LEMMA SuspensionKeeps == ASSUME ItemInv, MenuOpens \/ FenceReserves PROVE ItemInv'
<1>1. /\ UNCHANGED <<item, worn, itemRefs, machine, lease, ticket, latched>>
      /\ suspended' \in BOOLEAN /\ (lease.at = "returned" => suspended' = TRUE)
  BY DEF MenuOpens, FenceReserves
<1>2. ItemTyped'
  BY <1>1 DEF ItemInv, ItemTyped
<1>3. ItemOwed'
  BY <1>1 DEF ItemInv, ItemOwed
<1>4. ItemRefsKnown'
  BY <1>1 DEF ItemInv, ItemRefsKnown
<1>5. ItemPlace'
  BY <1>1 DEF ItemInv, ItemPlace
<1>6. ItemPlain'
  BY <1>1 DEF ItemInv, ItemPlain
<1>7. ItemFaults'
  BY <1>1 DEF ItemInv, ItemFaults
<1>8. HidingSurvivesInventory'
  BY <1>1 DEF ItemInv, ItemPlain, HidingSurvivesInventory, NativeFault
<1> QED
  BY <1>2, <1>3, <1>4, <1>5, <1>6, <1>7, <1>8 DEF ItemInv

\* A new clone of the equipped item is drift, never a fault of a call.
LEMMA CloneChangesKeeps == ASSUME ItemInv, CloneChanges PROVE ItemInv'
<1>1. /\ lease.at # "none"
      /\ UNCHANGED <<item, worn, itemRefs, machine, ticket, suspended, latched>>
  BY DEF CloneChanges
<1>2. PICK c \in {"stale", "replaced"} : lease' = [lease EXCEPT !.clone = c]
  BY DEF CloneChanges
<1>3. /\ lease' \in LeaseSet
      /\ lease'.at = lease.at /\ lease'.target = lease.target /\ lease'.ok = lease.ok
      /\ lease'.culled = lease.culled /\ lease'.closing = lease.closing
      /\ lease'.pass = lease.pass /\ lease'.context = lease.context
      /\ lease'.retained = lease.retained /\ lease'.may = lease.may
      /\ lease'.faulted = lease.faulted /\ lease'.cleanupOnly = lease.cleanupOnly
      /\ lease'.clone = c /\ lease'.plain = lease.plain
  BY <1>2 DEF ItemInv, ItemTyped, LeaseSet
<1>4. ItemTyped'
  BY <1>1, <1>3 DEF ItemInv, ItemTyped
<1>5. ItemOwed'
  BY <1>1, <1>3 DEF ItemInv, ItemOwed
<1>6. ItemRefsKnown'
  BY <1>1, <1>3 DEF ItemInv, ItemRefsKnown
<1>7. ItemPlace'
  BY <1>1, <1>3 DEF ItemInv, ItemPlace
<1>8. ItemPlain'
  BY <1>1, <1>3 DEF ItemInv, ItemPlain
<1>9. ItemFaults'
  BY <1>1, <1>3 DEF ItemInv, ItemFaults
<1>10. HidingSurvivesInventory'
  BY <1>1, <1>3 DEF ItemInv, ItemPlain, HidingSurvivesInventory, NativeFault
<1> QED
  BY <1>4, <1>5, <1>6, <1>7, <1>8, <1>9, <1>10 DEF ItemInv

\* The game moves the value and what it should be together.
LEMMA GameSetsItemKeeps == ASSUME ItemInv, GameSetsItem PROVE ItemInv'
<1>1. /\ lease.at = "none"
      /\ UNCHANGED <<itemRefs, machine, lease, ticket, suspended, latched>>
  BY DEF GameSetsItem
<1>2. PICK i \in Items \ {ticket.item}, v \in BOOLEAN :
        item' = [item EXCEPT ![i] = v] /\ worn' = [worn EXCEPT ![i] = v]
  BY DEF GameSetsItem
<1>3. /\ item \in [Items -> BOOLEAN] /\ worn \in [Items -> BOOLEAN]
      /\ lease.retained = NoItem /\ ~machine.owned
      /\ \A j \in Items : item[j] # worn[j] => j \in {lease.retained, ticket.item}
      /\ ticket # NoTicket => ticket.item \in Items
  BY <1>1 DEF ItemInv, ItemTyped, ItemOwed, ItemPlace, NoLease, NewMachine, TicketSet
<1>4. /\ item' \in [Items -> BOOLEAN] /\ worn' \in [Items -> BOOLEAN]
      /\ \A j \in Items : j # i => item'[j] = item[j] /\ worn'[j] = worn[j]
      /\ item'[i] = v /\ worn'[i] = v
  BY <1>2, <1>3
<1>5. /\ \A j \in Items : item'[j] # worn'[j] => j \in {lease.retained, ticket.item}
      /\ ticket # NoTicket => worn'[ticket.item] = worn[ticket.item]
  BY <1>3, <1>4
<1>6. ItemTyped'
  BY <1>1, <1>3, <1>4, <1>5 DEF ItemInv, ItemTyped
<1>7. ItemOwed'
  BY <1>1, <1>3, <1>4, <1>5 DEF ItemInv, ItemOwed
<1>8. ItemRefsKnown'
  BY <1>1, <1>3, <1>4, <1>5 DEF ItemInv, ItemRefsKnown
<1>9. ItemPlace'
  BY <1>1, <1>3, <1>4, <1>5 DEF ItemInv, ItemPlace
<1>10. ItemPlain'
  BY <1>1, <1>3, <1>4, <1>5 DEF ItemInv, ItemPlain
<1>11. ItemFaults'
  BY <1>1, <1>3, <1>4, <1>5 DEF ItemInv, ItemFaults
<1>12. HidingSurvivesInventory'
  BY <1>1, <1>3, <1>4, <1>5 DEF HidingSurvivesInventory
<1> QED
  BY <1>6, <1>7, <1>8, <1>9, <1>10, <1>11, <1>12 DEF ItemInv

\* Between captures a ticket is tried by the fence, or by a load.
LEMMA RecoveredKeeps ==
  ASSUME ItemInv, lease.at = "none", ticket # NoTicket, NEW ok \in BOOLEAN, TryRecover(ok),
         UNCHANGED <<worn, machine, lease, suspended>>
  PROVE  ItemInv'
<1>1. /\ item' \in [Items -> BOOLEAN] /\ itemRefs' \in [Items -> Nat]
      /\ latched' \in BOOLEAN /\ (latched => latched')
      /\ ticket' \in {ticket, NoTicket} /\ (ok => ticket' = NoTicket /\ latched' = latched)
      /\ lease.retained = NoItem
      /\ \A i \in Items : item'[i] # worn[i] => i = ticket'.item
      /\ \A i \in Items : /\ i = ticket'.item => itemRefs'[i] >= 1
                          /\ ~latched' => itemRefs'[i] = IF i = ticket'.item THEN 1 ELSE 0
  BY RecoverFact
<1>2. NoTicket \in TicketSet /\ \A i \in Items : i # NoItem
  BY ItemConstants DEF TicketSet
<1>3. UNCHANGED <<worn, machine, lease, suspended>> /\ lease.at = "none"
  OBVIOUS
<1>4. ItemTyped'
  BY <1>1, <1>2, <1>3 DEF ItemInv, ItemTyped
<1>5. ItemOwed'
  BY <1>1, <1>2, <1>3 DEF ItemInv, ItemOwed
<1>6. ItemRefsKnown'
  BY <1>1, <1>2, <1>3 DEF ItemInv, ItemRefsKnown
<1>7. ItemPlace'
  BY <1>1, <1>2, <1>3 DEF ItemInv, ItemPlace
<1>8. ItemPlain'
  BY <1>1, <1>2, <1>3 DEF ItemInv, ItemPlain
<1>9. ItemFaults'
  BY <1>1, <1>2, <1>3 DEF ItemInv, ItemFaults
<1>10. HidingSurvivesInventory'
  BY <1>1, <1>2, <1>3 DEF HidingSurvivesInventory
<1> QED
  BY <1>4, <1>5, <1>6, <1>7, <1>8, <1>9, <1>10 DEF ItemInv

\* The fence tries the ticket.
LEMMA FenceRecoversKeeps == ASSUME ItemInv, FenceRecovers PROVE ItemInv'
BY RecoveredKeeps DEF FenceRecovers

\* A load on the render thread tries the ticket; on another it latches.
LEMMA LoadRecoversItemKeeps == ASSUME ItemInv, LoadRecoversItem PROVE ItemInv'
<1>1. /\ lease.at = "none" /\ ticket # NoTicket
      /\ UNCHANGED <<worn, machine, lease, suspended>>
  BY DEF LoadRecoversItem
<1>2. CASE \E ok \in BOOLEAN : TryRecover(ok) /\ ticket' = NoTicket
  BY <1>1, <1>2, RecoveredKeeps
<1>3. CASE \E how \in {"none", "unverified", "fault"} :
             /\ IF how = "none" THEN UNCHANGED item ELSE Written(ticket.item, ticket.prior, how)
             /\ latched' = TRUE
             /\ UNCHANGED <<itemRefs, ticket>>
  <2>1. PICK how \in {"none", "unverified", "fault"} :
          /\ IF how = "none" THEN UNCHANGED item ELSE Written(ticket.item, ticket.prior, how)
          /\ latched' = TRUE
          /\ UNCHANGED <<itemRefs, ticket>>
    BY <1>3
  <2>2. /\ ticket.item \in Items /\ ticket.prior \in BOOLEAN /\ item \in [Items -> BOOLEAN]
        /\ lease.retained = NoItem /\ how \in Writes \cup {"none"}
    BY <1>1 DEF ItemInv, ItemTyped, ItemPlace, NoLease, TicketSet, Writes
  <2>3. /\ item' \in [Items -> BOOLEAN]
        /\ \A j \in Items : j # ticket.item => item'[j] = item[j]
    <3>1. CASE how = "none"
      BY <2>1, <2>2, <3>1
    <3>2. CASE how # "none"
      BY <2>1, <2>2, <3>2, WrittenFact
    <3> QED
      BY <3>1, <3>2
  <2>4. ItemTyped'
    BY <1>1, <2>1, <2>2, <2>3 DEF ItemInv, ItemTyped
  <2>5. ItemOwed'
    BY <1>1, <2>1, <2>2, <2>3 DEF ItemInv, ItemOwed
  <2>6. ItemRefsKnown'
    BY <1>1, <2>1, <2>2, <2>3 DEF ItemInv, ItemRefsKnown
  <2>7. ItemPlace'
    BY <1>1, <2>1, <2>2, <2>3 DEF ItemInv, ItemPlace
  <2>8. ItemPlain'
    BY <1>1, <2>1, <2>2, <2>3 DEF ItemInv, ItemPlain
  <2>9. ItemFaults'
    BY <1>1, <2>1, <2>2, <2>3 DEF ItemInv, ItemFaults
  <2>10. HidingSurvivesInventory'
    BY <1>1, <2>1, <2>2, <2>3 DEF HidingSurvivesInventory
  <2> QED
    BY <2>4, <2>5, <2>6, <2>7, <2>8, <2>9, <2>10 DEF ItemInv
<1> QED
  BY <1>2, <1>3 DEF LoadRecoversItem

\* An unproven close leaves its item to the ticket.
LEMMA CloseEndsKeeps == ASSUME ItemInv, CloseEnds PROVE ItemInv'
<1>1. /\ lease.at = "settling" /\ ~suspended
      /\ UNCHANGED <<item, worn, itemRefs, machine, suspended>>
  BY DEF CloseEnds, At
<1>2. lease \in LeaseSet /\ ticket = NoTicket /\ NoTicket.item = NoItem
  BY <1>1 DEF ItemInv, ItemTyped, ItemOwed, NoTicket
<1>3. CASE lease.ok /\ machine.proven
  <2> DEFINE next == IF machine.first = "none" THEN "returned" ELSE "judging"
  <2>1. lease' = [lease EXCEPT !.at = next] /\ UNCHANGED <<ticket, latched>>
    BY <1>3 DEF CloseEnds, Goes
  <2>2. next \in ItemPlaces /\ next \in {"returned", "judging"}
    BY DEF ItemPlaces
  <2>3. next = "returned" <=> machine.first = "none"
    OBVIOUS
  <2> HIDE DEF next
  <2>4. /\ lease' \in LeaseSet
        /\ lease'.at = next /\ lease'.target = lease.target /\ lease'.ok = lease.ok
        /\ lease'.culled = lease.culled /\ lease'.closing = lease.closing
        /\ lease'.pass = lease.pass /\ lease'.context = lease.context
        /\ lease'.retained = lease.retained /\ lease'.may = lease.may
        /\ lease'.faulted = lease.faulted /\ lease'.cleanupOnly = lease.cleanupOnly
        /\ lease'.clone = lease.clone /\ lease'.plain = lease.plain
    BY <1>2, <2>1, <2>2 DEF LeaseSet
  <2>5. lease.retained = NoItem /\ ~lease.may
    BY <1>1, <1>3 DEF ItemInv, ItemOwed, ItemPlace
  <2>6. ItemTyped'
    BY <1>1, <1>2, <1>3, <2>1, <2>2, <2>3, <2>4, <2>5 DEF ItemInv, ItemTyped
  <2>7. ItemOwed'
    BY <1>1, <1>2, <1>3, <2>1, <2>2, <2>3, <2>4, <2>5 DEF ItemInv, ItemOwed
  <2>8. ItemRefsKnown'
    BY <1>1, <1>2, <1>3, <2>1, <2>2, <2>3, <2>4, <2>5 DEF ItemInv, ItemRefsKnown
  <2>9. ItemPlace'
    BY <1>1, <1>2, <1>3, <2>1, <2>2, <2>3, <2>4, <2>5 DEF ItemInv, ItemPlace
  <2>10. ItemPlain'
    BY <1>1, <1>2, <1>3, <2>1, <2>2, <2>3, <2>4, <2>5 DEF ItemInv, ItemPlain
  <2>11. ItemFaults'
    BY <1>1, <1>2, <1>3, <2>1, <2>2, <2>3, <2>4, <2>5 DEF ItemInv, ItemFaults
  <2>12. HidingSurvivesInventory'
    BY <1>1, <1>2, <1>3, <2>1, <2>2, <2>3, <2>4, <2>5
    DEF ItemInv, ItemPlain, HidingSurvivesInventory, NativeFault
  <2> QED
    BY <2>6, <2>7, <2>8, <2>9, <2>10, <2>11, <2>12 DEF ItemInv
<1>4. CASE ~(lease.ok /\ machine.proven) /\ Retainable(lease)
  <2>1. /\ lease' = [[[lease EXCEPT !.retained = NoItem] EXCEPT !.cleanupOnly = TRUE]
                      EXCEPT !.at = "returned"]
        /\ ticket' = [item |-> lease.retained, prior |-> machine.prior] /\ UNCHANGED latched
    BY <1>4 DEF CloseEnds, Returns, Goes, Ticket
  <2>2. /\ lease' \in LeaseSet
        /\ lease'.at = "returned" /\ lease'.target = lease.target /\ lease'.ok = lease.ok
        /\ lease'.culled = lease.culled /\ lease'.closing = lease.closing
        /\ lease'.pass = lease.pass /\ lease'.context = lease.context /\ lease'.retained = NoItem
        /\ lease'.may = lease.may /\ lease'.faulted = lease.faulted /\ lease'.cleanupOnly = TRUE
        /\ lease'.clone = lease.clone /\ lease'.plain = lease.plain
    BY <1>2, <2>1 DEF LeaseSet, ItemPlaces
  <2>3. /\ lease.retained \in Items /\ machine.prior \in BOOLEAN
        /\ machine.prior = worn[lease.retained]
    BY <1>2, <1>4 DEF Retainable, ItemInv, ItemTyped, ItemOwed, LeaseSet, MachineSet
  <2>4. ticket' \in TicketSet /\ ticket'.item = lease.retained /\ ticket'.prior = machine.prior
    BY <2>1, <2>3 DEF TicketSet
  <2>5. ItemTyped'
    BY <1>1, <1>2, <2>1, <2>2, <2>3, <2>4 DEF ItemInv, ItemTyped
  <2>6. ItemOwed'
    BY <1>1, <1>2, <2>1, <2>2, <2>3, <2>4 DEF ItemInv, ItemOwed
  <2>7. ItemRefsKnown'
    BY <1>1, <1>2, <2>1, <2>2, <2>3, <2>4 DEF ItemInv, ItemRefsKnown
  <2>8. ItemPlace'
    BY <1>1, <1>2, <2>1, <2>2, <2>3, <2>4 DEF ItemInv, ItemPlace
  <2>9. ItemPlain'
    BY <1>1, <1>2, <2>1, <2>2, <2>3, <2>4 DEF ItemInv, ItemPlain
  <2>10. ItemFaults'
    BY <1>1, <1>2, <2>1, <2>2, <2>3, <2>4 DEF ItemInv, ItemFaults
  <2>11. HidingSurvivesInventory'
    BY <1>1, <1>2, <2>1, <2>2, <2>3, <2>4
    DEF ItemInv, ItemPlain, HidingSurvivesInventory, NativeFault
  <2> QED
    BY <2>5, <2>6, <2>7, <2>8, <2>9, <2>10, <2>11 DEF ItemInv
<1>5. CASE ~(lease.ok /\ machine.proven) /\ ~Retainable(lease)
  <2>1. /\ lease' = [[lease EXCEPT !.faulted = TRUE] EXCEPT !.at = "returned"]
        /\ ticket' = ticket /\ latched' = TRUE
    BY <1>5 DEF CloseEnds, FailStops, Goes
  <2>2. /\ lease' \in LeaseSet
        /\ lease'.at = "returned" /\ lease'.target = lease.target /\ lease'.ok = lease.ok
        /\ lease'.culled = lease.culled /\ lease'.closing = lease.closing
        /\ lease'.pass = lease.pass /\ lease'.context = lease.context
        /\ lease'.retained = lease.retained /\ lease'.may = lease.may /\ lease'.faulted = TRUE
        /\ lease'.cleanupOnly = lease.cleanupOnly /\ lease'.clone = lease.clone
        /\ lease'.plain = lease.plain
    BY <1>2, <2>1 DEF LeaseSet, ItemPlaces
  <2>3. lease.retained = NoItem
    BY <1>1, <1>2, <1>5 DEF Retainable, ItemInv, ItemOwed
  <2>4. ItemTyped'
    BY <1>1, <1>2, <1>5, <2>1, <2>2, <2>3 DEF ItemInv, ItemTyped
  <2>5. ItemOwed'
    BY <1>1, <1>2, <1>5, <2>1, <2>2, <2>3 DEF ItemInv, ItemOwed
  <2>6. ItemRefsKnown'
    BY <1>1, <1>2, <1>5, <2>1, <2>2, <2>3 DEF ItemInv, ItemRefsKnown
  <2>7. ItemPlace'
    BY <1>1, <1>2, <1>5, <2>1, <2>2, <2>3 DEF ItemInv, ItemPlace
  <2>8. ItemPlain'
    BY <1>1, <1>2, <1>5, <2>1, <2>2, <2>3 DEF ItemInv, ItemPlain
  <2>9. ItemFaults'
    BY <1>1, <1>2, <1>5, <2>1, <2>2, <2>3 DEF ItemInv, ItemFaults
  <2>10. HidingSurvivesInventory'
    BY <1>1, <1>2, <1>5, <2>1, <2>2, <2>3
    DEF ItemInv, ItemPlace, ItemPlain, ItemFaults, HidingSurvivesInventory, NativeFault
  <2> QED
    BY <2>4, <2>5, <2>6, <2>7, <2>8, <2>9, <2>10 DEF ItemInv
<1> QED
  BY <1>3, <1>4, <1>5

\* A transition seen while the capture has the item puts it back, or leaves the
\* ticket for it.
LEMMA TransitionRestores ==
  ASSUME ItemInv, NEW terminal \in BOOLEAN, RestoreRetained(lease, terminal), lease.may,
         lease.at \notin {"none", "start", "recovered", "returned"},
         UNCHANGED <<worn, machine, suspended>>,
         terminal => lease.faulted \/ ~IsLifecycleAttributableFailure(machine.first, lease.context)
  PROVE  ItemInv'
<1>1. /\ lease \in LeaseSet /\ machine \in MachineSet /\ item \in [Items -> BOOLEAN]
      /\ itemRefs \in [Items -> Nat] /\ latched \in BOOLEAN
      /\ lease.retained = lease.target /\ lease.retained \in Items /\ machine.prior \in BOOLEAN
      /\ machine.prior = worn[lease.retained] /\ ticket = NoTicket
  BY DEF ItemInv, ItemTyped, ItemOwed, MachineSet
<1>2. /\ \A i \in Items : i # NoItem
      /\ NoTicket.item = NoItem
      /\ \A i \in Items : item[i] # worn[i] => i = lease.retained
      /\ itemRefs[lease.retained] >= 1
      /\ \A i \in Items : ~latched => itemRefs[i] = IF i = lease.retained THEN 1 ELSE 0
  <2>1. NoTicket.item = NoItem /\ \A i \in Items : i # NoItem
    BY ItemConstants DEF NoTicket
  <2> QED
    BY <1>1, <2>1 DEF ItemInv, ItemOwed, ItemRefsKnown
<1>3. PICK how \in Writes, before \in BOOLEAN, released \in BOOLEAN :
    /\ Written(lease.retained, machine.prior, how)
    /\ IF how = "verified"
       THEN /\ ItemDropped(lease.retained, released)
            /\ LET done == [lease EXCEPT !.may = FALSE, !.retained = NoItem,
                                         !.plain = @ /\ released /\ ~before]
               IN IF released /\ ~terminal THEN Returns(done) /\ Latched(before)
                  ELSE FailStops(done)
            /\ UNCHANGED ticket
       ELSE /\ ticket' = IF Retainable(lease) THEN Ticket(lease) ELSE ticket
            /\ LET kept == [lease EXCEPT !.retained = IF Retainable(lease) THEN NoItem ELSE @,
                                         !.plain = FALSE]
               IN IF Retainable(lease) /\ ~terminal
                  THEN Returns([kept EXCEPT !.may = FALSE]) /\ Latched(before \/ how = "fault")
                  ELSE FailStops(kept)
            /\ UNCHANGED itemRefs
  BY DEF RestoreRetained
<1>4. /\ item' \in [Items -> BOOLEAN]
      /\ \A j \in Items : j # lease.retained => item'[j] = item[j]
      /\ how = "verified" => item'[lease.retained] = machine.prior
  BY <1>1, <1>3, WrittenFact
<1>5. UNCHANGED <<worn, machine, suspended>>
  OBVIOUS
<1>6. CASE how = "verified"
  <2>1. \A i \in Items : item'[i] = worn[i]
    BY <1>1, <1>2, <1>4, <1>6
  <2>2. ItemDropped(lease.retained, released) /\ UNCHANGED ticket
    BY <1>3, <1>6
  <2>3. /\ itemRefs' \in [Items -> Nat]
        /\ \A j \in Items : j # lease.retained => itemRefs'[j] = itemRefs[j]
        /\ released => itemRefs'[lease.retained] = itemRefs[lease.retained] - 1
    BY <1>1, <1>2, <2>2, DroppedFact
  <2> DEFINE plain == lease.plain /\ released /\ ~before
             done == [lease EXCEPT !.may = FALSE, !.retained = NoItem, !.plain = plain]
  <2>4. plain \in BOOLEAN /\ (plain => lease.plain /\ released /\ ~before)
    BY <1>1 DEF LeaseSet
  <2>5. IF released /\ ~terminal THEN Returns(done) /\ Latched(before) ELSE FailStops(done)
    BY <1>3, <1>6
  <2> HIDE DEF plain
  <2>6. CASE released /\ ~terminal
    <3>1. /\ lease' = [[done EXCEPT !.cleanupOnly = TRUE] EXCEPT !.at = "returned"]
          /\ latched' = (latched \/ before)
      BY <2>5, <2>6 DEF Returns, Goes, Latched
    <3>2. /\ lease' \in LeaseSet
          /\ lease'.at = "returned" /\ lease'.target = lease.target /\ lease'.ok = lease.ok
          /\ lease'.culled = lease.culled /\ lease'.closing = lease.closing
          /\ lease'.pass = lease.pass /\ lease'.context = lease.context
          /\ lease'.retained = NoItem /\ lease'.may = FALSE /\ lease'.faulted = lease.faulted
          /\ lease'.cleanupOnly = TRUE /\ lease'.clone = lease.clone /\ lease'.plain = plain
      BY <1>1, <2>4, <3>1 DEF LeaseSet, ItemPlaces
    <3>3. ASSUME ~latched', NEW i \in Items PROVE itemRefs'[i] = 0
      <4>1. CASE i = lease.retained
        <5>1. itemRefs[i] = 1 /\ itemRefs'[i] = itemRefs[i] - 1
          BY <1>1, <1>2, <2>3, <2>6, <3>1, <3>3, <4>1
        <5> QED
          BY <5>1
      <4>2. CASE i # lease.retained
        BY <1>1, <1>2, <2>3, <2>6, <3>1, <3>3, <4>2
      <4> QED
        BY <4>1, <4>2
    <3>4. latched' \in BOOLEAN /\ (latched => latched') /\ (plain /\ ~latched => ~latched')
      BY <1>1, <2>4, <3>1
    <3>5. ItemTyped'
      BY <1>1, <1>2, <1>4, <1>5, <2>1, <2>2, <2>3, <2>4, <3>2, <3>3, <3>4 DEF ItemInv, ItemTyped
    <3>6. ItemOwed'
      BY <1>1, <1>2, <1>4, <1>5, <2>1, <2>2, <2>3, <2>4, <3>2, <3>3, <3>4 DEF ItemInv, ItemOwed
    <3>7. ItemRefsKnown'
      BY <1>1, <1>2, <1>4, <1>5, <2>1, <2>2, <2>3, <2>4, <3>2, <3>3, <3>4 DEF ItemInv, ItemRefsKnown
    <3>8. ItemPlace'
      BY <1>1, <1>2, <1>4, <1>5, <2>1, <2>2, <2>3, <2>4, <3>2, <3>3, <3>4 DEF ItemInv, ItemPlace
    <3>9. ItemPlain'
      BY <1>1, <1>2, <1>4, <1>5, <2>1, <2>2, <2>3, <2>4, <3>2, <3>3, <3>4
      DEF ItemInv, ItemPlain
    <3>10. ItemFaults'
      BY <1>1, <1>2, <1>4, <1>5, <2>1, <2>2, <2>3, <2>4, <3>2, <3>3, <3>4
      DEF ItemInv, ItemFaults
    <3>11. HidingSurvivesInventory'
      BY <1>1, <1>2, <1>4, <1>5, <2>1, <2>2, <2>3, <2>4, <3>2, <3>3, <3>4
      DEF ItemInv, ItemPlain, HidingSurvivesInventory, NativeFault
    <3> QED
      BY <3>5, <3>6, <3>7, <3>8, <3>9, <3>10, <3>11 DEF ItemInv
  <2>7. CASE ~(released /\ ~terminal)
    <3>1. /\ lease' = [[done EXCEPT !.faulted = TRUE] EXCEPT !.at = "returned"]
          /\ latched' = TRUE
      BY <2>5, <2>7 DEF FailStops, Goes
    <3>2. /\ lease' \in LeaseSet
          /\ lease'.at = "returned" /\ lease'.target = lease.target /\ lease'.ok = lease.ok
          /\ lease'.culled = lease.culled /\ lease'.closing = lease.closing
          /\ lease'.pass = lease.pass /\ lease'.context = lease.context
          /\ lease'.retained = NoItem /\ lease'.may = FALSE /\ lease'.faulted = TRUE
          /\ lease'.cleanupOnly = lease.cleanupOnly /\ lease'.clone = lease.clone
          /\ lease'.plain = plain
      BY <1>1, <2>4, <3>1 DEF LeaseSet, ItemPlaces
    <3>3. plain /\ lease.pass \in {"none", "normal"} => FALSE
      <4>1. SUFFICES ASSUME plain, lease.pass \in {"none", "normal"} PROVE FALSE
        OBVIOUS
      <4>2. lease.at \notin {"begun", "returned", "none"}
        BY <1>1, <1>2 DEF ItemInv, ItemPlace
      <4>3. ~lease.faulted /\ machine.first \in {"none", "drift"}
        BY <2>4, <4>1, <4>2 DEF ItemInv, ItemPlain, ItemFaults
      <4>4. terminal
        BY <2>4, <2>7, <4>1
      <4> QED
        BY <4>3, <4>4 DEF IsLifecycleAttributableFailure
    <3>4. ItemTyped'
      BY <1>1, <1>2, <1>4, <1>5, <2>1, <2>2, <2>3, <2>4, <3>1, <3>2, <3>3 DEF ItemInv, ItemTyped
    <3>5. ItemOwed'
      BY <1>1, <1>2, <1>4, <1>5, <2>1, <2>2, <2>3, <2>4, <3>1, <3>2, <3>3 DEF ItemInv, ItemOwed
    <3>6. ItemRefsKnown'
      BY <1>1, <1>2, <1>4, <1>5, <2>1, <2>2, <2>3, <2>4, <3>1, <3>2, <3>3 DEF ItemInv, ItemRefsKnown
    <3>7. ItemPlace'
      BY <1>1, <1>2, <1>4, <1>5, <2>1, <2>2, <2>3, <2>4, <3>1, <3>2, <3>3 DEF ItemInv, ItemPlace
    <3>8. ItemPlain'
      BY <1>1, <1>2, <1>4, <1>5, <2>1, <2>2, <2>3, <2>4, <3>1, <3>2, <3>3
      DEF ItemInv, ItemPlain
    <3>9. ItemFaults'
      BY <1>1, <1>2, <1>4, <1>5, <2>1, <2>2, <2>3, <2>4, <3>1, <3>2, <3>3
      DEF ItemInv, ItemFaults
    <3>10. HidingSurvivesInventory'
      BY <1>1, <1>2, <1>4, <1>5, <2>1, <2>2, <2>3, <2>4, <3>1, <3>2, <3>3
      DEF HidingSurvivesInventory
    <3> QED
      BY <3>4, <3>5, <3>6, <3>7, <3>8, <3>9, <3>10 DEF ItemInv
  <2> QED
    BY <2>6, <2>7
<1>7. CASE how # "verified"
  <2>1. Retainable(lease)
    BY <1>1, <1>2 DEF Retainable
  <2> DEFINE kept == [lease EXCEPT !.retained = NoItem, !.plain = FALSE]
  <2>2. /\ ticket' = [item |-> lease.retained, prior |-> machine.prior] /\ UNCHANGED itemRefs
        /\ IF ~terminal
           THEN Returns([kept EXCEPT !.may = FALSE]) /\ Latched(before \/ how = "fault")
           ELSE FailStops(kept)
    BY <1>3, <1>7, <2>1 DEF Ticket
  <2>3. ticket' \in TicketSet /\ ticket'.item = lease.retained /\ ticket'.prior = machine.prior
    BY <1>1, <2>2 DEF TicketSet
  <2>4. CASE ~terminal
    <3>1. /\ lease' = [[[kept EXCEPT !.may = FALSE] EXCEPT !.cleanupOnly = TRUE] EXCEPT !.at = "returned"]
          /\ latched' = (latched \/ (before \/ how = "fault"))
      BY <2>2, <2>4 DEF Returns, Goes, Latched
    <3>2. /\ lease' \in LeaseSet
          /\ lease'.at = "returned" /\ lease'.target = lease.target /\ lease'.ok = lease.ok
          /\ lease'.culled = lease.culled /\ lease'.closing = lease.closing
          /\ lease'.pass = lease.pass /\ lease'.context = lease.context
          /\ lease'.retained = NoItem /\ lease'.may = FALSE /\ lease'.faulted = lease.faulted
          /\ lease'.cleanupOnly = TRUE /\ lease'.clone = lease.clone /\ lease'.plain = FALSE
      BY <1>1, <3>1 DEF LeaseSet, ItemPlaces
    <3>3. latched' \in BOOLEAN /\ (latched => latched')
      BY <1>1, <3>1
    <3>4. ItemTyped'
      BY <1>1, <1>2, <1>4, <1>5, <2>2, <2>3, <3>2, <3>3 DEF ItemInv, ItemTyped
    <3>5. ItemOwed'
      BY <1>1, <1>2, <1>4, <1>5, <2>2, <2>3, <3>2, <3>3 DEF ItemInv, ItemOwed
    <3>6. ItemRefsKnown'
      BY <1>1, <1>2, <1>4, <1>5, <2>2, <2>3, <3>2, <3>3 DEF ItemInv, ItemRefsKnown
    <3>7. ItemPlace'
      BY <1>1, <1>2, <1>4, <1>5, <2>2, <2>3, <3>2, <3>3 DEF ItemInv, ItemPlace
    <3>8. ItemPlain'
      BY <1>1, <1>2, <1>4, <1>5, <2>2, <2>3, <3>2, <3>3 DEF ItemInv, ItemPlain
    <3>9. ItemFaults'
      BY <1>1, <1>2, <1>4, <1>5, <2>2, <2>3, <3>2, <3>3 DEF ItemInv, ItemFaults
    <3>10. HidingSurvivesInventory'
      BY <1>1, <1>2, <1>4, <1>5, <2>2, <2>3, <3>2, <3>3 DEF HidingSurvivesInventory
    <3> QED
      BY <3>4, <3>5, <3>6, <3>7, <3>8, <3>9, <3>10 DEF ItemInv
  <2>5. CASE terminal
    <3>1. /\ lease' = [[kept EXCEPT !.faulted = TRUE] EXCEPT !.at = "returned"]
          /\ latched' = TRUE
      BY <2>2, <2>5 DEF FailStops, Goes
    <3>2. /\ lease' \in LeaseSet
          /\ lease'.at = "returned" /\ lease'.target = lease.target /\ lease'.ok = lease.ok
          /\ lease'.culled = lease.culled /\ lease'.closing = lease.closing
          /\ lease'.pass = lease.pass /\ lease'.context = lease.context
          /\ lease'.retained = NoItem /\ lease'.may = lease.may /\ lease'.faulted = TRUE
          /\ lease'.cleanupOnly = lease.cleanupOnly /\ lease'.clone = lease.clone
          /\ lease'.plain = FALSE
      BY <1>1, <3>1 DEF LeaseSet, ItemPlaces
    <3>3. ItemTyped'
      BY <1>1, <1>2, <1>4, <1>5, <2>2, <2>3, <3>1, <3>2 DEF ItemInv, ItemTyped
    <3>4. ItemOwed'
      BY <1>1, <1>2, <1>4, <1>5, <2>2, <2>3, <3>1, <3>2 DEF ItemInv, ItemOwed
    <3>5. ItemRefsKnown'
      BY <1>1, <1>2, <1>4, <1>5, <2>2, <2>3, <3>1, <3>2 DEF ItemInv, ItemRefsKnown
    <3>6. ItemPlace'
      BY <1>1, <1>2, <1>4, <1>5, <2>2, <2>3, <3>1, <3>2 DEF ItemInv, ItemPlace
    <3>7. ItemPlain'
      BY <1>1, <1>2, <1>4, <1>5, <2>2, <2>3, <3>1, <3>2 DEF ItemInv, ItemPlain
    <3>8. ItemFaults'
      BY <1>1, <1>2, <1>4, <1>5, <2>2, <2>3, <3>1, <3>2 DEF ItemInv, ItemFaults
    <3>9. HidingSurvivesInventory'
      BY <1>1, <1>2, <1>4, <1>5, <2>2, <2>3, <3>1, <3>2 DEF HidingSurvivesInventory
    <3> QED
      BY <3>3, <3>4, <3>5, <3>6, <3>7, <3>8, <3>9 DEF ItemInv
  <2> QED
    BY <2>4, <2>5
<1> QED
  BY <1>6, <1>7

\* A transition seen while the capture has nothing to put back.
LEMMA TransitionReleases ==
  ASSUME ItemInv, NEW terminal \in BOOLEAN, ReleaseNoWrite(lease, terminal), ~lease.may,
         lease.at \notin {"none", "start", "recovered", "returned"},
         UNCHANGED <<worn, machine, suspended>>, suspended,
         terminal => lease.faulted \/ ~IsLifecycleAttributableFailure(machine.first, lease.context)
  PROVE  ItemInv'
<1>1. /\ lease \in LeaseSet /\ machine \in MachineSet /\ lease.retained = NoItem
      /\ ticket = NoTicket /\ NoTicket.item = NoItem
  BY DEF ItemInv, ItemTyped, ItemOwed, NoTicket
<1>2. UNCHANGED <<item, worn, itemRefs, ticket, machine, suspended>>
  BY DEF ReleaseNoWrite
<1>3. CASE terminal \/ machine.owned \/ lease.retained # NoItem
  <2>1. /\ lease' = [[lease EXCEPT !.faulted = TRUE] EXCEPT !.at = "returned"]
        /\ latched' = TRUE
    BY <1>1, <1>3 DEF ReleaseNoWrite, FailStops, Goes, LeaseSet
  <2>2. lease.plain /\ lease.pass \in {"none", "normal"} =>
          \/ ~machine.owned /\ lease.clone # "current"
          \/ machine.proven /\ suspended
    <3>1. SUFFICES ASSUME lease.plain, lease.pass \in {"none", "normal"}
                   PROVE  (~machine.owned /\ lease.clone # "current") \/ machine.proven
      OBVIOUS
    <3>2. CASE machine.owned
      <4>1. lease.at \in {"settling", "restored", "judging"}
        BY <1>1, <3>2 DEF ItemInv, ItemPlace, LeaseSet, ItemPlaces, NewMachine
      <4> QED
        BY <1>1, <3>1, <3>2, <4>1 DEF ItemInv, ItemPlace, ItemPlain
    <3>3. CASE ~machine.owned
      <4>1. ~lease.faulted /\ machine.first \in {"none", "drift", "ancestry"}
        BY <3>1 DEF ItemInv, ItemPlain
      <4>2. machine.first = "ancestry"
        BY <1>1, <1>3, <3>3, <4>1 DEF IsLifecycleAttributableFailure
      <4> QED
        BY <3>3, <4>2 DEF ItemInv, ItemFaults
    <3> QED
      BY <3>2, <3>3
  <2>3. /\ lease' \in LeaseSet
        /\ lease'.at = "returned" /\ lease'.target = lease.target /\ lease'.ok = lease.ok
        /\ lease'.culled = lease.culled /\ lease'.closing = lease.closing
        /\ lease'.pass = lease.pass /\ lease'.context = lease.context
        /\ lease'.retained = lease.retained /\ lease'.may = lease.may /\ lease'.faulted = TRUE
        /\ lease'.cleanupOnly = lease.cleanupOnly /\ lease'.clone = lease.clone
        /\ lease'.plain = lease.plain
    BY <1>1, <2>1 DEF LeaseSet, ItemPlaces
  <2>4. ItemTyped'
    BY <1>1, <1>2, <2>1, <2>2, <2>3 DEF ItemInv, ItemTyped
  <2>5. ItemOwed'
    BY <1>1, <1>2, <2>1, <2>2, <2>3 DEF ItemInv, ItemOwed
  <2>6. ItemRefsKnown'
    BY <1>1, <1>2, <2>1, <2>2, <2>3 DEF ItemInv, ItemRefsKnown
  <2>7. ItemPlace'
    BY <1>1, <1>2, <2>1, <2>2, <2>3 DEF ItemInv, ItemPlace
  <2>8. ItemPlain'
    BY <1>1, <1>2, <2>1, <2>2, <2>3 DEF ItemInv, ItemPlain
  <2>9. ItemFaults'
    BY <1>1, <1>2, <2>1, <2>2, <2>3 DEF ItemInv, ItemFaults
  <2>10. HidingSurvivesInventory'
    BY <1>1, <1>2, <2>2, <2>3 DEF HidingSurvivesInventory
  <2> QED
    BY <2>4, <2>5, <2>6, <2>7, <2>8, <2>9, <2>10 DEF ItemInv
<1>4. CASE ~(terminal \/ machine.owned \/ lease.retained # NoItem)
  <2>1. /\ lease' = [[lease EXCEPT !.cleanupOnly = TRUE] EXCEPT !.at = "returned"]
        /\ latched' = latched /\ ~machine.owned
    BY <1>4 DEF ReleaseNoWrite, Returns, Goes
  <2>3. /\ lease' \in LeaseSet
        /\ lease'.at = "returned" /\ lease'.target = lease.target /\ lease'.ok = lease.ok
        /\ lease'.culled = lease.culled /\ lease'.closing = lease.closing
        /\ lease'.pass = lease.pass /\ lease'.context = lease.context
        /\ lease'.retained = lease.retained /\ lease'.may = lease.may
        /\ lease'.faulted = lease.faulted /\ lease'.cleanupOnly = TRUE
        /\ lease'.clone = lease.clone /\ lease'.plain = lease.plain
    BY <1>1, <2>1 DEF LeaseSet, ItemPlaces
  <2>4. ItemTyped'
    BY <1>1, <1>2, <2>1, <2>3 DEF ItemInv, ItemTyped
  <2>5. ItemOwed'
    BY <1>1, <1>2, <2>1, <2>3 DEF ItemInv, ItemOwed
  <2>6. ItemRefsKnown'
    BY <1>1, <1>2, <2>1, <2>3 DEF ItemInv, ItemRefsKnown
  <2>7. ItemPlace'
    BY <1>1, <1>2, <2>1, <2>3 DEF ItemInv, ItemPlace
  <2>8. ItemPlain'
    BY <1>1, <1>2, <2>1, <2>3 DEF ItemInv, ItemPlain
  <2>9. ItemFaults'
    BY <1>1, <1>2, <2>1, <2>3 DEF ItemInv, ItemFaults
  <2>10. HidingSurvivesInventory'
    BY <1>1, <1>2, <2>1, <2>3 DEF ItemInv, ItemPlain, HidingSurvivesInventory, NativeFault
  <2> QED
    BY <2>4, <2>5, <2>6, <2>7, <2>8, <2>9, <2>10 DEF ItemInv
<1> QED
  BY <1>3, <1>4

\* A transition seen by a lease that has begun, wherever it is.
LEMMA TransitionFact ==
  ASSUME ItemInv, CloseForLifecycleTransition(lease),
         lease.at \notin {"none", "start", "recovered", "returned"},
         UNCHANGED <<worn, machine, suspended>>, lease.may \/ suspended
  PROVE  ItemInv'
<1> DEFINE terminal ==
             lease.faulted \/ ~IsLifecycleAttributableFailure(machine.first, lease.context)
<1>1. /\ terminal \in BOOLEAN
      /\ IF lease.may THEN RestoreRetained(lease, terminal) ELSE ReleaseNoWrite(lease, terminal)
  BY DEF CloseForLifecycleTransition, ItemInv, ItemTyped, LeaseSet, IsLifecycleAttributableFailure
<1>2. terminal => lease.faulted \/ ~IsLifecycleAttributableFailure(machine.first, lease.context)
  OBVIOUS
<1> HIDE DEF terminal
<1>3. CASE lease.may
  BY <1>1, <1>2, <1>3, TransitionRestores
<1>4. CASE ~lease.may
  BY <1>1, <1>2, <1>4, TransitionReleases
<1> QED
  BY <1>3, <1>4

\* A transition is looked for between any two calls.
LEMMA TransitionSeenKeeps == ASSUME ItemInv, TransitionSeen PROVE ItemInv'
BY TransitionFact DEF TransitionSeen

\* A replaced subtree is closed as a transition; anything else is judged by the machine.
LEMMA CloseObservesKeeps == ASSUME ItemInv, CloseObserves PROVE ItemInv'
<1>1. lease.at = "closeread" /\ ~suspended /\ UNCHANGED <<worn, suspended>>
  BY DEF CloseObserves, At
<1> DEFINE told(o) == [o EXCEPT !.status = IF lease.ok THEN @ ELSE "unread"]
<1>2. PICK ob \in {told(o) : o \in Observations}, healthy \in BOOLEAN :
        LET l == [lease EXCEPT !.plain = @ /\ healthy /\ Completes(ob)]
        IN IF healthy /\ SubtreeReplaced(ob)
           THEN CloseForLifecycleTransition(l) /\ UNCHANGED machine
           ELSE /\ machine' = MachineClose(machine, ob, lease.culled, lease.pass = "normal")
                /\ Goes(l, "closed")
                /\ UNCHANGED <<item, itemRefs, ticket, latched>>
  BY Zenon DEF CloseObserves
<1>12. PICK o \in Observations : ob = told(o)
  BY <1>2
<1> DEFINE plain == lease.plain /\ healthy /\ Completes(ob)
<1>3. /\ lease \in LeaseSet /\ machine \in MachineSet /\ item \in [Items -> BOOLEAN]
      /\ lease.ok \in BOOLEAN /\ lease.culled \in BOOLEAN /\ lease.plain \in BOOLEAN
  BY DEF ItemInv, ItemTyped, LeaseSet
<1>4. /\ plain \in BOOLEAN /\ (plain => lease.plain /\ healthy /\ Completes(ob))
      /\ healthy /\ Completes(ob) => plain = lease.plain
  BY <1>3 DEF Completes
<1>5. IF healthy /\ SubtreeReplaced(ob)
      THEN CloseForLifecycleTransition([lease EXCEPT !.plain = plain]) /\ UNCHANGED machine
      ELSE /\ machine' = MachineClose(machine, ob, lease.culled, lease.pass = "normal")
           /\ Goes([lease EXCEPT !.plain = plain], "closed")
           /\ UNCHANGED <<item, itemRefs, ticket, latched>>
  BY <1>2, <1>3 DEF LeaseSet
<1>6. /\ lease.ok => ob = o
      /\ ~lease.ok => ob.status = "unread" /\ ob.exact \in BOOLEAN
  BY <1>12, ObservationFact DEF Observations
<1> HIDE DEF told
<1>7. CASE healthy /\ SubtreeReplaced(ob)
  <2>1. plain = lease.plain
    BY <1>4, <1>7 DEF SubtreeReplaced
  <2>2. [lease EXCEPT !.plain = plain] = lease
    BY <1>3, <2>1 DEF LeaseSet
  <2> QED
    BY <1>1, <1>5, <1>7, <2>2, TransitionFact DEF SubtreeReplaced
<1>8. CASE ~(healthy /\ SubtreeReplaced(ob))
  <2> HIDE DEF plain
  <2> DEFINE f == ReadbackFailure(ob, lease.culled, TRUE)
             returned == lease.pass = "normal"
             called == IF returned THEN machine ELSE Latch(machine, "abnormal")
             seen == Latch(called, f)
             good == seen.first = "none"
  <2>1. /\ lease' = [[lease EXCEPT !.plain = plain] EXCEPT !.at = "closed"]
        /\ UNCHANGED <<item, itemRefs, ticket, latched>>
    BY <1>5, <1>8 DEF Goes
  <2>2. /\ lease' \in LeaseSet
        /\ lease'.at = "closed" /\ lease'.target = lease.target /\ lease'.ok = lease.ok
        /\ lease'.culled = lease.culled /\ lease'.closing = lease.closing
        /\ lease'.pass = lease.pass /\ lease'.context = lease.context
        /\ lease'.retained = lease.retained /\ lease'.may = lease.may
        /\ lease'.faulted = lease.faulted /\ lease'.cleanupOnly = lease.cleanupOnly
        /\ lease'.clone = lease.clone /\ lease'.plain = plain
    BY <1>3, <1>4, <2>1 DEF LeaseSet, ItemPlaces
  <2>3. /\ f \in ItemFailures /\ f # "ancestry"
        /\ f = "drift" => lease.clone # "current"
        /\ Completes(ob) /\ lease.ok /\ lease.culled => f \in {"none", "drift"}
    <3>1. CASE lease.ok
      BY <1>3, <1>6, <3>1, ReadbackFact
    <3>2. CASE ~lease.ok
      BY <1>6, <3>2 DEF ReadbackFailure, AdapterFailure, ItemFailures
    <3> QED
      BY <3>1, <3>2
  <2>4. machine' =
          IF machine.phase = "owned-write"
          THEN [seen EXCEPT !.phase = IF good THEN "awaiting-restore" ELSE "fail-stop"]
          ELSE [seen EXCEPT !.phase = IF good THEN "closed" ELSE "faulted", !.proven = good]
    BY <1>5, <1>8 DEF MachineClose
  <2> HIDE DEF f
  <2>5. /\ called \in MachineSet /\ called.prior = machine.prior /\ called.owned = machine.owned
        /\ called.proven = machine.proven /\ called.phase = machine.phase
        /\ lease.pass = "normal" => called = machine
        /\ called.first \in {"drift", "ancestry"} => called.first = machine.first
    BY <1>3, LatchFact, "abnormal" \in ItemFailures DEF ItemFailures
  <2> HIDE DEF called
  <2>6. /\ seen \in MachineSet /\ seen.prior = machine.prior /\ seen.owned = machine.owned
        /\ seen.proven = machine.proven /\ seen.phase = machine.phase
        /\ seen.first = IF called.first = "none" THEN f ELSE called.first
    BY <2>3, <2>5, LatchFact
  <2> HIDE DEF seen
  <2>7. good \in BOOLEAN /\ (good <=> seen.first = "none")
    OBVIOUS
  <2> HIDE DEF good
  <2>8. /\ machine' \in MachineSet /\ machine'.prior = machine.prior
        /\ machine'.owned = machine.owned /\ machine'.first = seen.first
        /\ machine.phase = "owned-write" =>
             machine'.phase \in {"awaiting-restore", "fail-stop"} /\ machine'.proven = machine.proven
        /\ machine.phase # "owned-write" =>
             /\ machine'.phase = IF good THEN "closed" ELSE "faulted"
             /\ machine'.proven = good
    <3>1. CASE machine.phase = "owned-write"
      BY <2>4, <2>6, <3>1 DEF MachineSet, ItemPhases
    <3>2. CASE machine.phase # "owned-write"
      BY <2>4, <2>6, <2>7, <3>2 DEF MachineSet, ItemPhases
    <3> QED
      BY <3>1, <3>2
  <2>9. /\ lease.pass # "none" /\ lease.closing /\ ~machine.proven
        /\ machine.owned => machine.phase = "owned-write"
        /\ machine.first # "ancestry"
    BY <1>1 DEF ItemInv, ItemPlace, ItemFaults
  <2>10. ItemTyped'
    BY <1>1, <1>3, <1>4, <2>1, <2>2, <2>3, <2>5, <2>6, <2>7, <2>8, <2>9 DEF ItemInv, ItemTyped
  <2>11. ItemOwed'
    BY <1>1, <1>3, <1>4, <2>1, <2>2, <2>3, <2>5, <2>6, <2>7, <2>8, <2>9 DEF ItemInv, ItemOwed
  <2>12. ItemRefsKnown'
    BY <1>1, <1>3, <1>4, <2>1, <2>2, <2>3, <2>5, <2>6, <2>7, <2>8, <2>9 DEF ItemInv, ItemRefsKnown
  <2>13. ItemPlace'
    BY <1>1, <1>3, <1>4, <2>1, <2>2, <2>3, <2>5, <2>6, <2>7, <2>8, <2>9 DEF ItemInv, ItemPlace
  <2>14. ItemPlain'
    BY <1>1, <1>3, <1>4, <2>1, <2>2, <2>3, <2>5, <2>6, <2>7, <2>8, <2>9
    DEF ItemInv, ItemPlain
  <2>15. ItemFaults'
    BY <1>1, <1>3, <1>4, <2>1, <2>2, <2>3, <2>5, <2>6, <2>7, <2>8, <2>9
    DEF ItemInv, ItemFaults
  <2>16. HidingSurvivesInventory'
    BY <1>1, <1>3, <1>4, <2>1, <2>2, <2>3, <2>5, <2>6, <2>7, <2>8, <2>9
    DEF HidingSurvivesInventory
  <2> QED
    BY <2>10, <2>11, <2>12, <2>13, <2>14, <2>15, <2>16 DEF ItemInv
<1> QED
  BY <1>7, <1>8

\* No item is hidden at the start.
LEMMA ItemStarts == ASSUME ItemInit PROVE ItemInv
<1>1. /\ item = [i \in Items |-> FALSE] /\ worn = item /\ itemRefs = [i \in Items |-> 0]
      /\ machine = NewMachine /\ lease = NoLease /\ ticket = NoTicket
      /\ suspended = FALSE /\ latched = FALSE
  BY DEF ItemInit
<1>2. /\ lease \in LeaseSet /\ lease.at = "none" /\ lease.retained = NoItem /\ ~lease.may
      /\ ~lease.closing /\ lease.pass = "none"
  BY <1>1 DEF NoLease, LeaseSet, ItemPlaces
<1>3. /\ machine \in MachineSet /\ machine.first = "none" /\ ~machine.owned /\ ~machine.proven
  BY <1>1 DEF NewMachine, MachineSet, ItemPhases, ItemFailures
<1>4. ticket \in TicketSet /\ ticket.item = NoItem
  BY <1>1 DEF TicketSet, NoTicket
<1>5. item \in [Items -> BOOLEAN] /\ itemRefs \in [Items -> Nat]
  BY <1>1
<1>6. \A i \in Items : i # NoItem
  BY ItemConstants
<1>7. ItemTyped
  BY <1>1, <1>2, <1>3, <1>4, <1>5 DEF ItemTyped
<1>8. ItemOwed /\ ItemRefsKnown
  BY <1>1, <1>2, <1>3, <1>4, <1>5, <1>6 DEF ItemOwed, ItemRefsKnown
<1>9. ItemPlace
  BY <1>1, <1>2, <1>3 DEF ItemPlace
<1>10. ItemPlain /\ ItemFaults /\ HidingSurvivesInventory
  BY <1>1, <1>2, <1>3 DEF ItemPlain, ItemFaults, HidingSurvivesInventory, NewMachine
<1> QED
  BY <1>7, <1>8, <1>9, <1>10 DEF ItemInv

\* Every action keeps the invariant.
LEMMA ItemNextKeeps == ASSUME ItemInv, ItemNext PROVE ItemInv'
<1>1. CASE BeginStarts
  BY <1>1, BeginStartsKeeps
<1>2. CASE BeginRefused
  BY <1>2, BeginRefusedKeeps
<1>3. CASE BeginRecovers
  BY <1>3, BeginRecoversKeeps
<1>4. CASE BeginReads
  BY <1>4, BeginReadsKeeps
<1>5. CASE BeginObserves
  BY <1>5, BeginObservesKeeps
<1>6. CASE BeginRetains
  BY <1>6, BeginRetainsKeeps
<1>7. CASE BeginWrites
  BY <1>7, BeginWritesKeeps
<1>8. CASE BeginRereads
  BY <1>8, BeginRereadsKeeps
<1>9. CASE BeginCompletes
  BY <1>9, BeginCompletesKeeps
<1>10. CASE BeginFails
  BY <1>10, BeginFailsKeeps
<1>11. CASE RestoreWrites
  BY <1>11, RestoreWritesKeeps
<1>12. CASE RestoreRereads
  BY <1>12, RestoreRereadsKeeps
<1>13. CASE RestoreReleases
  BY <1>13, RestoreReleasesKeeps
<1>14. CASE PassReturns
  BY <1>14, PassReturnsKeeps
<1>15. CASE CloseReads
  BY <1>15, CloseReadsKeeps
<1>16. CASE CloseObserves
  BY <1>16, CloseObservesKeeps
<1>17. CASE CloseRestores
  BY <1>17, CloseRestoresKeeps
<1>18. CASE CloseSettles
  BY <1>18, CloseSettlesKeeps
<1>19. CASE CloseEnds
  BY <1>19, CloseEndsKeeps
<1>20. CASE CloseJudges
  BY <1>20, CloseJudgesKeeps
<1>21. CASE TransitionSeen
  BY <1>21, TransitionSeenKeeps
<1>22. CASE CaptureEnds
  BY <1>22, CaptureEndsKeeps
<1>23. CASE MenuOpens
  BY <1>23, SuspensionKeeps
<1>24. CASE CloneChanges
  BY <1>24, CloneChangesKeeps
<1>25. CASE GameSetsItem
  BY <1>25, GameSetsItemKeeps
<1>26. CASE FenceRecovers
  BY <1>26, FenceRecoversKeeps
<1>27. CASE FenceReserves
  BY <1>27, SuspensionKeeps
<1>28. CASE LoadRecoversItem
  BY <1>28, LoadRecoversItemKeeps
<1> QED
  BY <1>1, <1>2, <1>3, <1>4, <1>5, <1>6, <1>7, <1>8, <1>9, <1>10, <1>11, <1>12, <1>13, <1>14,
     <1>15, <1>16, <1>17, <1>18, <1>19, <1>20, <1>21, <1>22, <1>23, <1>24, <1>25, <1>26, <1>27,
     <1>28
     DEF ItemNext

\* The invariant holds of the owner's every item.
LEMMA ItemOwnerFact == ASSUME ItemInv PROVE ItemHasOwner
<1>1. /\ \A i \in Items : i # NoItem
      /\ lease.retained \in Items \cup {NoItem} /\ ticket \in TicketSet
  BY ItemConstants DEF ItemInv, ItemTyped, LeaseSet
<1>2. ASSUME NEW i \in Items, item[i] # worn[i]
      PROVE  \/ lease.retained = i /\ lease.may /\ machine.prior = worn[i]
             \/ ticket = [item |-> i, prior |-> worn[i]]
  <2>1. CASE lease.retained = i
    BY <1>1, <2>1 DEF ItemInv, ItemOwed
  <2>2. CASE lease.retained # i
    <3>1. ticket.item = i /\ ticket # NoTicket
      BY <1>1, <1>2, <2>2 DEF ItemInv, ItemOwed, NoTicket
    <3>2. ticket.prior = worn[i]
      BY <3>1 DEF ItemInv, ItemOwed
    <3>3. ticket \in [item : Items, prior : BOOLEAN]
      BY <1>1, <3>1 DEF TicketSet
    <3> QED
      BY <3>1, <3>2, <3>3
  <2> QED
    BY <2>1, <2>2
<1>3. \A i \in {lease.retained, ticket.item} \ {NoItem} : itemRefs[i] >= 1
  BY <1>1 DEF ItemInv, ItemRefsKnown, TicketSet, NoTicket
<1>4. lease.retained # NoItem => ticket = NoTicket
  BY DEF ItemInv, ItemOwed, ItemPlace, NoLease
<1> QED
  BY <1>2, <1>3, <1>4 DEF ItemHasOwner

\* At a publication nothing is owed.
LEMMA PublishedFact == ASSUME ItemInv PROVE PublishedIsClean
<1>1. SUFFICES ASSUME lease.at = "returned", ~lease.cleanupOnly, ~NativeFault
               PROVE  /\ item = worn /\ ticket = NoTicket
                      /\ lease.retained = NoItem /\ \A i \in Items : itemRefs[i] = 0
  BY DEF PublishedIsClean
<1>2. ~latched /\ ~lease.faulted
  BY <1>1 DEF NativeFault
<1>3. lease.retained = NoItem /\ ticket = NoTicket /\ NoTicket.item = NoItem
  BY <1>1, <1>2 DEF ItemInv, ItemPlace, NoTicket
<1>4. \A i \in Items : i # NoItem
  BY ItemConstants
<1>5. \A i \in Items : item[i] = worn[i] /\ itemRefs[i] = 0
  BY <1>2, <1>3, <1>4 DEF ItemInv, ItemOwed, ItemRefsKnown
<1>6. item \in [Items -> BOOLEAN] /\ worn \in [Items -> BOOLEAN]
  BY DEF ItemInv, ItemTyped
<1> QED
  BY <1>3, <1>5, <1>6

-----------------------------------------------------------------------------
(* The composition *)

ScopesInv == IInv /\ PInv /\ ItemInv

LEMMA ScopesInitHolds == ScopesInit => ScopesInv
BY InitEstablishes, PlayerInitHolds, ItemStarts DEF ScopesInit, ScopesInv

LEMMA UnchangedRegistry == IInv /\ UNCHANGED vars => IInv'
BY StepPreserves

LEMMA UnchangedPlayer == PInv /\ UNCHANGED playerVars => PInv'
BY PlayerStepHolds

LEMMA UnchangedItem == ItemInv /\ UNCHANGED itemVars => ItemInv'
BY DEF itemVars, ItemInv, ItemTyped, ItemOwed, ItemRefsKnown, ItemPlace, ItemPlain, ItemFaults,
       HidingSurvivesInventory, NativeFault, NoLease, NewMachine, NoTicket

\* Whichever of the three the behaviour follows, the step is one of its own.
LEMMA ScopesStepHolds == ScopesInv /\ [ScopesNext]_scopesVars => ScopesInv'
<1> SUFFICES ASSUME ScopesInv, [ScopesNext]_scopesVars PROVE ScopesInv'
  OBVIOUS
<1> USE DEF ScopesInv
<1>1. CASE Next /\ UNCHANGED <<playerVars, itemVars>>
  BY <1>1, StepPreserves, UnchangedPlayer, UnchangedItem
<1>2. CASE DataLoaded /\ UNCHANGED itemVars
  <2>1. PlayerLease \in Registrations
    BY PlayerLeaseConstants DEF PlayerLease, Registrations, Maturities
  <2>2. TryArm(PlayerLease) /\ UNCHANGED playerVars
    BY <1>2 DEF DataLoaded
  <2> QED
    BY <1>2, <2>1, <2>2, ArmingPreserves, UnchangedPlayer, UnchangedItem
<1>3. CASE PlayerNext /\ UNCHANGED <<vars, itemVars>>
  BY <1>3, UnchangedRegistry, PlayerStepHolds, UnchangedItem
<1>4. CASE ItemNext /\ UNCHANGED <<vars, playerVars>>
  BY <1>4, ItemNextKeeps, UnchangedRegistry, UnchangedPlayer
<1>5. CASE UNCHANGED <<vars, playerVars, itemVars>>
  BY <1>5, UnchangedRegistry, UnchangedPlayer, UnchangedItem
<1> QED
  BY <1>1, <1>2, <1>3, <1>4, <1>5 DEF ScopesNext, scopesVars

LEMMA ScopesInductive == ScopesSpec => []ScopesInv
BY ScopesInitHolds, ScopesStepHolds, PTL DEF ScopesSpec

\* The members of the registry keep their types, for any names and families.
THEOREM TypeCorrect == ScopesSpec => []TypeOK
<1>1. ScopesInv => TypeOK
  BY DEF ScopesInv, IInv
<1> QED
  BY <1>1, ScopesInductive, PTL

\* Of the leases that callers believe to be armed at most one in a family is
\* unproven, and unprovenHolder names it (TryArm).
THEOREM AttributableFailures == ScopesSpec => []FailuresAttributable
<1>1. ScopesInv => FailuresAttributable
  BY DEF ScopesInv, IInv, FailuresAttributable
<1> QED
  BY <1>1, ScopesInductive, PTL

\* Whichever native calls fail or fault, for any number of body roots: a body
\* that is not as the game put it is owed by the one holder who retains it and
\* knows the value (the scope's Close, QueueFailedRollback and
\* TryRecoverPendingRollback of MirrorsOfSkyrimPlayerInclusion.cpp).
THEOREM BodyAlwaysOwed == ScopesSpec => []BodyHasOwner
BY OwedAsStated, ScopesInductive, PTL DEF ScopesInv

\* Whichever call of the item's scope fails, faults or meets a transition, for
\* any number of items and tries: an item that is not as the game put it is owed
\* by the capture that retains it, or by the one ticket, with the value and a
\* reference to write it (CompleteHandRestoreAction,
\* CloseHandSuppressionForLifecycleTransition, RetainHandSuppressionCleanupOnly
\* and TryRecoverPendingHandSuppression of SecondView.cpp).
THEOREM ItemAlwaysOwed == ScopesSpec => []ItemHasOwner
BY ItemOwnerFact, ScopesInductive, PTL DEF ScopesInv

\* A capture whose image may be published (CloseHandSuppression has returned and
\* nothing in g_faulted or the lease discards it) has put back whatever it hid
\* and holds no reference to any item.
THEOREM CleanWhenPublished == ScopesSpec => []PublishedIsClean
BY PublishedFact, ScopesInductive, PTL DEF ScopesInv

\* A capture whose every call worked faults only if the clone had changed before
\* its hiding was verified (or it hid nothing, the item being hidden already), or
\* if the transition became visible after the item had been put back: while it
\* holds the item hidden, nothing that is seen costs the player the mirror
\* (CanCleanupSynchronousSubtreeReplacement, IsLifecycleAttributableFailure,
\* CloseHandSuppressionForLifecycleTransition).
THEOREM HidingSurvives == ScopesSpec => []HidingSurvivesInventory
<1>1. ScopesInv => HidingSurvivesInventory
  BY DEF ScopesInv, ItemInv
<1> QED
  BY <1>1, ScopesInductive, PTL

=============================================================================
