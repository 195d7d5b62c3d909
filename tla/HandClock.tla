------------------------------ MODULE HandClock -----------------------------
(***************************************************************************)
(* The refresh cap of the hand mirror (src/src/MirrorFleetRuntime.cpp,     *)
(* HandDue and HandPlanned, called by the fence of SecondView.cpp).  The   *)
(* fence asks whether the clock is due and plans a capture only then, but  *)
(* each call reads the refresh setting for itself: a settings change       *)
(* between the two plans for an interval the fence did not ask about.      *)
(***************************************************************************)
EXTENDS RefreshClock

CONSTANTS Intervals, \* microseconds between captures the settings allow
          MaxTime    \* bound on the time TLC explores

ASSUME HandClockConstants ==
  /\ Intervals \subseteq Nat
  /\ MaxTime \in Nat

Times == 0 .. MaxTime

VARIABLES
  clock,  \* g_handClock
  now,    \* MirrorFleetRuntime::Now
  due,    \* the fence found the clock due and has not planned yet
  anchor, \* when the clock last started anew
  planned \* captures planned since then

clockVars == <<clock, now, due, anchor, planned>>

ClockInit ==
  /\ clock = NewClock
  /\ now = 0
  /\ due = FALSE
  /\ anchor = 0
  /\ planned = 0

\* The fence and the plan each read the time.
Pass(t) ==
  /\ t > now
  /\ now' = t
  /\ UNCHANGED <<clock, due, anchor, planned>>

HandDue(requested) ==
  /\ ~due
  /\ Due(clock, now, requested)
  /\ due' = TRUE
  /\ UNCHANGED <<clock, now, anchor, planned>>

\* Every allocation of the plan failed: nothing is planned.
HandUnplanned ==
  /\ due
  /\ due' = FALSE
  /\ UNCHANGED <<clock, now, anchor, planned>>

\* A capture that the fence found due at another setting and that comes before
\* the deadline of this one is not counted as a capture of this setting.
HandPlanned(requested) ==
  /\ due
  /\ due' = FALSE
  /\ clock' = Attempt(clock, now, requested)
  /\ IF Restarts(clock, now, requested)
     THEN anchor' = now /\ planned' = 1
     ELSE UNCHANGED anchor /\ planned' = IF now >= clock.next THEN planned + 1 ELSE planned
  /\ UNCHANGED now

ClockNext ==
  \/ \E t \in Times : Pass(t)
  \/ \E requested \in Intervals : HandDue(requested) \/ HandPlanned(requested)
  \/ HandUnplanned

ClockSpec == ClockInit /\ [][ClockNext]_clockVars

-----------------------------------------------------------------------------
\* Every variable has the type of its C++ counterpart.
ClockTyped ==
  /\ clock \in Clocks(Nat, Intervals \cup {0})
  /\ now \in Times
  /\ due \in BOOLEAN
  /\ anchor \in Times
  /\ planned \in Nat

Capped ==
  clock.started /\ clock.interval > 0 =>
    /\ (planned - 1) * clock.interval <= clock.last - anchor
    /\ clock.last < clock.next
    /\ clock.next <= clock.last + clock.interval

OnGrid ==
  clock.started /\ clock.interval > 0 =>
    (clock.next - anchor) % clock.interval = 0

\* The cap holds over any stretch at one setting, however late single captures
\* are: n captures take at least n - 1 intervals.  Nor does the clock stall: the
\* next capture is due after the last one and at most an interval later, on the
\* grid that began with the first, so late frames do not lower the rate.
Cadence == Capped /\ OnGrid
=============================================================================
