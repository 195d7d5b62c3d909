---------------------------- MODULE RefreshClock ----------------------------
(***************************************************************************)
(* The refresh cadence of a mirror (src/src/MirrorFleetPolicy.h, Clock):   *)
(* deadlines lie on a grid of the configured interval, so a late capture   *)
(* does not shift the ones after it; an interval of 0 is every frame.      *)
(***************************************************************************)
EXTENDS Integers

Clocks(T, I) == [next : T, last : T, interval : I, started : BOOLEAN]

NewClock == [next |-> 0, last |-> 0, interval |-> 0, started |-> FALSE]

\* The clock starts anew: first use, another interval, or time gone back.
Restarts(clock, now, requested) ==
  ~clock.started \/ requested # clock.interval \/ now < clock.last \/ requested = 0

Due(clock, now, requested) == Restarts(clock, now, requested) \/ now >= clock.next

\* Mutant: the next deadline counts from the late capture.
FollowingShifted(next, now, requested) == now + requested

\* The first deadline of the grid after now.
Following(next, now, requested) ==
  next + ((now - next) \div requested + 1) * requested

NextDeadline(clock, now, requested) ==
  IF Restarts(clock, now, requested) THEN now + requested
  ELSE IF now >= clock.next THEN Following(clock.next, now, requested)
  ELSE clock.next

Attempt(clock, now, requested) ==
  [next |-> NextDeadline(clock, now, requested),
   last |-> now, interval |-> requested, started |-> TRUE]

Wake(clock) == [clock EXCEPT !.started = FALSE]
=============================================================================
