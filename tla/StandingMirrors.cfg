\* Cadence: every frame, and two caps, in ticks; the wall mirror leaves, returns
\* and is reloaded over six frames.
CONSTANTS
  Intervals = {0, 2, 3}
  MaxTime = 9
  Window = 1
  MaxFrame = 6
  MaxLifetime = 2
\* Recognition: a form that is reused, in two poses, flat or without bounds; one
\* thread of events, and a load or a new game.
  Forms = {f1}
  Threads = {t1}
  Poses = {q1, q2}
  Flat = Flat
  NoBounds = NoBounds
  NoCandidate = NoCandidate
  NoFrame = NoFrame
  MaxLife = 2
  MaxGeneration = 2
  MaxSession = 1
\* Occlusion: a mirror in two lives before two views, over a load and four frames, so the
\* age and the bridge of what the first of them saw run out within the run.
  Panes = {w1}
  Lives = {g1, g2}
  Places = {1}
  Views = {v1, v2}
  QuerySlots = 2
  MaxAge = 2
  Bridge = 1
  NoEvidence = NoEvidence
  NoQueries = NoQueries
  MaxWorldFrame = 4
  MaxWorlds = 2
SPECIFICATION StandingSpec
SYMMETRY Symmetric
CHECK_DEADLOCK FALSE
INVARIANTS Cadence GraceOnce HiddenIsOwed RetainedWasHidden
PROPERTIES DrawnAsSeen OwnLoadOnly CulledWasHidden
