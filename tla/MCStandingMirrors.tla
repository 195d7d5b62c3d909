------------------------- MODULE MCStandingMirrors --------------------------
(* Instance of StandingMirrors for TLC.                                    *)
EXTENDS StandingMirrors, TLC

\* The queries compare generations, and views, for being the same alone.
Symmetric == Permutations(Lives) \cup Permutations(Views)
=============================================================================
