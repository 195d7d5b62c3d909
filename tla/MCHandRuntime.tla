--------------------------- MODULE MCHandRuntime ---------------------------
(***************************************************************************)
(* TLC instance of HandRuntime.  The two equipped objects are model        *)
(* values that no action tells apart.                                      *)
(***************************************************************************)
EXTENDS HandRuntime, TLC

CONSTANTS shield, torch

MCOwners == {shield, torch}
Symmetry == Permutations(MCOwners)
=============================================================================
