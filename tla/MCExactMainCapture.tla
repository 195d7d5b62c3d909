------------------------- MODULE MCExactMainCapture -------------------------
(***************************************************************************)
(* Instance: two entries, two mirrors in a batch of two, two places.       *)
(***************************************************************************)
EXTENDS ExactMainCapture, TLC

Symmetry == Permutations(Entries)
=============================================================================
