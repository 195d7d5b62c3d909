------------------------- MODULE MCFramePublication -------------------------
(* Instance of FramePublication for TLC.                                   *)
EXTENDS FramePublication, TLC

\* Forms, generations, textures and producers are interchangeable.
Symmetric ==
  Permutations(Gens) \cup Permutations(Forms) \cup Permutations(Resources) \cup Permutations(Producers)
=============================================================================
