------------------------ MODULE MCCapturePipeline ---------------------------
(* Two lifetimes of one mirror and a second mirror, on two slots.          *)
EXTENDS CapturePipeline, TLC
MCMirrors == {[form |-> 1, gen |-> 1], [form |-> 1, gen |-> 2], [form |-> 2, gen |-> 1]}
Symmetric == Permutations(Textures)
=============================================================================
