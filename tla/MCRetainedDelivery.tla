------------------------ MODULE MCRetainedDelivery --------------------------
(* Instance of RetainedDelivery for TLC: one lifetime of each mirror.      *)
EXTENDS RetainedDelivery
TwoMirrors == {[form |-> 1, gen |-> 1], [form |-> 2, gen |-> 1]}
=============================================================================
