-------------------------- MODULE MCPluginSession ---------------------------
(* Instance of PluginSession for TLC: the mirrors of the scheduler.        *)
EXTENDS PluginSession
Mirror(f, g) == [form |-> f, gen |-> g]
\* Mirror 2 may be seen in two lifetimes at once.
TwoLifetimes == {Mirror(1, 1), Mirror(2, 1), Mirror(2, 2), Mirror(3, 1)}
=============================================================================
