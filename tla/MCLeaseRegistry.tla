-------------------------- MODULE MCLeaseRegistry ---------------------------
(* Instance of LeaseRegistry for TLC.                                      *)
EXTENDS LeaseRegistry, TLC
\* Names are interchangeable.
Symmetric == Permutations(Names)
=============================================================================
