------------------------- MODULE MCCaptureAdmission -------------------------
\* Instances of CaptureAdmission for TLC.
EXTENDS CaptureAdmission, TLC

Interchangeable == Permutations(Mirrors) \cup Permutations(Roots) \cup Permutations(Slots)
=============================================================================
