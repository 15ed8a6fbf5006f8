--------------------------- MODULE MCShareHelper ---------------------------
\* Instances of ShareHelper for TLC.
EXTENDS ShareHelper, TLC

CONSTANTS a, b, c
\* Two applicants that may be exchanged, and the device they apply to.
Applicants == {a, c}
Three == {a, b, c}
Symmetry == Permutations(Applicants)
=============================================================================
