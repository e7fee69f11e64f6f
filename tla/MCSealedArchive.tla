-------------------------- MODULE MCSealedArchive --------------------------
\* Two segment objects and their manifest.
EXTENDS SealedArchive, TLC

CONSTANTS s1, s2

MCSegment == {s1, s2}
MCSymmetry == Permutations(MCSegment)
=============================================================================
