--------------------------- MODULE MCTargetCopies ---------------------------
EXTENDS Doctor, TLC

Symmetry == Permutations(Path) \cup Permutations(TargetId) \cup Permutations(Version)
=============================================================================
