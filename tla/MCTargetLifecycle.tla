------------------------- MODULE MCTargetLifecycle -------------------------
(* TargetLifecycle for TLC.                                                *)
EXTENDS TargetLifecycle, TLC

Symmetry == Permutations(TargetId) \cup Permutations(OperationId)
              \cup Permutations(Digest) \cup Permutations(Package)
              \cup Permutations(Client)
=============================================================================
