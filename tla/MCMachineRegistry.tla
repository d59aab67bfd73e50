------------------------- MODULE MCMachineRegistry -------------------------
(* MachineRegistry on a small instance: two targets that compete for one   *)
(* path, so that forks and path conflicts happen, and generations up to a  *)
(* bound.                                                                  *)
EXTENDS MachineRegistry, TLC

CONSTANT MaxGeneration    \* bound: no target is explored past this generation

GenerationBound == \A t \in TargetId : generation[t] <= MaxGeneration

Symmetry == Permutations(TargetId) \cup Permutations(Path)
              \cup Permutations(Package) \cup Permutations(OperationId)
              \cup Permutations(Digest)

============================================================================
