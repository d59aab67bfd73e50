------------------------ MODULE MCLocalProjections ------------------------
(* Package a depends on package b; each is called like itself, and there   *)
(* is one more name.                                                       *)
EXTENDS LocalProjections, TLC
CONSTANTS a, b, other
Defaults == (a :> a) @@ (b :> b)
Edges == {<<a, b>>}
============================================================================
