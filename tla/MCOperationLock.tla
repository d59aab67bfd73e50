--------------------------- MODULE MCOperationLock ---------------------------
(* The helper protocol with three commands, enough for one to hold the     *)
(* lock, one to have lost it unnoticed and one to contend.                 *)
EXTENDS OperationLock
============================================================================
