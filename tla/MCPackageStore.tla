-------------------------- MODULE MCPackageStore --------------------------
(* PackageStore for TLC: two commands, one entry that both work on.        *)
EXTENDS PackageStore
===========================================================================
