------------------------- MODULE MCImportLifecycle -------------------------
(* One managed name of each kind and two payloads, each a detached package *)
(* or a skill of the user, so that every order of staging, activation and  *)
(* cleaning happens and a sync can find several detached packages.         *)
EXTENDS ImportLifecycle
CONSTANTS kept, added, first, second
============================================================================
