---------------------------- MODULE TargetFiles ----------------------------
(***************************************************************************)
(* The files of one target directory, next to the registry that is the     *)
(* authority over them: the live projections, the hidden staging           *)
(* containers and the marker .skiloom-state                                *)
(* (src/src/runtime/target-projection, target-reconcile/recovery.ts,       *)
(* target-state-marker.ts).  Operators here are the file operations; each  *)
(* is one rename, one recursive removal or one write.                      *)
(***************************************************************************)
EXTENDS MachineRegistry

CONSTANTS TargetRoot,    \* the directory that the commands work on
          Foreign,       \* content of a path that is not the package store's
          NoContainer,   \* no staging directory
          NoMarker       \* no .skiloom-state

ASSUME TargetRootAssumption == TargetRoot \in Path
ASSUME ForeignAssumption == Foreign \notin Digest \cup {NoDigest}

VARIABLES
  live,       \* what the directory shows under each package's name
  staging,    \* .skiloom-stage-<name>-<uuid> of an operation, per name
  marker      \* .skiloom-state: target, generation and managed baselines

fileVars == <<live, staging, marker>>

LiveContent == Digest \cup {NoDigest, Foreign}

(* A container holds the projection to activate, the one that was retired  *)
(* for it, and the recovery manifest: what to do ("none" until written)    *)
(* and what was live before.                                               *)
Container == [projection: Digest \cup {NoDigest}, retired: LiveContent,
              action: {"none", "stage", "remove"}, previous: Digest \cup {NoDigest}]

Marker == [target: TargetId, generation: Nat, packages: Content]

ASSUME NoContainerAssumption == NoContainer \notin Container
ASSUME NoMarkerAssumption == NoMarker \notin Marker

FilesTypeOK ==
  /\ live \in [Package -> LiveContent]
  /\ staging \in [OperationId -> [Package -> Container \cup {NoContainer}]]
  /\ marker \in Marker \cup {NoMarker}

FilesInit ==
  /\ live = [n \in Package |-> NoDigest]
  /\ staging = [op \in OperationId |-> [n \in Package |-> NoContainer]]
  /\ marker = NoMarker

----------------------------------------------------------------------------
(* verifyManagedProjection against a content that has the name: it is what *)
(* is live, it is missing, or the directory has drifted.                   *)
Shows(n, content) == content[n] # NoDigest /\ live[n] = content[n]
Missing(n) == live[n] = NoDigest
Drifted(n, content) == content[n] # NoDigest /\ ~Shows(n, content) /\ ~Missing(n)

(* verifyCurrentBeforeStaging: what exists must be the current projection. *)
MayStage(n, current) == Missing(n) \/ Shows(n, current)

(* createStagingContainer and buildStagingProjection.                      *)
StageContainer(op, n, digest) ==
  staging' = [staging EXCEPT ![op][n] =
    [projection |-> digest, retired |-> NoDigest, action |-> "none", previous |-> NoDigest]]

(* writeTargetReconciliationRecoveryManifest; it makes the directory if it *)
(* is not there.                                                           *)
WriteManifest(op, n, action, previous) ==
  staging' = [staging EXCEPT ![op][n] =
    IF @ = NoContainer
      THEN [projection |-> NoDigest, retired |-> NoDigest,
            action |-> action, previous |-> previous]
      ELSE [@ EXCEPT !.action = action, !.previous = previous]]

(* discard and removePendingStagingPath.                                   *)
RemoveContainer(op, n) == staging' = [staging EXCEPT ![op][n] = NoContainer]

Holds(op, n) == staging[op][n] # NoContainer /\ staging[op][n].projection # NoDigest

(* The staged projection is renamed to its name.                           *)
Activate(op, n) ==
  /\ Holds(op, n)
  /\ Missing(n)
  /\ live' = [live EXCEPT ![n] = staging[op][n].projection]
  /\ staging' = [staging EXCEPT ![op][n].projection = NoDigest]

(* A replaced projection is first renamed into the container, ...          *)
Retire(op, n) ==
  /\ staging[op][n] # NoContainer
  /\ staging' = [staging EXCEPT ![op][n].retired = live[n]]
  /\ live' = [live EXCEPT ![n] = NoDigest]

(* ... and renamed back if the second rename fails.                        *)
Reinstate(op, n) ==
  /\ staging[op][n] # NoContainer
  /\ Missing(n)
  /\ live' = [live EXCEPT ![n] = staging[op][n].retired]
  /\ staging' = [staging EXCEPT ![op][n].retired = NoDigest]

(* writeTargetStateMarkerFile: a temporary file renamed over the marker.   *)
WriteMarker(t, gen, packages) ==
  marker' = [target |-> t, generation |-> gen, packages |-> packages]
============================================================================
