-------------------------- MODULE MachineRegistry --------------------------
(***************************************************************************)
(* The machine registry: the SQLite database that is the authority for     *)
(* what every target has accepted (src/src/runtime/registry/write.ts and   *)
(* schema.ts).  Each operation of the registry is one IMMEDIATE            *)
(* transaction, so each is one action here; a rejected call rolls back and *)
(* leaves no trace, so it is a disabled action and its callers branch on   *)
(* the guard.                                                              *)
(*                                                                         *)
(* Tables whose rows are looked up by key are functions, tables that are   *)
(* searched are sets of rows.  direct_requirements, resolved_sources,      *)
(* dependency_edges, projections and detached_baselines are always         *)
(* rewritten together with resolved_packages; one function stands for      *)
(* them all.                                                               *)
(***************************************************************************)
EXTENDS Integers, FiniteSets

CONSTANTS TargetId,       \* ids of targets (random UUIDs)
          Path,           \* directories a target may be installed in
          OperationId,    \* ids of pending operations (random UUIDs)
          Package,        \* packages; a package names its projection
          Digest,         \* content digests
          Kind,           \* kinds of dependency observation
          NoDigest,       \* the package is not part of the state
          NoOperation     \* replaceTargetState called without pending id

ASSUME NoDigestAssumption == NoDigest \notin Digest
ASSUME NoOperationAssumption == NoOperation \notin OperationId

VARIABLES
  generation,          \* targets: id -> generation, NoRow without a row
  resolvedPackages,    \* accepted content of a target: package -> digest
  targetLocations,     \* rows [path, target, observed]
  pendingOperations,   \* rows [operation, target, base, next, actions]
  observations         \* rows [target, package, kind, digest]

registryVars == <<generation, resolvedPackages, targetLocations,
                  pendingOperations, observations>>

NoRow == -1               \* targets has no row for the id
NotObserved == -1         \* observed_generation IS NULL

Content == [Package -> Digest \cup {NoDigest}]
NoContent == [p \in Package |-> NoDigest]

LocationRow == [path: Path, target: TargetId, observed: Nat \cup {NotObserved}]
PendingRow == [operation: OperationId, target: TargetId,
               base: Nat, next: Nat, actions: SUBSET Package]
ObservationRow == [target: TargetId, package: Package, kind: Kind, digest: Digest]

RegistryTypeOK ==
  /\ generation \in [TargetId -> Nat \cup {NoRow}]
  /\ resolvedPackages \in [TargetId -> Content]
  /\ targetLocations \subseteq LocationRow
  /\ pendingOperations \subseteq PendingRow
  /\ observations \subseteq ObservationRow

LocationsOf(t) == {row \in targetLocations : row.target = t}
PendingOf(t) == {row \in pendingOperations : row.target = t}
ObservationsOf(t) == {row \in observations : row.target = t}
Accepted(t) == generation[t] >= 1

(* Mutant: the generation is read without the inserted row.                *)
GenerationAsStored(t) == generation[t]

(* Mutant: the inserted row replaces the one that is there.                *)
GenerationReset(t) == 0

(* readGeneration after INSERT ... ON CONFLICT DO NOTHING of a zero row.   *)
InsertedGeneration(t) == IF generation[t] = NoRow THEN 0 ELSE generation[t]

RegistryInit ==
  /\ generation = [t \in TargetId |-> NoRow]
  /\ resolvedPackages = [t \in TargetId |-> NoContent]
  /\ targetLocations = {}
  /\ pendingOperations = {}
  /\ observations = {}

----------------------------------------------------------------------------
(* Pending operations.                                                     *)

FreshOperation(op) == \A row \in pendingOperations : row.operation # op

InsertPending(op, t, base, actions) ==
  /\ FreshOperation(op)
  /\ PendingOf(t) = {}
  /\ pendingOperations' = pendingOperations \cup
       {[operation |-> op, target |-> t, base |-> base, next |-> base + 1,
         actions |-> actions]}
  /\ UNCHANGED <<resolvedPackages, targetLocations, observations>>

(* A lifecycle change announces generation + 1; the zero row of a new      *)
(* target is inserted by the same transaction.                             *)
BeginPendingOperation(op, t, actions) ==
  /\ InsertPending(op, t, InsertedGeneration(t), actions)
  /\ generation' = [generation EXCEPT ![t] = InsertedGeneration(t)]

(* A reconciliation re-applies the accepted generation: its base is the    *)
(* generation before.                                                      *)
BeginPendingReconciliation(op, t, actions) ==
  /\ Accepted(t)
  /\ InsertPending(op, t, generation[t] - 1, actions)
  /\ UNCHANGED generation

(* Deletes the row and, with it, the zero row of a target that was never   *)
(* accepted and that nothing else refers to.  An unknown id is a no-op.    *)
CompletePendingOperation(op) ==
  LET done == {row \in pendingOperations : row.operation = op}
      rest == pendingOperations \ done
      orphaned(t) == /\ generation[t] = 0
                     /\ \E row \in done : row.target = t
                     /\ \A row \in rest : row.target # t
                     /\ LocationsOf(t) = {}
  IN /\ pendingOperations' = rest
     /\ generation' = [t \in TargetId |->
                         IF orphaned(t) THEN NoRow ELSE generation[t]]
     /\ UNCHANGED <<resolvedPackages, targetLocations, observations>>

----------------------------------------------------------------------------
(* Locations and observations.                                             *)

ObserveTargetLocation(t, path, observed) ==
  /\ generation[t] # NoRow
  /\ observed <= generation[t]
  /\ \A row \in targetLocations : row.path = path => row.target = t
  /\ targetLocations' =
       {row \in targetLocations : row.path # path} \cup
       {[path |-> path, target |-> t, observed |-> observed]}
  /\ UNCHANGED <<generation, resolvedPackages, pendingOperations, observations>>

(* Replaces the observations of one kind; refuses one made of a digest     *)
(* that is no longer the accepted one.                                     *)
ReplaceDependencyObservations(t, kind, digests) ==
  /\ generation[t] # NoRow
  /\ \A p \in Package :
        digests[p] # NoDigest => resolvedPackages[t][p] = digests[p]
  /\ observations' =
       {row \in observations : row.target # t \/ row.kind # kind} \cup
       {[target |-> t, package |-> p, kind |-> kind, digest |-> digests[p]] :
          p \in {q \in Package : digests[q] # NoDigest}}
  /\ UNCHANGED <<generation, resolvedPackages, targetLocations, pendingOperations>>

----------------------------------------------------------------------------
(* Acceptance of a new state.                                              *)

(* Mutant: any pending row of the target will do, whatever it announces.   *)
PendingNamed(op, t) ==
  op = NoOperation \/ \E row \in PendingOf(t) : row.operation = op

(* Mutant: no look at the pending rows at all.                             *)
PendingIgnored(op, t) == TRUE

(* With a pending id the row must announce exactly this step of the        *)
(* generation; without one, the target must have no pending row at all.    *)
PendingPermits(op, t) ==
  IF op = NoOperation
    THEN PendingOf(t) = {}
    ELSE \E row \in PendingOf(t) :
           /\ row.operation = op
           /\ row.base = InsertedGeneration(t)
           /\ row.next = InsertedGeneration(t) + 1

(* replaceTargetRowsTransaction: every fact of t is replaced and the       *)
(* generation advances by one.  "released" are the locations that a fork   *)
(* takes away from another target first; the path is a primary key, so     *)
(* t may not take a location any other target still holds.                 *)
ReplaceTargetRows(op, t, next, locations, kept, released) ==
  LET others == {row \in targetLocations \ released : row.target # t} IN
  /\ PendingPermits(op, t)
  /\ \A row \in others : \A own \in locations : row.path # own.path
  /\ generation' = [generation EXCEPT ![t] = InsertedGeneration(t) + 1]
  /\ resolvedPackages' = [resolvedPackages EXCEPT ![t] = next]
  /\ targetLocations' = others \cup locations
  /\ observations' = {row \in observations : row.target # t} \cup kept
  /\ UNCHANGED pendingOperations

(* Mutant: every observation is carried over to the new state.             *)
CarriedOver(t, next) == {row \in ObservationsOf(t) : next[row.package] # NoDigest}

(* buildNextRegistryState: an accepted target keeps its locations, and the *)
(* observations of the packages whose digest the new state keeps.          *)
StillCurrent(t, next) ==
  {row \in ObservationsOf(t) : next[row.package] = row.digest}

ReplaceTargetState(op, t, next) ==
  /\ Accepted(t)
  /\ ReplaceTargetRows(op, t, next, LocationsOf(t), StillCurrent(t, next), {})

(* buildFreshRegistryState: a new target starts at one path that no marker *)
(* has been read from yet.                                                 *)
FreshLocation(t, path) ==
  {[path |-> path, target |-> t, observed |-> NotObserved]}

ReplaceFreshTargetState(op, t, path, next) ==
  /\ ~Accepted(t)
  /\ ReplaceTargetRows(op, t, next, FreshLocation(t, path), {}, {})

(* A fork takes the path over from the target that held it, if that target *)
(* is still at the generation the fork was computed from.                  *)
ReplaceForkedTargetState(op, t, from, expected, path, next) ==
  /\ ~Accepted(t)
  /\ from # t
  /\ generation[from] = expected
  /\ \E row \in LocationsOf(from) : row.path = path
  /\ ReplaceTargetRows(op, t, next, FreshLocation(t, path), {},
                       {row \in LocationsOf(from) : row.path = path})

----------------------------------------------------------------------------
(* The registry as any sequence of calls its callers can make.             *)

RegistryNext ==
  \/ \E op \in OperationId, t \in TargetId, actions \in SUBSET Package :
       \/ BeginPendingOperation(op, t, actions)
       \/ BeginPendingReconciliation(op, t, actions)
  \/ \E op \in OperationId : CompletePendingOperation(op)
  \/ \E t \in TargetId, path \in Path :
       /\ Accepted(t)
       /\ \E observed \in 1..generation[t] : ObserveTargetLocation(t, path, observed)
  \/ \E t \in TargetId, kind \in Kind, digests \in Content :
       ReplaceDependencyObservations(t, kind, digests)
  \/ \E op \in OperationId \cup {NoOperation}, t \in TargetId, next \in Content :
       \/ ReplaceTargetState(op, t, next)
       \/ \E path \in Path : ReplaceFreshTargetState(op, t, path, next)
       \/ \E path \in Path, from \in TargetId : \E expected \in 1..generation[from] :
            ReplaceForkedTargetState(op, t, from, expected, path, next)

RegistrySpec == RegistryInit /\ [][RegistryNext]_registryVars

----------------------------------------------------------------------------
(* Safety.                                                                 *)

(* A target has at most one pending operation.  Recovery relies on it: its *)
(* "multiple-pending-operations" conflict (recovery/index.ts:149) is       *)
(* unreachable.                                                            *)
AtMostOnePending ==
  \A a, b \in pendingOperations : a.target = b.target => a = b

(* A pending row always sits on either side of the commit it announces:    *)
(* the target is at its base (not committed) or at its next (committed),   *)
(* so recovery can always tell the two apart and its "generation-mismatch" *)
(* conflict (recovery/index.ts:204) is unreachable.                        *)
PendingClassifies ==
  \A row \in pendingOperations :
    /\ row.next = row.base + 1
    /\ generation[row.target] \in {row.base, row.next}

(* A zero row exists only while its first operation is pending: a first    *)
(* install that gives up leaves no target behind                           *)
(* (completePendingOperationRows).                                         *)
UnacceptedIsPending ==
  \A t \in TargetId : generation[t] = 0 => PendingOf(t) # {}

(* The pending rows of every target can be read after any death.           *)
PendingSound == AtMostOnePending /\ PendingClassifies /\ UnacceptedIsPending

(* No row refers to a target that has none (the foreign keys), nor to an   *)
(* accepted state it never had.                                            *)
ReferencesResolve ==
  \A t \in TargetId :
    /\ generation[t] = NoRow => PendingOf(t) = {}
    /\ ~Accepted(t) => /\ LocationsOf(t) = {}
                       /\ ObservationsOf(t) = {}
                       /\ resolvedPackages[t] = NoContent

(* One target per path, and no location claims a generation that its       *)
(* target has not reached ("generation-ahead").                            *)
LocationsConsistent ==
  \A a \in targetLocations :
    /\ \A b \in targetLocations : a.path = b.path => a = b
    /\ a.observed <= generation[a.target]

(* An observation is shown only for the very content it was made of: none  *)
(* survives a change of its package's digest.                              *)
ObservationsCurrent ==
  \A row \in observations : resolvedPackages[row.target][row.package] = row.digest

(* The tables agree with each other after every transaction.               *)
TablesConsistent == ReferencesResolve /\ LocationsConsistent /\ ObservationsCurrent

(* What has been accepted is never lost or renumbered: a step leaves an    *)
(* accepted target at its generation with the same content, or advances it *)
(* by exactly one.                                                         *)
AcceptedNeverLost ==
  [][\A t \in TargetId :
       Accepted(t) =>
         \/ generation'[t] = generation[t] /\ resolvedPackages'[t] = resolvedPackages[t]
         \/ generation'[t] = generation[t] + 1]_registryVars
============================================================================
