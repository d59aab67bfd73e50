-------------------------- MODULE ImportLifecycle --------------------------
(***************************************************************************)
(* The import of an exact export package into an empty directory, or its   *)
(* merge into an existing target, and the recovery of an import that was   *)
(* interrupted (src/src/runtime/import/exact.ts, merge.ts, recovery/,      *)
(* runtime/user-payload.ts, cli/transfer/import.ts).                       *)
(*                                                                         *)
(* Beside managed projections, which can be made again from the package    *)
(* store, an import brings payloads that belong to the user (detached      *)
(* packages and skills of their own).  They exist only in the import file  *)
(* and in their staging containers until they are activated.               *)
(*                                                                         *)
(* Commands do not overlap (OperationLock).  What a merge does to the      *)
(* registry facts is ExactTransfer's; here its outcome is one new generation  *)
(* that keeps Kept and adds New and Payload.                               *)
(***************************************************************************)
EXTENDS FiniteSets, Integers

CONSTANTS Kept,          \* names of managed projections a merge finds
          New,           \* names of managed projections to add
          Payload,       \* names of what is imported for the user
          MaxFailures, MaxEdits

VARIABLES
  mode,        \* "import" or "merge"
  detached,    \* the payloads that are detached packages; the others are skills
  accepted,    \* the state of the registry: "none", "old" or "new"
  pending,     \* the pending operation
  container,   \* the staging container of each name in the operation
  orphans,     \* names with a container that no pending operation names
  dir,         \* what is under each name in the target directory
  marker,      \* the generation .skiloom-state shows
  cmd, report, failures, edits,
  touched,     \* names the user has edited
  overtaken    \* whether a sync took an accepted import's row before its recovery

given == <<mode, detached>>
registryFacts == <<accepted, pending>>
files == <<container, orphans, dir, marker>>
bounds == <<failures, edits, touched>>
vars == <<given, registryFacts, files, cmd, report, bounds, overtaken>>

Staged == New \cup Payload
Name == Kept \cup Staged

(* A name stands for one thing: prepare and merge refuse conflicts.        *)
ASSUME NamesAssumption ==
  /\ IsFiniteSet(Name)
  /\ Kept \cap Staged = {} /\ New \cap Payload = {}

NoRow == [names |-> {}, base |-> "no operation"]
Idle == [kind |-> "none", step |-> "none", todo |-> {}]
Missing(n) == dir[n] = "nothing"

ManagedNames(state) ==
  (IF mode = "merge" THEN Kept ELSE {}) \cup (IF state = "new" THEN New ELSE {})

----------------------------------------------------------------------------
Do(kind, step) == cmd' = [kind |-> kind, step |-> step, todo |-> {}] /\ report' = "none"
GoTo(step, todo) == cmd' = [cmd EXCEPT !.step = step, !.todo = todo] /\ UNCHANGED report
Ticked(n) == cmd' = [cmd EXCEPT !.todo = @ \ {n}] /\ UNCHANGED report
Fail == cmd' = Idle /\ report' = "none"
Succeed == cmd' = Idle /\ report' = cmd.kind
CanFail == failures < MaxFailures /\ failures' = failures + 1 /\ UNCHANGED <<edits, touched>>

(* inspectEmptyTarget with the checks of executeImportWhileLocked; for a   *)
(* merge requireCurrentTargetCopy, prepareManagedExactExport and           *)
(* inspectMergeFilesystem: nothing is pending, every managed projection    *)
(* verifies and no name to be added is taken.                              *)
Ready ==
  IF mode = "import"
    THEN /\ accepted = "none" /\ marker = "none" /\ orphans = {}
         /\ \A n \in Name : Missing(n) /\ container[n] = "none"
    ELSE /\ accepted = "old" /\ marker = "old" /\ pending = NoRow
         /\ \A n \in Kept : dir[n] = "product"
         /\ \A n \in Staged : Missing(n)

(* The candidate is computed and shown; the user is asked.                 *)
StartImport ==
  /\ cmd = Idle /\ Ready
  /\ Do("import", "ask")
  /\ UNCHANGED <<given, overtaken, registryFacts, files, bounds>>

Declined ==
  /\ cmd.step = "ask"
  /\ Fail
  /\ UNCHANGED <<given, overtaken, registryFacts, files, bounds>>

(* applyExactImport makes every check again.  The pending operation names  *)
(* managed and user containers.  An import has a new target id each time,  *)
(* so that an earlier attempt's row is not in its way.                     *)
BeginPending ==
  /\ cmd.step = "ask"
  /\ IF Ready
       THEN /\ pending' = [names |-> Staged, base |-> accepted]
            /\ GoTo("stage", Staged)
       ELSE Fail /\ UNCHANGED pending
  /\ UNCHANGED <<given, overtaken, accepted, files, bounds>>

(* Managed projections are staged before the user's.                       *)
Stageable(n) == n \in cmd.todo /\ (n \in Payload => cmd.todo \cap New = {})

MakeContainer ==
  /\ cmd.step = "stage"
  /\ \E n \in Name :
       /\ Stageable(n) /\ container[n] = "none"
       /\ n \in New => Missing(n)
       /\ container' = [container EXCEPT ![n] = "part"]
  /\ UNCHANGED <<given, overtaken, registryFacts, orphans, dir, marker, cmd, report, bounds>>

(* The manifest, and the payload by materializeVerifiedUserPayloadTree.    *)
FillContainer ==
  /\ cmd.step = "stage"
  /\ \E n \in Name :
       /\ Stageable(n) /\ container[n] = "part"
       /\ container' = [container EXCEPT ![n] = "full"]
       /\ Ticked(n)
  /\ UNCHANGED <<given, overtaken, registryFacts, orphans, dir, marker, bounds>>

NoContainers(names) == [n \in Name |-> IF n \in names THEN "none" ELSE container[n]]

(* A projection or a payload cannot be staged: cleanupBeforeCommit or      *)
(* cleanupPendingTargetStaging.                                            *)
StagingFails ==
  /\ cmd.step = "stage"
  /\ IF \E n \in New : Stageable(n) /\ ~Missing(n) THEN UNCHANGED bounds ELSE CanFail
  /\ container' = NoContainers(pending.names)
  /\ pending' = NoRow
  /\ Fail
  /\ UNCHANGED <<given, overtaken, accepted, orphans, dir, marker>>

Commit ==
  /\ cmd.step = "stage" /\ cmd.todo = {}
  /\ accepted' = "new"
  /\ GoTo("activate", New)
  /\ UNCHANGED <<given, overtaken, pending, files, bounds>>

(* The registry refuses the state.  cleanupBeforeCommit knows the managed  *)
(* containers only and completes the row.                                  *)
CommitRefused ==
  /\ cmd.step = "stage" /\ cmd.todo = {}
  /\ CanFail
  /\ container' = NoContainers(Staged)
  /\ orphans' = orphans \cup Payload
  /\ pending' = NoRow
  /\ Fail
  /\ UNCHANGED <<given, overtaken, accepted, dir, marker>>

MoveOut(n, content) ==
  /\ dir' = [dir EXCEPT ![n] = content]
  /\ container' = [container EXCEPT ![n] = "spent"]

(* Mutant: recovery activates everything once more.                        *)
NeverShown(n) == FALSE

(* In recovery, what shows already is done.                                *)
AlreadyShown(n) == cmd.kind = "recover" /\ dir[n] = "product"

(* reconcileLiveTarget, or convergeAcceptedTarget in recovery.             *)
ActivateManaged ==
  /\ cmd.step = "activate"
  /\ \E n \in cmd.todo :
       CASE Missing(n) /\ container[n] = "full" -> MoveOut(n, "product") /\ Ticked(n)
         [] AlreadyShown(n) -> Ticked(n) /\ UNCHANGED <<dir, container>>
         [] OTHER -> Fail /\ UNCHANGED <<dir, container>>
  /\ UNCHANGED <<given, overtaken, registryFacts, orphans, marker, bounds>>

AllManaged ==
  /\ cmd.step = "activate" /\ cmd.todo = {}
  /\ GoTo("users", Payload)
  /\ UNCHANGED <<given, overtaken, registryFacts, files, bounds>>

(* Mutant: whatever has the name is taken for the payload.                 *)
PayloadReplaces(n) ==
  IF container[n] = "full" THEN MoveOut(n, "payload") /\ Ticked(n)
  ELSE Ticked(n) /\ UNCHANGED <<dir, container>>

(* activateStagedImportUserPayload: content that is there must be the      *)
(* payload, nothing is replaced.                                           *)
PayloadActivated(n) ==
  CASE dir[n] = "payload" -> Ticked(n) /\ UNCHANGED <<dir, container>>
    [] Missing(n) /\ container[n] = "full" -> MoveOut(n, "payload") /\ Ticked(n)
    [] OTHER -> Fail /\ UNCHANGED <<dir, container>>

ActivateUser ==
  /\ cmd.step = "users"
  /\ \E n \in cmd.todo : PayloadActivated(n)
  /\ UNCHANGED <<given, overtaken, registryFacts, orphans, marker, bounds>>

(* Mutant: the marker need not wait for the payloads.                      *)
MarkerIsDue == cmd.step = "users"

UsersDone == cmd.step = "users" /\ cmd.todo = {}

WriteMarker ==
  /\ UsersDone
  /\ marker' = accepted
  /\ GoTo("clean", pending.names)
  /\ UNCHANGED <<given, overtaken, registryFacts, container, orphans, dir, bounds>>

MarkerFails ==
  /\ UsersDone
  /\ CanFail
  /\ Fail
  /\ UNCHANGED <<given, overtaken, registryFacts, files>>

(* cleanupPendingTargetStaging: one container after another, then the row. *)
CleanContainer ==
  /\ cmd.step = "clean"
  /\ \E n \in cmd.todo : container' = NoContainers({n}) /\ Ticked(n)
  /\ UNCHANGED <<given, overtaken, registryFacts, orphans, dir, marker, bounds>>

AllAreClean == cmd.todo = {}

CompleteRow ==
  /\ cmd.step = "clean" /\ AllAreClean
  /\ pending' = NoRow
  /\ Succeed
  /\ UNCHANGED <<given, overtaken, accepted, files, bounds>>

----------------------------------------------------------------------------
(* recoverInterruptedExactImport.                                          *)

Committed == accepted # pending.base

(* partitionPendingActions takes a name without a container for a managed  *)
(* one, whose manifest readRecoveryActions then misses.                    *)
RecoverImport ==
  /\ cmd = Idle /\ pending # NoRow
  /\ Committed => \A n \in pending.names : container[n] # "none"
  /\ cmd' = [kind |-> "recover",
             step |-> IF Committed THEN "activate" ELSE "clean",
             todo |-> IF Committed THEN New ELSE pending.names]
  /\ report' = "none"
  /\ UNCHANGED <<given, overtaken, registryFacts, files, bounds>>

RecoveryApplies == pending # NoRow /\ accepted = "new" /\ marker # "new"

(* recoverInterruptedDetach, with which a sync begins, takes the actions   *)
(* of the pending row for those of an interrupted detach, where the        *)
(* accepted state has a detached package of that name.                     *)
Interrupted == IF accepted = "new" THEN detached \cap pending.names ELSE {}

(* Mutant: only what a sync is to bring about counts.                      *)
AnyDetach == TRUE

(* Several are ambiguous, a missing one is not recoverable; a directory is *)
(* taken for the copy of a completed detach.                               *)
DetachRecoverable ==
  Cardinality(Interrupted) <= 1 /\ \A n \in Interrupted : ~Missing(n)

(* sync, by which the other commands put a target in order: it cleans the  *)
(* pending containers, restores missing managed projections and writes the *)
(* marker.  Behind a lagging marker it refuses, after the cleaning, what   *)
(* the marker does not name.  (LocalProjections has its steps.)            *)
Sync ==
  LET lagging == mode = "merge" /\ accepted = "new" /\ marker = "old"
      current == ManagedNames(IF lagging THEN "old" ELSE accepted)
      refused == lagging /\ (detached # {} \/ \E n \in New : ~Missing(n))
  IN /\ cmd = Idle /\ accepted # "none"
     /\ \A n \in current : dir[n] \in {"product", "nothing"}
     /\ DetachRecoverable
     /\ container' = NoContainers(pending.names)
     /\ pending' = NoRow
     /\ overtaken' = (overtaken \/ RecoveryApplies)
     /\ IF refused
          THEN report' = "none" /\ UNCHANGED <<dir, marker>>
          ELSE /\ dir' = [n \in Name |-> IF n \in ManagedNames(accepted) THEN "product"
                                         ELSE dir[n]]
               /\ marker' = accepted
               /\ report' = "sync"
     /\ UNCHANGED <<given, accepted, orphans, cmd, bounds>>

(* The process dies, or its lock is lost.                                  *)
Crash ==
  /\ cmd # Idle
  /\ CanFail
  /\ Fail
  /\ UNCHANGED <<given, overtaken, registryFacts, files>>

(* The user makes, edits or deletes something.                             *)
UserEdits ==
  /\ edits < MaxEdits /\ edits' = edits + 1
  /\ \E n \in Name, content \in {"nothing", "other"} :
       /\ dir[n] # content
       /\ dir' = [dir EXCEPT ![n] = content]
       /\ touched' = touched \cup {n}
  /\ report' = "none"
  /\ UNCHANGED <<given, overtaken, registryFacts, container, orphans, marker, cmd, failures>>

Step ==
  \/ BeginPending \/ MakeContainer \/ FillContainer \/ StagingFails \/ Commit \/ CommitRefused
  \/ ActivateManaged \/ AllManaged \/ ActivateUser \/ WriteMarker \/ MarkerFails
  \/ CleanContainer \/ CompleteRow

Next ==
  \/ StartImport \/ Declined \/ Step \/ RecoverImport \/ Sync \/ Crash \/ UserEdits

Init ==
  /\ mode \in {"import", "merge"} /\ detached \in SUBSET Payload
  /\ accepted = IF mode = "merge" THEN "old" ELSE "none"
  /\ pending = NoRow
  /\ container = [n \in Name |-> "none"] /\ orphans = {}
  /\ dir = [n \in Name |-> IF n \in ManagedNames("old") THEN "product" ELSE "nothing"]
  /\ marker = accepted
  /\ cmd = Idle /\ report = "none"
  /\ failures = 0 /\ edits = 0 /\ touched = {} /\ overtaken = FALSE

Spec == Init /\ [][Next]_vars

(* A command that runs takes its next step, and the operator gives up      *)
(* neither on recovering nor on syncing, in whatever order.                *)
FairSpec ==
  /\ Spec
  /\ WF_vars(Step /\ UNCHANGED edits)
  /\ SF_vars(RecoverImport) /\ SF_vars(Sync)

----------------------------------------------------------------------------
(* The target in the registry, its directory and its containers.           *)
TypeOK ==
  /\ mode \in {"import", "merge"} /\ detached \subseteq Payload /\ overtaken \in BOOLEAN
  /\ accepted \in {"none", "old", "new"} /\ marker \in {"none", "old", "new"}
  /\ pending = NoRow \/ (pending.names = Staged /\ pending.base \in {"none", "old"})
  /\ container \in [Name -> {"none", "part", "full", "spent"}] /\ orphans \subseteq Payload
  /\ \A n \in Name : container[n] # "none" => n \in pending.names
  /\ dir \in [Name -> {"nothing", "product", "payload", "other"}]
  /\ cmd.kind \in {"none", "import", "recover"} /\ cmd.todo \subseteq Name

InPlace(n) == dir[n] = IF n \in Payload THEN "payload" ELSE "product"

(* An import, a recovery or a sync never removes or replaces what belongs  *)
(* to the user: their own content, and payloads once they are activated.   *)
UserContentKept ==
  [][\A n \in Name : dir[n] \in {"other", "payload"} => dir'[n] = dir[n] \/ edits' # edits]_vars

(* Once the registry has accepted the import, each of its payloads is in   *)
(* the directory or in a container that the recovery finds, whatever died; *)
(* a payload exists nowhere else in the system.  A sync that goes before   *)
(* the recovery takes the containers of the user's skills with it, but     *)
(* never one of a detached package: it refuses before it cleans.           *)
PayloadsAccounted ==
  accepted = "new" =>
    \A n \in Payload :
      \/ InPlace(n) \/ n \in touched
      \/ container[n] = "full" /\ n \in pending.names
      \/ overtaken /\ n \notin detached

(* Nothing an import brings is lost but for an early sync, and no container *)
(* is left unnamed.                                                        *)
ImportSound == TypeOK /\ PayloadsAccounted

(* A marker of the new generation, with which later commands take the      *)
(* target for current, means that everything imported is in place, but for *)
(* the skills that an early sync lost.                                     *)
MarkerMeansComplete ==
  marker = "new" =>
    \A n \in ManagedNames("new") \cup Payload :
      InPlace(n) \/ n \in touched \/ (overtaken /\ n \in Payload \ detached)

InOrder ==
  /\ cmd = Idle /\ pending = NoRow /\ marker = accepted
  /\ \A n \in Name : container[n] = "none"
  /\ accepted = "new" => \A n \in Staged : InPlace(n)

(* What an import with several detached packages can leave for good: all   *)
(* is in place and the marker says so, but the cleaning died and neither   *)
(* recovery, for want of a container, nor sync accepts the row.            *)
RowLeft ==
  /\ cmd = Idle /\ pending # NoRow /\ marker = "new" /\ Cardinality(detached) > 1
  /\ \A n \in Staged : InPlace(n)
  /\ \E n \in Staged : container[n] = "none"

(* As long as the user edits nothing, every interrupted import is undone   *)
(* or completed in the end by recovery and sync, unless a sync went first  *)
(* or the row is left.                                                     *)
Converges == <>[](edits > 0 \/ cmd.step = "ask" \/ InOrder \/ overtaken \/ RowLeft)
=============================================================================
