-------------------------- MODULE TargetReconcile --------------------------
(***************************************************************************)
(* The steps by which a lifecycle command brings a target directory to     *)
(* its accepted state (src/src/runtime/orchestration/target-reconcile.ts   *)
(* and target-reconcile/pending.ts): announce the pending operation, stage *)
(* next to the live projections, commit to the registry, remove and        *)
(* activate, discard the staging.  One action is one awaited effect, so a  *)
(* command can die, fail or lose its lock between any two of them.         *)
(*                                                                         *)
(* Loops over projections go in name order in the code and in any order    *)
(* here.  A live projection is verified in one step and renamed away or    *)
(* removed in a later one, and the user may come in between.               *)
(***************************************************************************)
EXTENDS TargetFiles, LockService

VARIABLES
  command,   \* what each client is doing
  failures,  \* failed effects, deaths and lost locks so far
  touched    \* names the user changed since a command last started

CONSTANTS MaxFailures    \* bound on failures

ASSUME MaxFailuresAssumption == MaxFailures \in Nat

Steps == {"observe", "drift", "driftRetire", "driftSwap", "driftDiscard",
          "clean", "cleaning", "pending", "stage", "manifest",
          "removals", "commit", "undo", "remove", "removing", "activate",
          "retire", "swap", "discard", "converge", "marker", "location", "observations", "done"}

Commands == {"install", "change", "sync", "repair", "recover"}

Idle == [kind |-> "none", step |-> "none", target |-> NoOperation,
         operation |-> NoOperation, generation |-> 0, next |-> NoContent,
         current |-> NoContent, stages |-> {}, removals |-> {}, todo |-> {},
         hand |-> {}, existed |-> {}]

Running == [kind: Commands, step: Steps, target: TargetId,
            operation: OperationId \cup {NoOperation},
            generation: Nat,             \* generation of the accepted state
            next: Content,               \* the state to reach
            current: Content,            \* the projections it replaces
            stages: SUBSET Package, removals: SUBSET Package,
            todo: SUBSET Package,        \* names left in the step's loop
            hand: SUBSET Package,        \* the name between two effects
            existed: SUBSET Package]     \* live when they were staged

reconcileVars == <<registryVars, fileVars, lockVars, command, failures, touched>>

CommandsTypeOK ==
  /\ command \in [Client -> Running \cup {Idle}]
  /\ failures \in 0..MaxFailures
  /\ touched \subseteq Package

ReconcileInit ==
  /\ RegistryInit /\ FilesInit /\ LockInit
  /\ command = [c \in Client |-> Idle]
  /\ failures = 0
  /\ touched = {}

At(c, step) == command[c].step = step

(* The step at hand, while the session has not reported its loss.          *)
Held(c, step) == At(c, step) /\ CheckHeld(c)

(* c goes on to a step that loops over the names in todo.                  *)
GoTo(c, step, todo) ==
  command' = [command EXCEPT ![c].step = step, ![c].todo = todo, ![c].hand = {}]

Ticked(c, n) == command' = [command EXCEPT ![c].todo = @ \ {n}]

(* c is about to do the second of two effects on n.                        *)
Half(c, step, n) ==
  command' = [command EXCEPT ![c].step = step, ![c].todo = @ \ {n}, ![c].hand = {n}]

(* The command returns, in success or with an error, and its session is    *)
(* released.                                                               *)
Return(c) ==
  /\ command' = [command EXCEPT ![c] = Idle]
  /\ Close(c)

(* Mutant: an unchanged package is not staged, live or not.                *)
ChangedOf(current, next) ==
  {n \in Package : next[n] # NoDigest /\ current[n] # next[n]}

(* preflightTargetOwnership and validateAndBuildReconciliationRequests,    *)
(* for current projections that are live unchanged or missing.             *)
StagesOf(current, next) ==
  {n \in Package : next[n] # NoDigest /\ ~(current[n] = next[n] /\ Shows(n, current))}
RemovalsOf(current, next) ==
  {n \in Package : next[n] = NoDigest /\ Shows(n, current)}

----------------------------------------------------------------------------
(* Before the commit.                                                      *)

FreshId(op) ==
  /\ FreshOperation(op)
  /\ \A n \in Package : staging[op][n] = NoContainer
  /\ \A c \in Client : command[c].operation # op

(* prepareReconciliationStaging: a change always announces itself, a       *)
(* reconciliation only when it has something to do.                        *)
BeginPending(c) ==
  LET cmd == command[c]
      actions == cmd.stages \cup cmd.removals
  IN /\ Held(c, "pending")
     /\ \E op \in OperationId :
          /\ FreshId(op)
          /\ IF cmd.kind \in {"install", "change"}
               THEN BeginPendingOperation(op, cmd.target, actions)
               ELSE actions # {} /\ BeginPendingReconciliation(op, cmd.target, actions)
          /\ command' = [command EXCEPT ![c].operation = op, ![c].step = "stage",
                                        ![c].todo = cmd.stages, ![c].existed = {}]
     /\ UNCHANGED <<fileVars, lockVars, failures, touched>>

NothingPending(c) ==
  /\ Held(c, "pending")
  /\ command[c].kind \notin {"install", "change"}
  /\ command[c].stages \cup command[c].removals = {}
  /\ command' = [command EXCEPT ![c].operation = NoOperation, ![c].step = "marker"]
  /\ UNCHANGED <<registryVars, fileVars, lockVars, failures, touched>>

(* Another operation is pending for the target.                            *)
PendingConflict(c) ==
  /\ Held(c, "pending")
  /\ PendingOf(command[c].target) # {}
  /\ command[c].kind \in {"install", "change"}
       \/ command[c].stages \cup command[c].removals # {}
  /\ Return(c)
  /\ UNCHANGED <<registryVars, fileVars, failures, touched>>

(* prepareManagedProjection.                                               *)
StageProjection(c) ==
  LET cmd == command[c] IN
  /\ Held(c, "stage")
  /\ \E n \in cmd.todo :
       /\ MayStage(n, cmd.current)
       /\ StageContainer(cmd.operation, n, cmd.next[n])
       /\ command' = [command EXCEPT ![c].step = "manifest", ![c].todo = @ \ {n},
                        ![c].hand = {n},
                        ![c].existed = IF Missing(n) THEN @ ELSE @ \cup {n}]
  /\ UNCHANGED <<registryVars, live, marker, lockVars, failures, touched>>

(* The manifest of the projection just staged, without a look at the lock. *)
WriteStageManifest(c) ==
  LET cmd == command[c] IN
  /\ At(c, "manifest")
  /\ \E n \in cmd.hand : WriteManifest(cmd.operation, n, "stage", cmd.current[n])
  /\ GoTo(c, "stage", cmd.todo)
  /\ UNCHANGED <<registryVars, live, marker, lockVars, failures, touched>>

(* A projection that cannot be staged: the live one is not what it was, or *)
(* an effect failed.  Everything staged so far is taken back.              *)
Containers(op) == {n \in Package : staging[op][n] # NoContainer}

StagingFails(c) ==
  LET cmd == command[c] IN
  /\ Held(c, "stage")
  /\ cmd.todo # {}
  /\ IF \E n \in cmd.todo : ~MayStage(n, cmd.current)
       THEN UNCHANGED failures
       ELSE failures < MaxFailures /\ failures' = failures + 1
  /\ GoTo(c, "undo", Containers(cmd.operation))
  /\ UNCHANGED <<registryVars, fileVars, lockVars, touched>>

StagingDone(c) ==
  /\ Held(c, "stage")
  /\ command[c].todo = {}
  /\ GoTo(c, "removals", command[c].removals)
  /\ UNCHANGED <<registryVars, fileVars, lockVars, failures, touched>>

WriteRemovalManifest(c) ==
  LET cmd == command[c] IN
  /\ Held(c, "removals")
  /\ \E n \in cmd.todo :
       /\ WriteManifest(cmd.operation, n, "remove", cmd.current[n])
       /\ Ticked(c, n)
  /\ UNCHANGED <<registryVars, live, marker, lockVars, failures, touched>>

(* A reconciliation has nothing to commit.                                 *)
RemovalManifestsDone(c) ==
  LET cmd == command[c] IN
  /\ Held(c, "removals")
  /\ cmd.todo = {}
  /\ IF cmd.kind \in {"install", "change"}
       THEN GoTo(c, "commit", {})
       ELSE GoTo(c, "remove", cmd.removals)
  /\ UNCHANGED <<registryVars, fileVars, lockVars, failures, touched>>

(* commitAcceptedState.                                                    *)
CommitPermitted(c) ==
  LET cmd == command[c] IN
  /\ PendingPermits(cmd.operation, cmd.target)
  /\ \A row \in targetLocations : row.path = TargetRoot => row.target = cmd.target

CommitAcceptedState(c) ==
  LET cmd == command[c] IN
  /\ Held(c, "commit")
  /\ CommitPermitted(c)
  /\ \/ cmd.kind = "change" /\ ReplaceTargetState(cmd.operation, cmd.target, cmd.next)
     \/ cmd.kind = "install"
        /\ ReplaceFreshTargetState(cmd.operation, cmd.target, TargetRoot, cmd.next)
  /\ command' = [command EXCEPT ![c].step = "remove", ![c].todo = cmd.removals,
                                ![c].generation = generation'[cmd.target]]
  /\ UNCHANGED <<fileVars, lockVars, failures, touched>>

CommitRefused(c) ==
  /\ Held(c, "commit")
  /\ ~CommitPermitted(c)
  /\ GoTo(c, "undo", Containers(command[c].operation))
  /\ UNCHANGED <<registryVars, fileVars, lockVars, failures, touched>>

(* Mutant: the container just removed is tried again.                      *)
UndoAgain(c) ==
  LET cmd == command[c] IN
  /\ Held(c, "undo")
  /\ \/ \E n \in cmd.todo :
          /\ RemoveContainer(cmd.operation, n)
          /\ UNCHANGED <<command, registryVars, lockVars>>
     \/ /\ cmd.todo = {}
        /\ CompletePendingOperation(cmd.operation)
        /\ Return(c)
        /\ UNCHANGED staging
  /\ UNCHANGED <<live, marker, failures, touched>>

(* cleanupBeforeCommit, after which the command returns its error.         *)
UndoStaging(c) ==
  LET cmd == command[c] IN
  /\ Held(c, "undo")
  /\ \/ \E n \in cmd.todo :
          /\ RemoveContainer(cmd.operation, n)
          /\ Ticked(c, n)
          /\ UNCHANGED <<registryVars, lockVars>>
     \/ /\ cmd.todo = {}
        /\ CompletePendingOperation(cmd.operation)
        /\ Return(c)
        /\ UNCHANGED staging
  /\ UNCHANGED <<live, marker, failures, touched>>

----------------------------------------------------------------------------
(* reconcileLiveTarget.                                                    *)

(* removeManagedProjection verifies first: gone already is as good as      *)
(* removed.                                                                *)
VerifyRemoval(c) ==
  LET cmd == command[c] IN
  /\ Held(c, "remove")
  /\ \E n \in cmd.todo :
       /\ Missing(n) \/ Shows(n, cmd.current)
       /\ IF Missing(n) THEN Ticked(c, n) ELSE Half(c, "removing", n)
  /\ UNCHANGED <<registryVars, fileVars, lockVars, failures, touched>>

AfterRemoving(c) == IF command[c].kind = "recover" THEN "converge" ELSE "remove"

(* ... and then removes what is there, without another look at its content *)
(* or at the lock.                                                         *)
RemoveProjection(c) ==
  /\ At(c, "removing")
  /\ \E n \in command[c].hand : live' = [live EXCEPT ![n] = NoDigest]
  /\ GoTo(c, AfterRemoving(c), command[c].todo)
  /\ UNCHANGED <<registryVars, staging, marker, lockVars, failures, touched>>

(* What the user put there meanwhile is a directory where a link was       *)
(* verified, or the other way round.                                       *)
RemovalRefused(c) ==
  /\ At(c, "removing")
  /\ \E n \in command[c].hand : live[n] = Foreign
  /\ Return(c)
  /\ UNCHANGED <<registryVars, fileVars, failures, touched>>

RemovalsDone(c) ==
  /\ Held(c, "remove")
  /\ command[c].todo = {}
  /\ GoTo(c, "activate", command[c].stages)
  /\ UNCHANGED <<registryVars, fileVars, lockVars, failures, touched>>

(* activate(), for a name that was free when its projection was staged.    *)
ActivateNew(c) ==
  LET cmd == command[c] IN
  /\ Held(c, "activate")
  /\ \E n \in cmd.todo \ cmd.existed :
       /\ Activate(cmd.operation, n)
       /\ Ticked(c, n)
  /\ UNCHANGED <<registryVars, marker, lockVars, failures, touched>>

(* Mutant: whatever is live may be retired.                                *)
VerifyAnything(c) ==
  LET cmd == command[c] IN
  /\ Held(c, "activate")
  /\ \E n \in cmd.todo \cap cmd.existed : ~Missing(n) /\ Half(c, "retire", n)
  /\ UNCHANGED <<registryVars, fileVars, lockVars, failures, touched>>

(* activate(), for a name that was live: only what still is the current    *)
(* projection is to be retired.                                            *)
VerifyCurrent(c) ==
  LET cmd == command[c] IN
  /\ Held(c, "activate")
  /\ \E n \in cmd.todo \cap cmd.existed : Shows(n, cmd.current) /\ Half(c, "retire", n)
  /\ UNCHANGED <<registryVars, fileVars, lockVars, failures, touched>>

(* The first rename takes what is live then.  Recovery looks at the lock   *)
(* once more, and only retires something for a projection that it replaces *)
(* (activatePendingProjection).                                            *)
MayRetire(c) == At(c, "retire") /\ (command[c].kind = "recover" => CheckHeld(c))

Retires(c, n) ==
  /\ ~Missing(n)
  /\ staging[command[c].operation][n] # NoContainer
  /\ command[c].kind = "recover" => staging[command[c].operation][n].previous # NoDigest

RetireCurrent(c) ==
  LET cmd == command[c] IN
  /\ MayRetire(c)
  /\ \E n \in cmd.hand : Retires(c, n) /\ Retire(cmd.operation, n)
  /\ command' = [command EXCEPT ![c].step = "swap"]
  /\ UNCHANGED <<registryVars, marker, lockVars, failures, touched>>

(* Recovery finds the name free.                                           *)
ActivateAtOnce(c) ==
  LET cmd == command[c] IN
  /\ MayRetire(c)
  /\ cmd.kind = "recover"
  /\ \E n \in cmd.hand : Activate(cmd.operation, n)
  /\ GoTo(c, "converge", cmd.todo)
  /\ UNCHANGED <<registryVars, marker, lockVars, failures, touched>>

RetireFails(c) ==
  LET cmd == command[c] IN
  /\ MayRetire(c)
  /\ \E n \in cmd.hand :
       /\ ~Retires(c, n)
       /\ cmd.kind = "recover" => ~(Missing(n) /\ Holds(cmd.operation, n))
  /\ Return(c)
  /\ UNCHANGED <<registryVars, fileVars, failures, touched>>

(* The second rename, right after the first; recovery looks at the lock    *)
(* in between.                                                             *)
MaySwap(c) == At(c, "swap") /\ (command[c].kind = "recover" => CheckHeld(c))

ActivateRetired(c) ==
  LET cmd == command[c] IN
  /\ MaySwap(c)
  /\ \E n \in cmd.hand : Activate(cmd.operation, n)
  /\ GoTo(c, IF cmd.kind = "recover" THEN "converge" ELSE "activate", cmd.todo)
  /\ UNCHANGED <<registryVars, marker, lockVars, failures, touched>>

(* Mutant: a failed activation is passed over.                             *)
ActivationSkipped(c) ==
  LET cmd == command[c]
      op == cmd.operation IN
  /\ MaySwap(c)
  /\ failures < MaxFailures /\ failures' = failures + 1
  /\ \E n \in cmd.hand :
       IF staging[op][n] # NoContainer /\ Missing(n)
         THEN Reinstate(op, n)
         ELSE UNCHANGED <<live, staging>>
  /\ GoTo(c, "activate", cmd.todo)
  /\ UNCHANGED <<registryVars, marker, lockVars, touched>>

(* The second rename fails, because of what is there now or by itself: the *)
(* retired projection goes back to its place if that is free.              *)
ActivationFails(c) ==
  LET cmd == command[c]
      op == cmd.operation IN
  /\ MaySwap(c)
  /\ \E n \in cmd.hand :
       /\ IF Holds(op, n) /\ Missing(n)
            THEN failures < MaxFailures /\ failures' = failures + 1
            ELSE UNCHANGED failures
       /\ IF staging[op][n] # NoContainer /\ Missing(n)
            THEN Reinstate(op, n)
            ELSE UNCHANGED <<live, staging>>
  /\ Return(c)
  /\ UNCHANGED <<registryVars, marker, touched>>

(* The live projection, or the staged one, is no longer what it was.       *)
LiveConflict(c) ==
  LET cmd == command[c]
      op == cmd.operation IN
  /\ \/ /\ Held(c, "remove")
        /\ \E n \in cmd.todo : ~Missing(n) /\ ~Shows(n, cmd.current)
     \/ /\ Held(c, "activate")
        /\ \E n \in cmd.todo :
             IF n \in cmd.existed THEN ~Shows(n, cmd.current) \/ staging[op][n] = NoContainer
                                  ELSE ~Missing(n) \/ ~Holds(op, n)
  /\ Return(c)
  /\ UNCHANGED <<registryVars, fileVars, failures, touched>>

(* A change leaves its pending row until its marker is written             *)
(* (deferPendingCompletion).                                               *)
ActivationsDone(c) ==
  LET cmd == command[c] IN
  /\ Held(c, "activate")
  /\ cmd.todo = {}
  /\ IF cmd.kind \in {"install", "change"}
       THEN GoTo(c, "marker", {})
       ELSE GoTo(c, "discard", cmd.stages \cup cmd.removals)
  /\ UNCHANGED <<registryVars, fileVars, lockVars, failures, touched>>

DiscardStaging(c) ==
  LET cmd == command[c] IN
  /\ Held(c, "discard")
  /\ \/ \E n \in cmd.todo :
          /\ RemoveContainer(cmd.operation, n)
          /\ Ticked(c, n)
          /\ UNCHANGED registryVars
     \/ /\ cmd.todo = {}
        /\ CompletePendingOperation(cmd.operation)
        /\ GoTo(c, "marker", {})
        /\ UNCHANGED staging
  /\ UNCHANGED <<live, marker, lockVars, failures, touched>>

----------------------------------------------------------------------------
(* cleanupPendingTargetStaging: the pending row, found by its target, says *)
(* which containers to remove; it goes last.                               *)

AfterClean(c) == IF command[c].kind \in {"sync", "repair"} THEN "pending" ELSE "done"

(* A reconciliation is for the state that was planned from                 *)
(* (sameAcceptedState).                                                    *)
StillAccepted(c) ==
  command[c].kind \in {"sync", "repair"} =>
    resolvedPackages[command[c].target] = command[c].next

AcceptedStateMismatch(c) ==
  /\ Held(c, "clean")
  /\ ~StillAccepted(c)
  /\ Return(c)
  /\ UNCHANGED <<registryVars, fileVars, failures, touched>>

(* Mutant: the pending row goes without its containers.                    *)
ReadNoActions(c) ==
  LET rows == PendingOf(command[c].target) IN
  /\ Held(c, "clean")
  /\ StillAccepted(c)
  /\ IF rows = {}
       THEN GoTo(c, AfterClean(c), {})
       ELSE \E row \in rows :
              command' = [command EXCEPT ![c].step = "cleaning", ![c].todo = {},
                                         ![c].operation = row.operation]
  /\ UNCHANGED <<registryVars, fileVars, lockVars, failures, touched>>

ReadPending(c) ==
  LET rows == PendingOf(command[c].target) IN
  /\ Held(c, "clean")
  /\ StillAccepted(c)
  /\ IF rows = {}
       THEN GoTo(c, AfterClean(c), {})
       ELSE \E row \in rows :
              command' = [command EXCEPT ![c].step = "cleaning", ![c].todo = row.actions,
                                         ![c].operation = row.operation]
  /\ UNCHANGED <<registryVars, fileVars, lockVars, failures, touched>>

(* Mutant: the row may go before the last container.                       *)
CleanRowEarly(c) ==
  LET cmd == command[c] IN
  /\ Held(c, "cleaning")
  /\ \/ \E n \in cmd.todo :
          /\ RemoveContainer(cmd.operation, n)
          /\ Ticked(c, n)
          /\ UNCHANGED registryVars
     \/ /\ CompletePendingOperation(cmd.operation)
        /\ command' = [command EXCEPT ![c].step = AfterClean(c),
                                      ![c].operation = NoOperation]
        /\ UNCHANGED staging
  /\ UNCHANGED <<live, marker, lockVars, failures, touched>>

CleanPending(c) ==
  LET cmd == command[c] IN
  /\ Held(c, "cleaning")
  /\ \/ \E n \in cmd.todo :
          /\ RemoveContainer(cmd.operation, n)
          /\ Ticked(c, n)
          /\ UNCHANGED registryVars
     \/ /\ cmd.todo = {}
        /\ CompletePendingOperation(cmd.operation)
        /\ command' = [command EXCEPT ![c].step = AfterClean(c),
                                      ![c].operation = NoOperation]
        /\ UNCHANGED staging
  /\ UNCHANGED <<live, marker, lockVars, failures, touched>>

ReconcileStep(c) ==
  \/ BeginPending(c) \/ NothingPending(c) \/ PendingConflict(c)
  \/ StageProjection(c) \/ WriteStageManifest(c) \/ StagingFails(c) \/ StagingDone(c)
  \/ WriteRemovalManifest(c) \/ RemovalManifestsDone(c)
  \/ CommitAcceptedState(c) \/ CommitRefused(c) \/ UndoStaging(c)
  \/ VerifyRemoval(c) \/ RemoveProjection(c) \/ RemovalRefused(c) \/ RemovalsDone(c)
  \/ ActivateNew(c) \/ VerifyCurrent(c) \/ RetireCurrent(c) \/ ActivateAtOnce(c)
  \/ RetireFails(c) \/ ActivateRetired(c) \/ ActivationFails(c)
  \/ LiveConflict(c) \/ ActivationsDone(c) \/ DiscardStaging(c)
  \/ AcceptedStateMismatch(c) \/ ReadPending(c) \/ CleanPending(c)
=============================================================================
