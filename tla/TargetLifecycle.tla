-------------------------- MODULE TargetLifecycle --------------------------
(***************************************************************************)
(* The lifecycle commands of one target directory, each under the          *)
(* operation lock: first install and requirement change (update, add-root, *)
(* remove), sync, repair, and the recovery of an interrupted lifecycle     *)
(* (src/src/runtime/orchestration/lifecycle, exact-state-maintenance.ts,   *)
(* local-lifecycle.ts).  A command is a client; clients come back with new *)
(* commands.  The environment kills commands and helpers, fails effects    *)
(* and edits the directory.                                                *)
(***************************************************************************)
EXTENDS TargetReconcile

CONSTANTS Offered,         \* the commands the operator uses
          RecoverFirst,    \* whether the operator lets recovery go before sync
          MaxGeneration,   \* bound on accepted generations
          MaxEdits         \* bound on edits by the user

ASSUME OfferedAssumption == Offered \subseteq Commands
ASSUME KindAssumption == "software" \in Kind
ASSUME BoundAssumption == MaxGeneration \in Nat /\ MaxEdits \in Nat

VARIABLES edits,           \* edits by the user so far
          overrun,         \* effects a client may have waited for since its
                           \* helper ended
          slipped          \* whether a change was committed without the
                           \* lock: a record for the properties

vars == <<reconcileVars, edits, overrun, slipped>>

TypeOK ==
  /\ RegistryTypeOK /\ FilesTypeOK /\ LockTypeOK /\ CommandsTypeOK
  /\ edits \in 0..MaxEdits
  /\ overrun \in [Client -> 0..2]
  /\ slipped \in BOOLEAN

Init ==
  /\ ReconcileInit
  /\ edits = 0
  /\ overrun = [c \in Client |-> 0]
  /\ slipped = FALSE

Busy(c) == command[c] # Idle

Owns(t) == \E row \in targetLocations : row.path = TargetRoot /\ row.target = t

----------------------------------------------------------------------------
(* A command starts when it has the lock, and reads what it works from.    *)
(* Commands that fail on what they read have changed nothing; they are the *)
(* client that releases its lock without a command (GiveUp).               *)

(* The bound on operation ids: the code never runs out of UUIDs.           *)
IdsLeft == \E op \in OperationId : FreshId(op)

Start(c, new) ==
  /\ new.kind \in Offered
  /\ CheckHeld(c)
  /\ command[c] = Idle
  /\ new.kind \in {"install", "change", "repair"} => IdsLeft
  /\ command' = [command EXCEPT ![c] = new]
  /\ touched' = {}
  /\ UNCHANGED <<registryVars, fileVars, lockVars, failures>>

(* A new target with a new id, in a directory that no target has and that  *)
(* has no marker; every name it wants must be free.                        *)
StartInstall(c) ==
  \E t \in TargetId, next \in Content :
    /\ \A owner \in TargetId : ~Owns(owner)
    /\ marker = NoMarker
    /\ generation[t] = NoRow
    /\ \A other \in Client : command[other].target # t
    /\ next # NoContent
    /\ \A n \in Package : next[n] # NoDigest => Missing(n)
    /\ Start(c, [Idle EXCEPT !.kind = "install", !.step = "pending", !.target = t,
                             !.next = next, !.stages = StagesOf(NoContent, next)])

(* applyAcceptedRequirementChange does not read the marker: what it takes  *)
(* for current is the accepted state.                                      *)
MayReplace(current, next) ==
  \A n \in Package : IF current[n] # NoDigest THEN MayStage(n, current)
                                              ELSE next[n] # NoDigest => Missing(n)

StartChange(c) ==
  \E t \in TargetId, next \in Content :
    LET current == resolvedPackages[t] IN
    /\ Owns(t)
    /\ generation[t] < MaxGeneration
    /\ MayReplace(current, next)
    /\ Start(c, [Idle EXCEPT !.kind = "change", !.step = "pending", !.target = t,
                             !.next = next, !.current = current,
                             !.stages = StagesOf(current, next),
                             !.removals = RemovalsOf(current, next)])

(* recoverInterruptedLifecycle: the accepted generation says whether the   *)
(* pending operation was committed.  Before the commit its staging is      *)
(* dropped; after it, every manifest must be readable and every other      *)
(* projection must be the accepted one.                                    *)
Recoverable(t, row) ==
  /\ \A n \in row.actions : /\ staging[row.operation][n] # NoContainer
                            /\ staging[row.operation][n].action # "none"
  /\ \A n \in Package \ row.actions :
       resolvedPackages[t][n] # NoDigest => Shows(n, resolvedPackages[t])

RecoveryApplies(row) ==
  \/ generation[row.target] = row.base
  \/ /\ generation[row.target] = row.next
     /\ Owns(row.target)
     /\ Recoverable(row.target, row)

StartRecover(c) ==
  \E row \in pendingOperations :
    LET t == row.target IN
    /\ RecoveryApplies(row)
    /\ IF generation[t] = row.base
         THEN Start(c, [Idle EXCEPT !.kind = "recover", !.step = "clean", !.target = t])
         ELSE Start(c, [Idle EXCEPT !.kind = "recover", !.step = "converge", !.target = t,
                                    !.operation = row.operation,
                                    !.generation = generation[t],
                                    !.next = resolvedPackages[t], !.todo = row.actions])

StartSync(c) ==
  \E t \in TargetId :
    /\ Owns(t)
    /\ RecoverFirst => \A row \in PendingOf(t) : ~RecoveryApplies(row)
    /\ Start(c, [Idle EXCEPT !.kind = "sync", !.step = "observe", !.target = t])

StartRepair(c) ==
  \E t \in TargetId :
    /\ Owns(t)
    /\ Start(c, [Idle EXCEPT !.kind = "repair", !.step = "drift", !.target = t,
                             !.next = resolvedPackages[t],
                             !.todo = {n \in Package : resolvedPackages[t][n] # NoDigest}])

----------------------------------------------------------------------------
(* Sync and repair: what is current is what the marker says, if it lags.   *)

Lags(t) == marker # NoMarker /\ marker.generation < generation[t]

MarkerReadable(t) ==
  marker # NoMarker => marker.target = t /\ marker.generation <= generation[t]

Baseline(t) == IF Lags(t) THEN marker.packages ELSE resolvedPackages[t]

BaselineIntact(current) ==
  \A n \in Package : current[n] # NoDigest => MayStage(n, current)

(* prepareAcceptedTarget; names that only the accepted state has are not   *)
(* looked at.                                                              *)
Observe(c) ==
  LET t == command[c].target
      next == resolvedPackages[t]
      current == Baseline(t)
  IN /\ Held(c, "observe")
     /\ MarkerReadable(t)
     /\ BaselineIntact(current)
     /\ command' = [command EXCEPT ![c] =
          [@ EXCEPT !.step = "clean", !.next = next, !.current = current,
                    !.generation = generation[t], !.operation = NoOperation,
                    !.stages = StagesOf(current, next),
                    !.removals = RemovalsOf(current, next)]]
     /\ UNCHANGED <<registryVars, fileVars, lockVars, failures, touched>>

ObserveFails(c) ==
  LET t == command[c].target IN
  /\ Held(c, "observe")
  /\ ~(MarkerReadable(t) /\ BaselineIntact(Baseline(t)))
  /\ Return(c)
  /\ UNCHANGED <<registryVars, fileVars, failures, touched>>

(* repairManagedTargetDrift: a projection that is not the accepted one is  *)
(* replaced, whatever it is, through a container no pending row knows.     *)
RepairDrift(c) ==
  LET cmd == command[c] IN
  /\ Held(c, "drift")
  /\ \E n \in cmd.todo :
       IF Drifted(n, cmd.next)
         THEN \E op \in OperationId :
                /\ FreshId(op)
                /\ StageContainer(op, n, cmd.next[n])
                /\ command' = [command EXCEPT ![c].step = "driftRetire", ![c].hand = {n},
                                 ![c].todo = @ \ {n}, ![c].operation = op]
         ELSE Ticked(c, n) /\ UNCHANGED staging
  /\ UNCHANGED <<registryVars, live, marker, lockVars, failures, touched>>

DriftRepaired(c) ==
  /\ Held(c, "drift")
  /\ command[c].todo = {}
  /\ GoTo(c, "observe", {})
  /\ UNCHANGED <<registryVars, fileVars, lockVars, failures, touched>>

DriftRetire(c) ==
  LET cmd == command[c] IN
  /\ At(c, "driftRetire")
  /\ \E n \in cmd.hand :
       IF Missing(n)
         THEN /\ RemoveContainer(cmd.operation, n)
              /\ Return(c)
              /\ UNCHANGED live
         ELSE /\ Retire(cmd.operation, n)
              /\ command' = [command EXCEPT ![c].step = "driftSwap"]
              /\ UNCHANGED lockVars
  /\ UNCHANGED <<registryVars, marker, failures, touched>>

DriftSwap(c) ==
  LET cmd == command[c] IN
  /\ At(c, "driftSwap")
  /\ \E n \in cmd.hand : Activate(cmd.operation, n)
  /\ command' = [command EXCEPT ![c].step = "driftDiscard"]
  /\ UNCHANGED <<registryVars, marker, lockVars, failures, touched>>

(* The second rename fails; what was retired goes back and the container   *)
(* is removed, unless there is no way back.                                *)
DriftSwapFails(c) ==
  LET op == command[c].operation
      back == {n \in command[c].hand : Missing(n) /\ staging[op][n] # NoContainer} IN
  /\ At(c, "driftSwap")
  /\ \/ /\ failures < MaxFailures /\ failures' = failures + 1
        /\ \E n \in back :
             /\ live' = [live EXCEPT ![n] = staging[op][n].retired]
             /\ RemoveContainer(op, n)
     \/ back = {} /\ UNCHANGED <<failures, live, staging>>
  /\ Return(c)
  /\ UNCHANGED <<registryVars, marker, touched>>

DriftDiscard(c) ==
  LET cmd == command[c] IN
  /\ At(c, "driftDiscard")
  /\ \E n \in cmd.hand : RemoveContainer(cmd.operation, n)
  /\ command' = [command EXCEPT ![c].step = "drift", ![c].operation = NoOperation,
                                ![c].hand = {}]
  /\ UNCHANGED <<registryVars, live, marker, lockVars, failures, touched>>

----------------------------------------------------------------------------
(* convergeAcceptedTarget: one pending action after another, as its        *)
(* manifest says.                                                          *)

Manifest(c, n) == staging[command[c].operation][n]

(* Mutant: a projection that is gone proves nothing.                       *)
ProvenLive(c, n) == Manifest(c, n).previous # NoDigest
                    /\ live[n] = Manifest(c, n).previous

(* What is live under n before the recovery of n: still the previous       *)
(* projection, or nothing.                                                 *)
Proven(c, n) == Missing(n) \/ (Manifest(c, n).previous # NoDigest
                               /\ live[n] = Manifest(c, n).previous)

(* Mutant: a removal counts as done without another look.                  *)
RecoverNoRemoval(c) ==
  LET cmd == command[c] IN
  /\ Held(c, "converge")
  /\ \E n \in cmd.todo :
       /\ Manifest(c, n) # NoContainer
       /\ Manifest(c, n).action = "remove"
       /\ cmd.next[n] = NoDigest
       /\ Proven(c, n)
       /\ Ticked(c, n)
  /\ UNCHANGED <<registryVars, fileVars, lockVars, failures, touched>>

(* removeManagedProjection verifies here, too, before it removes.          *)
RecoverRemoval(c) ==
  LET cmd == command[c] IN
  /\ Held(c, "converge")
  /\ \E n \in cmd.todo :
       /\ Manifest(c, n) # NoContainer
       /\ Manifest(c, n).action = "remove"
       /\ cmd.next[n] = NoDigest
       /\ Proven(c, n)
       /\ IF Missing(n) THEN Ticked(c, n) ELSE Half(c, "removing", n)
  /\ UNCHANGED <<registryVars, fileVars, lockVars, failures, touched>>

RecoverActivated(c) ==
  LET cmd == command[c] IN
  /\ Held(c, "converge")
  /\ \E n \in cmd.todo :
       /\ Manifest(c, n) # NoContainer
       /\ Manifest(c, n).action = "stage"
       /\ Shows(n, cmd.next)
       /\ Ticked(c, n)
  /\ UNCHANGED <<registryVars, fileVars, lockVars, failures, touched>>

Activatable(c, n) ==
  /\ Manifest(c, n) # NoContainer
  /\ Manifest(c, n).action = "stage"
  /\ command[c].next[n] # NoDigest
  /\ ~Shows(n, command[c].next)
  /\ Proven(c, n)
  /\ Manifest(c, n).projection = command[c].next[n]

RecoverActivation(c) ==
  /\ Held(c, "converge")
  /\ \E n \in command[c].todo : Activatable(c, n) /\ Half(c, "retire", n)
  /\ UNCHANGED <<registryVars, fileVars, lockVars, failures, touched>>

RecoverConflict(c) ==
  LET cmd == command[c] IN
  /\ Held(c, "converge")
  /\ \E n \in cmd.todo :
       LET stays == IF Manifest(c, n) = NoContainer THEN TRUE
                    ELSE IF Manifest(c, n).action = "remove"
                           THEN ~(cmd.next[n] = NoDigest /\ Proven(c, n))
                           ELSE ~(Shows(n, cmd.next) \/ Activatable(c, n))
       IN stays
  /\ Return(c)
  /\ UNCHANGED <<registryVars, fileVars, failures, touched>>

Converged(c) ==
  /\ Held(c, "converge")
  /\ command[c].todo = {}
  /\ GoTo(c, "marker", {})
  /\ UNCHANGED <<registryVars, fileVars, lockVars, failures, touched>>

----------------------------------------------------------------------------
(* The marker follows the directory.  Sync and repair write it without     *)
(* another look at the lock (syncAcceptedTargetState).                     *)

MayWriteMarker(c) ==
  At(c, "marker") /\ (command[c].kind \in {"sync", "repair"} \/ CheckHeld(c))

SyncMarker(c) ==
  LET cmd == command[c] IN
  /\ MayWriteMarker(c)
  /\ WriteMarker(cmd.target, cmd.generation, cmd.next)
  /\ GoTo(c, CASE cmd.kind = "sync" -> "location"
               [] cmd.kind = "repair" -> "done"
               [] OTHER -> "clean", {})
  /\ UNCHANGED <<registryVars, live, staging, lockVars, failures, touched>>

ObserveLocation(c) ==
  LET cmd == command[c] IN
  /\ Held(c, "location")
  /\ ObserveTargetLocation(cmd.target, TargetRoot, cmd.generation)
  /\ command' = [command EXCEPT ![c].step = "observations",
                                ![c].next = resolvedPackages[cmd.target]]
  /\ UNCHANGED <<fileVars, lockVars, failures, touched>>

(* refreshSoftwareObservations; refused if the state was replaced.         *)
RefreshObservations(c) ==
  LET cmd == command[c] IN
  /\ Held(c, "observations")
  /\ IF resolvedPackages[cmd.target] = cmd.next
       THEN /\ ReplaceDependencyObservations(cmd.target, "software", cmd.next)
            /\ GoTo(c, "done", {})
            /\ UNCHANGED lockVars
       ELSE Return(c) /\ UNCHANGED registryVars
  /\ UNCHANGED <<fileVars, failures, touched>>

Done(c) ==
  /\ At(c, "done")
  /\ Return(c)
  /\ UNCHANGED <<registryVars, fileVars, failures, touched>>

----------------------------------------------------------------------------
(* What the environment does.                                              *)

(* Steps that look at the lock first find that it is lost.                 *)
Unchecked(c) ==
  \/ command[c].step \in {"manifest", "removing", "driftRetire", "driftSwap", "driftDiscard",
                          "done"}
  \/ command[c].step \in {"retire", "swap"} /\ command[c].kind # "recover"
  \/ At(c, "marker") /\ command[c].kind \in {"sync", "repair"}

LockIsLost(c) ==
  /\ Busy(c)
  /\ ~CheckHeld(c)
  /\ ~Unchecked(c)
  /\ Return(c)
  /\ UNCHANGED <<registryVars, fileVars, failures, touched>>

(* The command dies, or an effect fails that it does not compensate.       *)
Stop(c) ==
  /\ Busy(c)
  /\ failures < MaxFailures
  /\ failures' = failures + 1
  /\ Return(c)
  /\ UNCHANGED <<registryVars, fileVars, touched>>

CommandStep(c) ==
  \/ ReconcileStep(c)
  \/ Observe(c) \/ ObserveFails(c)
  \/ RepairDrift(c) \/ DriftRepaired(c) \/ DriftRetire(c)
  \/ DriftSwap(c) \/ DriftSwapFails(c) \/ DriftDiscard(c)
  \/ RecoverRemoval(c) \/ RecoverActivated(c) \/ RecoverActivation(c)
  \/ RecoverConflict(c) \/ Converged(c)
  \/ SyncMarker(c) \/ ObserveLocation(c) \/ RefreshObservations(c) \/ Done(c)

StartStep(c) ==
  StartInstall(c) \/ StartChange(c) \/ StartSync(c) \/ StartRepair(c) \/ StartRecover(c)

(* A command whose helper has ended is told so by an event, and events     *)
(* come in only where the command waits for an effect.  The effect that is *)
(* under way when the helper ends can come back first; during one that is  *)
(* begun afterwards the event is read.  What needs no effect is done       *)
(* without a pause, be the helper alive or not: registry transactions, and *)
(* the ends of loops.                                                      *)
AtOnce(c) ==
  \/ command[c].step \in {"none", "pending", "commit", "clean", "location", "done"}
  \/ /\ command[c].step \in {"stage", "removals", "undo", "remove", "activate", "discard",
                              "cleaning", "drift", "converge"}
     /\ command[c].todo = {}

WithinOverrun(c) ==
  IF holder = c \/ ~CheckHeld(c)
    THEN UNCHANGED overrun
    ELSE /\ overrun[c] < 2
         /\ overrun' = [overrun EXCEPT ![c] = IF ~CheckHeld(c)' THEN 0
                                             ELSE IF AtOnce(c) THEN 1 ELSE @ + 1]

Commits(c) == At(c, "commit") /\ command'[c].step = "remove"

RecordSlip(c) == slipped' = (slipped \/ (Commits(c) /\ holder # c))

Work(c) ==
  /\ CommandStep(c) \/ StartStep(c)
  /\ WithinOverrun(c)
  /\ RecordSlip(c)
  /\ UNCHANGED edits

GiveUp(c) ==
  /\ ~Busy(c)
  /\ session[c] \in {"held", "lost"}
  /\ Close(c)

(* The helper of a client that has closed its session ends; a helper that  *)
(* ends before is a failure, and so is a client that dies while its helper *)
(* waits for the lock.                                                     *)
HelperEnds(c) == session[c] = "none" /\ Free(c)

LockFails(c) ==
  /\ failures < MaxFailures
  /\ failures' = failures + 1
  /\ (session[c] # "none" /\ Free(c)) \/ GrantToDead(c)

LockStep(c) ==
  \/ /\ GiveUp(c) \/ Grant(c) \/ Open(c) \/ HelperEnds(c) \/ NoticeLoss(c)
     /\ UNCHANGED failures
  \/ LockFails(c)

UserEdit ==
  /\ edits < MaxEdits
  /\ edits' = edits + 1
  /\ \E n \in Package, content \in {Foreign, NoDigest} :
       /\ live[n] # content
       /\ live' = [live EXCEPT ![n] = content]
       /\ touched' = touched \cup {n}
  /\ UNCHANGED <<registryVars, staging, marker, lockVars, command, failures, overrun,
                 slipped>>

Next ==
  \/ \E c \in Client : Work(c)
  \/ \E c \in Client :
       /\ LockIsLost(c) \/ Stop(c)
       /\ overrun' = [overrun EXCEPT ![c] = 0]
       /\ UNCHANGED <<edits, slipped>>
  \/ \E c \in Client :
       /\ LockStep(c)
       /\ overrun' = [overrun EXCEPT ![c] = IF session'[c] = "held" THEN @ ELSE 0]
       /\ UNCHANGED <<registryVars, fileVars, command, touched, edits, slipped>>
  \/ UserEdit

Spec == Init /\ [][Next]_vars

----------------------------------------------------------------------------
(* Safety.                                                                 *)

(* Every staging container is named by a pending row, so whoever takes the *)
(* lock next can find it: the row is written before the first container    *)
(* and deleted after the last (prepareReconciliationStaging,               *)
(* cleanupPendingTargetStaging).                                           *)
StagingAccounted ==
  \A op \in OperationId, n \in Package :
    staging[op][n] # NoContainer =>
      \E row \in pendingOperations : row.operation = op /\ n \in row.actions

(* The marker is written only when the directory is what it says: every    *)
(* package that the user left alone since the command started is live with *)
(* the very digest that the marker records.                                *)
MarkerTruthful ==
  [][marker' # marker =>
       \A n \in Package \ touched :
         marker'.packages[n] # NoDigest => live[n] = marker'.packages[n]]_vars

(* ... and it does not hide anything: a projection that left the accepted  *)
(* state is gone by then.                                                  *)
MarkerLeavesNoOrphan ==
  [][marker' # marker =>
       \A n \in Package : marker'.packages[n] = NoDigest => live[n] \notin Digest]_vars

(* A command that ends in success leaves the target in full agreement:     *)
(* registry, directory and marker show the same state, nothing is pending  *)
(* and nothing is staged for it.                                           *)
Agrees(t) ==
  /\ marker = [target |-> t, generation |-> generation[t], packages |-> resolvedPackages[t]]
  /\ \A n \in Package \ touched :
        resolvedPackages[t][n] # NoDigest => Shows(n, resolvedPackages[t])

DoneMeansAgreement ==
  \A c \in Client :
    At(c, "done") =>
      LET t == command[c].target IN
      /\ PendingOf(t) = {}
      /\ command[c].generation # 0 => Agrees(t)

(* The types of the variables, and what a reported success means.          *)
ReportsAreTrue == TypeOK /\ DoneMeansAgreement

(* The state that a command replaces is the one it was planned from, if it *)
(* has anything to stage or to remove: no such acceptance is computed from *)
(* a state that another command has replaced meanwhile, even if the lock   *)
(* was lost unnoticed.  A change of the requirements alone is announced    *)
(* and committed without waiting for anything, so that nothing tells it of *)
(* the loss; of that one the property says nothing.                        *)
NoLostUpdate ==
  [][\A c \in Client :
       Busy(c) /\ Commits(c) /\ command[c].stages \cup command[c].removals # {}
         /\ generation'[command[c].target] > generation[command[c].target]
       => resolvedPackages[command[c].target] = command[c].current]_vars

(* Only accepted content appears in the directory, or what a failed        *)
(* activation had just taken away, even while a command whose lock is lost *)
(* overlaps with the next holder: cleaning up an operation removes its     *)
(* staging, so nothing is left for it to activate.  Only when a command    *)
(* still committed its change then, the next holder may be bringing back   *)
(* what that change has dropped.                                           *)
OnlyAcceptedAppears ==
  [][\A n \in Package :
       live'[n] \in Digest \ {live[n]} =>
         \/ \E t \in TargetId : Owns(t) /\ live'[n] = resolvedPackages[t][n]
         \/ \E op \in OperationId :
              staging[op][n] # NoContainer /\ live'[n] = staging[op][n].retired
         \/ slipped]_vars

(* The directory follows the registry (AcceptedTarget), for the target     *)
(* that has it.  Edits are the user's own, counted; a name is looked at    *)
(* from its verification to the rename or the removal that follows.        *)
Here == {t \in TargetId : Owns(t)}

Abstract == INSTANCE AcceptedTarget WITH
  repairing <- \E c \in Client : command[c].kind = "repair",
  looked <- UNION {command[c].hand :
                     c \in {d \in Client : command[d].step \in {"removing", "retire"}}},
  accepted <- [n \in Package |->
                 IF Here = {} THEN NoDigest ELSE resolvedPackages[CHOOSE t \in Here : TRUE][n]],
  generation <- IF Here = {} THEN 0 ELSE generation[CHOOSE t \in Here : TRUE],
  withdrawn <- [n \in Package |->
                  {staging[op][n].retired :
                     op \in {o \in OperationId : staging[o][n] # NoContainer}} \ {NoDigest}]

ImplementsAcceptedTarget == Abstract!Spec

----------------------------------------------------------------------------
(* Liveness.                                                               *)

(* A running command goes on and an ended helper is noticed; the operator  *)
(* comes back after every command and, while the target is not in order,   *)
(* tries both recovery and sync again and again.                           *)
Progress(c) == CommandStep(c) /\ WithinOverrun(c) /\ RecordSlip(c) /\ UNCHANGED edits
Lost(c) ==
  /\ LockIsLost(c)
  /\ overrun' = [overrun EXCEPT ![c] = 0]
  /\ UNCHANGED <<edits, slipped>>
LockProgress(c) ==
  /\ GiveUp(c) \/ Grant(c) \/ Open(c) \/ HelperEnds(c) \/ NoticeLoss(c)
  /\ overrun' = [overrun EXCEPT ![c] = IF session'[c] = "held" THEN @ ELSE 0]
  /\ UNCHANGED <<registryVars, fileVars, command, failures, touched, edits, slipped>>
Retries(c) ==
  /\ SF_vars(StartSync(c) /\ WithinOverrun(c) /\ RecordSlip(c) /\ UNCHANGED edits)
  /\ SF_vars(StartRecover(c) /\ WithinOverrun(c) /\ RecordSlip(c) /\ UNCHANGED edits)

Fairness ==
  \A c \in Client :
    WF_vars(Progress(c)) /\ WF_vars(Lost(c)) /\ WF_vars(LockProgress(c)) /\ Retries(c)

FairSpec == Spec /\ Fairness

(* Every command comes to an end, whatever fails on its way.               *)
CommandsEnd == \A c \in Client : Busy(c) ~> ~Busy(c)

(* In the end every accepted target is in order: registry, directory and   *)
(* marker agree, and no operation is left pending.                         *)
InOrder(t) == PendingOf(t) = {} /\ Agrees(t)

Converges == <>[](\A t \in TargetId : Owns(t) => InOrder(t))

(* Both: whatever fails, commands end and order returns.                   *)
OrderReturns == CommandsEnd /\ Converges

=============================================================================
