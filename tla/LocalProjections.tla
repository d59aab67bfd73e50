-------------------------- MODULE LocalProjections --------------------------
(***************************************************************************)
(* The commands by which a user takes over single projections of one       *)
(* target: rename, detach, rebind and forget, and the sync that follows    *)
(* when one of them is interrupted                                         *)
(* (src/src/runtime/orchestration/local-projection/, detached-*.ts,        *)
(* detach-recovery.ts, local-lifecycle.ts, exact-state-maintenance/,       *)
(* src/src/cli/local).  Here a package has a name of its own and a view    *)
(* that depends on the names of its dependencies, which TargetReconcile    *)
(* leaves out; in return commands do not overlap (OperationLock) and the   *)
(* whole staging of an operation is one step.                              *)
(*                                                                         *)
(* The dependency graph and all digests stay the same: none of these       *)
(* commands changes them.  All packages are reachable.                     *)
(***************************************************************************)
EXTENDS TargetPlan

CONSTANTS DependsOn,       \* the dependency edges
          InitialNames,    \* the names the packages are projected under at first
          MaxGeneration,   \* bound on accepted states
          MaxFailures,     \* bound on crashes and failed effects
          MaxEdits         \* bound on the user's edits

ASSUME LocalAssumption ==
  /\ IsFiniteSet(Package) /\ DependsOn \subseteq Package \X Package
  /\ InitialNames \in [Package -> Name]
  /\ \A p, q \in Package : InitialNames[p] = InitialNames[q] => p = q

ASSUME BoundAssumption ==
  MaxGeneration \in Nat \ {0} /\ MaxFailures \in Nat /\ MaxEdits \in Nat

VARIABLES
  accepted,    \* projections of the registry: packages to Projection
  generation,
  pending,     \* the pending operations, each the names it acts on
  dir,         \* what the target directory has under each name
  stage,       \* the staging container of each name
  marker,      \* .skiloom-state (V2)
  cmd,         \* the command that runs
  report,      \* the kind of the last command, if it succeeded
  failures, edits,
  touched,     \* names the user has edited since the command started
  raced        \* those edited between a verification and what follows from it

registryFacts == <<accepted, generation, pending>>
files == <<dir, stage, marker>>
bounds == <<failures, edits>>
userMarks == <<touched, raced>>
vars == <<registryFacts, files, cmd, report, bounds, userMarks>>

Nothing == [kind |-> "nothing"]
User == [kind |-> "user"]
Link(p) == [kind |-> "link", package |-> p]
Copy(p, view) == [kind |-> "copy", package |-> p, view |-> view]
IsDirectory(content) == content.kind \in {"copy", "user"}

NoContainer == [kind |-> "none"]
PendingNames == UNION pending

Kinds == {"mark", "rename", "detach", "rebind", "forget", "sync", "recover"}
Steps == {"clean", "pending", "stage", "commit", "remove", "removing", "activate", "retire",
          "swap", "finish", "marker"}
Idle == [kind |-> "none", step |-> "none"]

----------------------------------------------------------------------------
(* planLifecycleTarget over what is accepted: projectionRenames gives the  *)
(* names, a package without projection has its default name.               *)
NamesOf(projections) ==
  [p \in Package |-> IF p \in DOMAIN projections THEN projections[p].name ELSE Default[p]]

RenamesOf(projections) ==
  {<<p, projections[p].name>> : p \in {p \in DOMAIN projections : projections[p].name # Default[p]}}

Planned(projections) == PlanProjections(Package, DependsOn, Package, RenamesOf(projections))
PlannedOk(projections) == PlanOk(Package, DependsOn, Package, RenamesOf(projections))

(* acceptedTargetPlan: what is accepted is what the planner gives again.   *)
AcceptedPlanOk(projections) ==
  /\ PlannedOk(projections)
  /\ \A p \in DOMAIN projections :
       projections[p].owner = "managed" => projections[p].view = Planned(projections)[p]

(* The plan as preflight takes it; preserveAcceptedProjectionAbsence drops *)
(* what was forgotten.                                                     *)
DesiredOf(projections) ==
  [p \in DOMAIN projections |-> [name |-> Planned(projections)[p].name,
                                 view |-> Planned(projections)[p]]]

Expected(p, projection) ==
  IF projection.mat = "link" THEN Link(p) ELSE Copy(p, projection.view)

(* verifyManagedProjection: it is there, it is missing, or an error.       *)
Verified(p, projection) == dir[projection.name] = Expected(p, projection)
Missing(n) == dir[n] = Nothing

(* observeTarget and observeCurrentTarget: every managed projection must   *)
(* verify or be missing.                                                   *)
ObservationOk(current) ==
  \A p \in ManagedIn(current) : Verified(p, current[p]) \/ Missing(current[p].name)

(* The names of current projections, and for a local command (observeTarget) *)
(* those of desired ones.                                                  *)
Observed(current, desired) ==
  LET managed(n) == {p \in Named(current, n) : current[p].owner = "managed"}
  IN [n \in {n \in Name : ~Missing(n) /\ (Named(current, n) # {} \/ Named(desired, n) # {})} |->
        IF managed(n) = {} THEN Existing
        ELSE LET p == CHOOSE p \in managed(n) : TRUE
             IN Observation(p, current[p].view, current[p].mat, TRUE)]

(* Mutant: a copy whose dependency was renamed keeps its old routes.       *)
NextNamesOnly(projections) ==
  [p \in DOMAIN projections |->
    IF projections[p].owner = "detached" THEN projections[p]
    ELSE [projections[p] EXCEPT !.view.name = Planned(projections)[p].name,
                                !.mat = IF Direct(p, Planned(projections)[p]) THEN @ ELSE "copy"]]

(* projectionStateForPlan: managed projections take their planned name and *)
(* view, detached ones stay as they are.                                   *)
NextProjections(projections) ==
  [p \in DOMAIN projections |->
    IF projections[p].owner = "detached" THEN projections[p]
    ELSE LET view == Planned(projections)[p]
         IN [projections[p] EXCEPT !.name = view.name, !.view = view,
                                   !.mat = IF Direct(p, view) THEN @ ELSE "copy"]]

(* Mutant: what is missing is not staged.                                  *)
NamesToReplace(actions) == {a.name : a \in {a \in actions : a.action = "replace"}}

NamesToStage(actions) == {a.name : a \in {a \in actions : a.action \in {"materialize", "replace"}}}
NamesToRemove(actions) == {a.name : a \in {a \in actions : a.action = "remove"}}

(* validateAndBuildReconciliationRequests: whatever is kept, materialized  *)
(* or replaced is managed in the next state under that name.               *)
RequestsOk(actions, next) ==
  /\ \A a \in actions : a.action \in {"keep", "materialize", "replace"} =>
       /\ a.to \in DOMAIN next
       /\ next[a.to].owner = "managed" /\ next[a.to].name = a.name
  /\ \A a \in actions : a.action \in {"remove", "drop-missing"} => Named(next, a.name) = {}
  /\ \A p \in ManagedIn(next) :
       \E a \in actions : a.action \in {"keep", "materialize", "replace"} /\ a.to = p

----------------------------------------------------------------------------
Running(kind, step, next, current, actions) ==
  [kind |-> kind, step |-> step,
   next |-> next,           \* the projections to accept or to restore
   current |-> current,     \* the projections the directory is taken to show
   stages |-> NamesToStage(actions), removals |-> NamesToRemove(actions),
   copies |-> {},           \* detached links that recovery is to copy
   todo |-> {},             \* names left in the step's loop
   existed |-> {},          \* names that were taken when they were staged
   swapping |-> {},         \* the name that is being removed or replaced
   invalid |-> ~RequestsOk(actions, next)]

Do(c) == cmd' = c /\ report' = "none" /\ touched' = {} /\ raced' = {}
GoTo(step, todo) ==
  /\ cmd' = [cmd EXCEPT !.step = step, !.todo = todo]
  /\ UNCHANGED <<report, userMarks>>
Fail == cmd' = Idle /\ report' = "none" /\ touched' = {} /\ raced' = {}
Succeed == cmd' = Idle /\ report' = cmd.kind /\ raced' = {} /\ UNCHANGED touched

CanFail == failures < MaxFailures /\ failures' = failures + 1 /\ UNCHANGED edits

(* executeCliLocalOperation up to the operation: a target whose marker     *)
(* lags is refused (requireCurrentTargetCopy), before and under the lock.  *)
MayStart == cmd = Idle /\ marker.generation \notin 1..(generation - 1)

(* reconcileLocalProjectionStateChange up to prepareTargetReconciliation.  *)
StartChange(kind, provisional) ==
  LET desired == DesiredOf(provisional)
      actions == PreflightActions(desired, accepted, Observed(accepted, desired))
      next == NextProjections(provisional)
  IN /\ generation < MaxGeneration
     /\ PlannedOk(provisional)
     /\ AcceptedPlanOk(accepted)
     /\ ObservationOk(accepted)
     /\ PreflightOk(desired, accepted, Observed(accepted, desired))
     /\ RequestsOk(actions, next)
     /\ Do(Running(kind, "pending", next, accepted, actions))
     /\ UNCHANGED <<registryFacts, files, bounds>>

(* renameAcceptedProjection: the first plan is for every package, so that  *)
(* a forgotten one has no projection to become and the rename is refused.  *)
StartRename ==
  /\ MayStart
  /\ DOMAIN accepted = Package
  /\ \E p \in ManagedIn(accepted), n \in Name :
       /\ accepted[p].name # n
       /\ StartChange("rename", [accepted EXCEPT ![p].name = n])

(* A rename to the name it has only writes the marker.                     *)
RenameToSame ==
  /\ MayStart
  /\ \E p \in ManagedIn(accepted) :
       Do([Running("mark", "marker", accepted, accepted, {}) EXCEPT !.invalid = FALSE])
  /\ UNCHANGED <<registryFacts, files, bounds>>

(* rebindAcceptedProjection, planReboundDetachedProjectionState: the old   *)
(* path is gone and the selected one is a directory.  A detached           *)
(* projection and its baseline come and go together.                       *)
RebindPermitted(p, n) ==
  /\ accepted[p].owner = "detached"
  /\ \A q \in DOMAIN accepted \ {p} : accepted[q].name # n
  /\ Missing(accepted[p].name)
  /\ IsDirectory(dir[n])

StartRebind ==
  /\ MayStart
  /\ \E p \in DOMAIN accepted, n \in Name :
       /\ RebindPermitted(p, n)
       /\ StartChange("rebind", [accepted EXCEPT ![p].name = n])

(* forgetAcceptedProjection, planForgottenDetachedProjectionState.         *)
StartForget ==
  /\ MayStart
  /\ \E p \in DOMAIN accepted :
       /\ accepted[p].owner = "detached"
       /\ StartChange("forget", [q \in DOMAIN accepted \ {p} |-> accepted[q]])

DetachedState(p) == [accepted EXCEPT ![p].owner = "detached", ![p].mat = "copy"]

DetachPermitted(p) ==
  /\ AcceptedPlanOk(accepted)
  /\ accepted[p].owner = "managed"
  /\ Verified(p, accepted[p])

(* detachTargetProjection: a projection that is a copy already only        *)
(* changes hands, a link is first replaced by a copy.                      *)
StartDetach ==
  /\ MayStart
  /\ generation < MaxGeneration
  /\ \E p \in DOMAIN accepted :
       /\ DetachPermitted(p)
       /\ Do([Running("detach", IF accepted[p].mat = "copy" THEN "commit" ELSE "pending",
                      DetachedState(p), accepted, {})
              EXCEPT !.stages = IF accepted[p].mat = "copy" THEN {} ELSE {accepted[p].name},
                     !.invalid = FALSE])
  /\ UNCHANGED <<registryFacts, files, bounds>>

----------------------------------------------------------------------------
(* syncExactAcceptedTarget: prepareAcceptedTarget takes the projections of *)
(* a lagging marker for the current ones (readExactTargetMarkerContext).   *)
Lagging == marker.generation \in 1..(generation - 1)
Current == IF Lagging THEN marker.projections ELSE accepted

(* recoverInterruptedDetach looks for the action of the pending operation  *)
(* that belongs to a detached projection.                                  *)
Interrupted ==
  {p \in DetachedIn(accepted) : accepted[p].name \in PendingNames}

NeedsCopy == {p \in Interrupted : dir[accepted[p].name] = Link(p)}

StartSync ==
  LET desired == DesiredOf(accepted)
      seen == Observed(Current, <<>>)
      actions == PreflightActions(desired, Current, seen)
      sync == Running("sync", "clean", accepted, Current, actions)
  IN /\ cmd = Idle
     /\ AcceptedPlanOk(accepted)
     /\ ObservationOk(Current)
     /\ PreflightOk(desired, Current, seen)
     /\ Cardinality(Interrupted) <= 1
     /\ \A p \in Interrupted : ~Missing(accepted[p].name)   \* else not recoverable
     /\ Do(IF NeedsCopy = {} THEN sync
           ELSE [sync EXCEPT !.kind = "recover",
                             !.copies = {accepted[p].name : p \in NeedsCopy}])
     /\ UNCHANGED <<registryFacts, files, bounds>>

(* cleanupPendingTargetStaging; then a recovery begins its own operation,  *)
(* and a sync the one its requests ask for.                                *)
CleanPending ==
  /\ cmd.step = "clean"
  /\ stage' = [n \in Name |-> IF n \in PendingNames THEN NoContainer
                              ELSE stage[n]]
  /\ pending' = {}
  /\ CASE cmd.kind = "sync" /\ cmd.invalid -> Fail
       [] cmd.kind = "sync" /\ ~cmd.invalid /\ cmd.stages \cup cmd.removals = {} ->
            GoTo("marker", {})
       [] OTHER -> GoTo("pending", {})
  /\ UNCHANGED <<accepted, generation, dir, marker, bounds>>

ToStage == IF cmd.kind = "recover" THEN cmd.copies ELSE cmd.stages
ToRemove == IF cmd.kind = "recover" THEN {} ELSE cmd.removals

(* beginPendingOperation refuses while another operation is pending.       *)
BeginPending ==
  /\ cmd.step = "pending"
  /\ IF pending = {}
       THEN pending' = {ToStage \cup ToRemove} /\ GoTo("stage", {})
       ELSE Fail /\ UNCHANGED pending
  /\ UNCHANGED <<accepted, generation, files, bounds>>

Commits == cmd.kind \in {"rename", "rebind", "forget", "detach"}

(* The projection that is to be shown under a name.                        *)
Wanted(n) ==
  LET p == TheNamed(cmd.next, n) IN Expected(p, cmd.next[p])

CurrentAt(n) == {p \in ManagedIn(cmd.current) : cmd.current[p].name = n}
StillCurrent(n) == \E p \in CurrentAt(n) : Verified(p, cmd.current[p])

(* Mutant: whatever is there is taken for the managed projection.          *)
ReplaceableAnyway(n) == ~Missing(n)

(* In recovery the link of the package itself is current.                  *)
Replaceable(n) ==
  IF cmd.kind = "recover" THEN dir[n] = Link(TheNamed(accepted, n)) ELSE StillCurrent(n)

(* prepareManagedProjection for every request.                             *)
StageAll ==
  /\ cmd.step = "stage"
  /\ \A n \in ToStage : Missing(n) \/ Replaceable(n)
  /\ stage' = [n \in Name |->
                 IF n \in ToStage THEN [kind |-> "staged", made |-> Wanted(n), retired |-> Nothing]
                 ELSE stage[n]]
  /\ cmd' = [cmd EXCEPT !.step = IF Commits THEN "commit" ELSE "remove",
                        !.todo = IF Commits THEN {} ELSE ToRemove,
                        !.existed = {n \in ToStage : ~Missing(n)}]
  /\ UNCHANGED <<registryFacts, dir, marker, report, userMarks, bounds>>

(* A projection cannot be staged: what was staged and the pending row are  *)
(* taken back.                                                             *)
StagingFails ==
  /\ cmd.step = "stage"
  /\ IF \A n \in ToStage : Missing(n) \/ Replaceable(n) THEN CanFail ELSE UNCHANGED bounds
  /\ pending' = {}
  /\ Fail
  /\ UNCHANGED <<accepted, generation, files>>

(* replaceTargetState; without an operation of its own it is refused while *)
(* one is pending.                                                         *)
Commit ==
  /\ cmd.step = "commit"
  /\ cmd.kind = "detach" /\ cmd.stages = {} => pending = {}
  /\ accepted' = cmd.next
  /\ generation' = generation + 1
  /\ CASE cmd.kind = "detach" /\ cmd.stages = {} -> GoTo("marker", {})
       [] cmd.kind = "detach" /\ cmd.stages # {} -> GoTo("activate", cmd.stages)
       [] OTHER -> GoTo("remove", cmd.removals)
  /\ UNCHANGED <<pending, files, bounds>>

CommitRefused ==
  /\ cmd.step = "commit"
  /\ cmd.kind = "detach" /\ cmd.stages = {} /\ pending # {}
  /\ Fail
  /\ UNCHANGED <<registryFacts, files, bounds>>

(* removeManagedProjection: gone already is as good as removed; what still *)
(* is the managed projection is to be removed, ...                         *)
Remove ==
  /\ cmd.step = "remove"
  /\ IF cmd.todo = {} THEN GoTo("activate", ToStage)
     ELSE \E n \in cmd.todo :
       CASE Missing(n) -> GoTo("remove", cmd.todo \ {n})
         [] Replaceable(n) ->
              /\ cmd' = [cmd EXCEPT !.step = "removing", !.swapping = {n}]
              /\ UNCHANGED <<report, userMarks>>
         [] OTHER -> Fail
  /\ UNCHANGED <<registryFacts, files, bounds>>

(* ... and is, if it still is a link or still is a directory; a directory  *)
(* with whatever is in it by then.                                         *)
RemoveVerified ==
  /\ cmd.step = "removing"
  /\ \E n \in cmd.swapping :
       IF Missing(n) \/ \E p \in CurrentAt(n) : cmd.current[p].mat = "copy" <=> IsDirectory(dir[n])
         THEN /\ dir' = [dir EXCEPT ![n] = Nothing]
              /\ cmd' = [cmd EXCEPT !.step = "remove", !.todo = @ \ {n}, !.swapping = {}]
              /\ UNCHANGED <<report, userMarks>>
         ELSE Fail /\ UNCHANGED dir
  /\ UNCHANGED <<registryFacts, stage, marker, bounds>>

(* activate(): under a free name one rename; what is live is verified, ... *)
Activate ==
  /\ cmd.step = "activate"
  /\ IF cmd.todo = {} THEN GoTo(IF Commits /\ cmd.kind # "detach" THEN "marker" ELSE "finish", {})
                           /\ UNCHANGED <<dir, stage>>
     ELSE \E n \in cmd.todo :
       CASE n \notin cmd.existed /\ Missing(n) ->
              /\ dir' = [dir EXCEPT ![n] = stage[n].made]
              /\ stage' = [stage EXCEPT ![n].made = Nothing]
              /\ GoTo("activate", cmd.todo \ {n})
         [] n \in cmd.existed /\ Replaceable(n) ->
              /\ cmd' = [cmd EXCEPT !.step = "retire", !.swapping = {n}]
              /\ UNCHANGED <<dir, stage, report, userMarks>>
         [] OTHER -> Fail /\ UNCHANGED <<dir, stage>>
  /\ UNCHANGED <<registryFacts, marker, bounds>>

(* ... renamed into the container, whatever it is by then, ...             *)
Retire ==
  /\ cmd.step = "retire"
  /\ \E n \in cmd.swapping :
       IF Missing(n) THEN Fail /\ UNCHANGED <<dir, stage>>
       ELSE /\ stage' = [stage EXCEPT ![n].retired = dir[n]]
            /\ dir' = [dir EXCEPT ![n] = Nothing]
            /\ GoTo("swap", cmd.todo)
  /\ UNCHANGED <<registryFacts, marker, bounds>>

(* ... and the staged projection takes its place; if that fails the        *)
(* retired one goes back.                                                  *)
Swap ==
  /\ cmd.step = "swap"
  /\ \E n \in cmd.swapping :
       /\ Missing(n)
       /\ dir' = [dir EXCEPT ![n] = stage[n].made]
       /\ stage' = [stage EXCEPT ![n].made = Nothing]
       /\ cmd' = [cmd EXCEPT !.step = "activate", !.todo = @ \ {n}, !.swapping = {}]
  /\ UNCHANGED <<registryFacts, marker, report, userMarks, bounds>>

SwapFails ==
  /\ cmd.step = "swap"
  /\ \E n \in cmd.swapping :
       IF Missing(n)
         THEN /\ CanFail
              /\ dir' = [dir EXCEPT ![n] = stage[n].retired]
              /\ stage' = [stage EXCEPT ![n].retired = Nothing]
         ELSE UNCHANGED <<dir, stage, bounds>>
  /\ Fail
  /\ UNCHANGED <<registryFacts, marker>>

(* discard() and completePendingOperation, or cleanupPendingTargetStaging  *)
(* at the end.  The recovered detach goes on as a sync.                    *)
Finish ==
  /\ cmd.step = "finish"
  /\ stage' = [n \in Name |-> IF n \in PendingNames THEN NoContainer
                              ELSE stage[n]]
  /\ pending' = {}
  /\ CASE cmd.kind = "recover" ->
            /\ cmd' = [cmd EXCEPT !.kind = "sync", !.step = "clean", !.existed = {}]
            /\ UNCHANGED <<report, userMarks>>
       [] cmd.kind \in {"rename", "rebind", "forget"} -> Succeed
       [] OTHER -> GoTo("marker", {})
  /\ UNCHANGED <<accepted, generation, dir, marker, bounds>>

(* syncLifecycleMarker, from the registry.                                 *)
WriteMarker ==
  /\ cmd.step = "marker"
  /\ marker' = [generation |-> generation, projections |-> accepted]
  /\ IF cmd.kind \in {"rename", "rebind", "forget"}
       THEN GoTo("finish", {})
       ELSE Succeed
  /\ UNCHANGED <<registryFacts, dir, stage, bounds>>

MarkerFails ==
  /\ cmd.step = "marker"
  /\ CanFail
  /\ Fail
  /\ UNCHANGED <<registryFacts, files>>

Crash ==
  /\ cmd # Idle
  /\ CanFail
  /\ Fail
  /\ UNCHANGED <<registryFacts, files>>

----------------------------------------------------------------------------
(* The user edits a copy, puts a directory of their own somewhere, deletes *)
(* a projection, or moves a directory.                                     *)
Edit(newDir, names) ==
  /\ edits < MaxEdits /\ edits' = edits + 1
  /\ dir' = newDir
  /\ touched' = touched \cup names
  /\ raced' = IF cmd.step \in {"retire", "removing"} THEN raced \cup names ELSE raced
  /\ report' = "none"
  /\ UNCHANGED <<registryFacts, stage, marker, cmd, failures>>

UserWrites == \E n \in Name : dir[n] # User /\ Edit([dir EXCEPT ![n] = User], {n})
UserDeletes == \E n \in Name : ~Missing(n) /\ Edit([dir EXCEPT ![n] = Nothing], {n})
UserMoves ==
  \E n, m \in Name :
    /\ IsDirectory(dir[n]) /\ Missing(m)
    /\ Edit([dir EXCEPT ![n] = Nothing, ![m] = dir[n]], {n, m})

Step ==
  \/ CleanPending \/ BeginPending \/ StageAll \/ StagingFails \/ Commit \/ CommitRefused
  \/ Remove \/ RemoveVerified \/ Activate \/ Retire \/ Swap \/ SwapFails
  \/ Finish \/ WriteMarker \/ MarkerFails

Next ==
  \/ StartRename \/ RenameToSame \/ StartRebind \/ StartForget \/ StartDetach \/ StartSync
  \/ Step \/ Crash
  \/ UserWrites \/ UserDeletes \/ UserMoves

(* A target with every package projected, as the planner has it.           *)
Init ==
  /\ accepted = [p \in Package |->
       LET view == ViewOf(DependsOn, InitialNames, p)
       IN [owner |-> "managed", name |-> InitialNames[p],
           mat |-> IF Direct(p, view) THEN "link" ELSE "copy", view |-> view]]
  /\ generation = 1
  /\ pending = {}
  /\ dir = [n \in Name |->
       LET p == TheNamed(accepted, n)
       IN IF p = NoPackage THEN Nothing ELSE Expected(p, accepted[p])]
  /\ stage = [n \in Name |-> NoContainer]
  /\ marker = [generation |-> 1, projections |-> accepted]
  /\ cmd = Idle
  /\ report = "none"
  /\ failures = 0 /\ edits = 0 /\ touched = {} /\ raced = {}

Spec == Init /\ [][Next]_vars

----------------------------------------------------------------------------
View == [name : Name, routes : SUBSET (Package \X Name)]
Projection == [owner : {"managed", "detached"}, name : Name, mat : {"link", "copy"}, view : View]
Content == {Nothing, User} \cup {Link(p) : p \in Package}
             \cup {Copy(p, view) : p \in Package, view \in View}

(* The target in the registry, its directory and its containers.           *)
TypeOK ==
  /\ DOMAIN accepted \subseteq Package
  /\ \A p \in DOMAIN accepted : accepted[p] \in Projection
  /\ generation \in 1..MaxGeneration /\ marker.generation \in 1..generation
  /\ pending \in SUBSET SUBSET Name /\ Cardinality(pending) <= 1
  /\ dir \in [Name -> Content]
  /\ \A n \in Name : stage[n] = NoContainer \/ stage[n].kind = "staged"
  /\ cmd # Idle => cmd.kind \in Kinds /\ cmd.step \in Steps

(* Every state a local command accepts is one that the planner gives again *)
(* from its requirements and renames: acceptedTargetPlan, with which every *)
(* later command starts, finds the same names and the same routes.         *)
PlanReproducible == AcceptedPlanOk(accepted)

(* What every later command has to start from is in order.                 *)
StateSound == TypeOK /\ PlanReproducible

(* When a command reports success and the user has not touched a name      *)
(* since it began, that name shows what the registry says, the marker says *)
(* what the registry says, and no operation and no container is left.      *)
SuccessMeansAgreement ==
  /\ report # "none" => marker = [generation |-> generation, projections |-> accepted]
  /\ report \in {"rename", "rebind", "forget", "sync"} =>
       /\ pending = {} /\ \A n \in Name : stage[n] = NoContainer
       /\ \A p \in ManagedIn(accepted) :
            Verified(p, accepted[p]) \/ accepted[p].name \in touched

(* What belongs to the user: a directory of their own, and the copy behind *)
(* a detached projection.                                                  *)
UserOwned(n) ==
  \/ dir[n] = User
  \/ dir[n].kind = "copy" /\ \E p \in DetachedIn(accepted) : accepted[p].name = n

(* No command removes or replaces what belongs to the user, whatever dies  *)
(* in between, with one exception: content that came to be there between   *)
(* the last verification of a projection and the removal, or the rename    *)
(* into the container, that the verification was for.                      *)
UserContentKept ==
  [][\A n \in Name : UserOwned(n) => dir'[n] = dir[n] \/ edits' # edits \/ n \in raced]_vars

=============================================================================
