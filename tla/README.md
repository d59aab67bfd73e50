# Skiloom, specified

Skiloom installs *skills* (packages of prompt files) from Git sources into
directories, the *targets*, that AI agents read. What is installed is decided
by an *accepted state* in a SQLite database, the machine registry. The directory
is derived from it. A command line process does one operation and exits; several
may run at once; any of them may be killed at any instruction, and the user may
edit the directory meanwhile. This directory specifies in TLA+ what the program
does about that, checks it with TLC and proves part of it with TLAPS.

All paths below are relative to `src/`. File names without a path are in
`src/src/runtime/` or `src/src/runtime/orchestration/`.

## 1. The system

| Part | State it keeps | Operations | Talks to |
|---|---|---|---|
| Operation lock (`src/src/native/skiloom-lock.ts`, Rust helper `src/native/skiloom-lock/src/main.rs`) | an OS file lock held by a helper process; a session object in the command: held, lost, released | acquire, checkHeld, release | every command that changes anything holds a session and passes `checkHeld` down |
| Machine registry (`registry/`) | SQLite tables: targets with their generation, requirements, sources, resolved packages, locations, observations, pending operations | begin/complete a pending operation, replace the accepted state (of a known, fresh or forked target), observe a location, replace observations; backup, migrate, restore | the authority every other part reads |
| Package store (`store.ts`) | one immutable directory per content digest; staging directories | publish, verify, repair | projections link or copy out of it |
| Target projection (`target-projection/`) | live projections in a target directory, staging containers next to them with a recovery manifest | prepare (stage), activate (retire, rename, roll back), discard, remove, verify, repair drift | called by reconciliation |
| Target state marker (`target-state-marker.ts`, `lifecycle/marker`) | `.skiloom-state` in the target: target id, generation, what is managed | write, read | lets sync see which generation the directory is at |
| Target reconciliation (`target-reconcile.ts`, `target-reconcile/`) | none of its own: sequences registry, projection and marker | begin pending, stage, commit, remove, activate, clean up | used by every lifecycle command |
| Lifecycle commands (`lifecycle/first-install.ts`, `requirement-change.ts`, `apply.ts`) | the plan of the command | first install; add a root, update, remove | lock, store, reconciliation, marker |
| Interrupted-lifecycle recovery (`lifecycle/recovery/index.ts`, `target.ts`) | none | roll back before the commit, go forward after it | reads pending rows and manifests |
| Sync and repair (`exact-state-maintenance.ts`, `exact-state-maintenance/`, `local-lifecycle.ts`) | none | sync a directory with the accepted state, repair store entries and drifted projections | reconciliation, marker, location and observation rows |
| Recovery candidates (`lifecycle/recovery/candidate*.ts`, `target-state-recovery.ts`) | none | make a state from a marker: of a target the registry does not know (recover), under a new id (fork) | registry, resolver |
| Registry maintenance (`registry/maintenance.ts`) | backup images; the side files of SQLite | open, migrate, back up, restore | every command opens the registry through it |
| Local projections and detach (`local-projection/`, `detached-*.ts`, `detach-recovery.ts`) | projections the user names or edits; detached bindings with their baselines | rename, detach, rebind, forget, and the recovery of an interrupted detach | registry, projection, sync |
| Import and export (`import/`, `export/`, `user-payload.ts`) | an export package; payload directories | export, exact import, merge import, recovery | registry, store, user payload |
| Requirements, resolver, candidates, acceptance (`src/src/domain/`, `lifecycle-candidate.ts`) | pure, but for the fetching | match versions, search a graph of exact packages, compare it with the accepted state, say what the user must confirm | called by the commands |
| Target plan and preflight (`src/src/domain/target/`) | pure | what every name of a directory should show, and what may be done to it | called by every lifecycle command |
| Git source and cache (`source/github/`) | a cache file per commit; disposable clones | list releases, resolve tags and refs, acquire the content of a commit, by git or REST, with retries and fallback | network; called by candidates, apply, store repair |
| Doctor (`doctor/`) | none | says what is wrong with a directory and which command helps | registry, marker, projections, store; takes no lock |
| Catalog, host observation | none | read-only reports | network, host software |
| Command line (`src/src/cli/`) | none | parse, take the lock, run one command, print | all |

### How they interact

A change runs as one sequence under one lock session:

1. take the lock; read the accepted state and the directory; resolve; publish
   the snapshots that are missing to the store;
2. insert a *pending* row that names the target, the generation it leaves, the
   generation it goes to, and the names it will touch;
3. build every new projection in a container next to its place, with a manifest;
4. replace the accepted state in one SQLite transaction (**the commit**);
5. remove and activate projections, one rename after another;
6. write the marker, remove the containers, delete the pending row, release.

`sync` does 2, 3, 5 and 6 for a state that is accepted already. Every step is an
awaited effect, hence a point at which the process can die, the effect can fail,
the lock can be lost or the user can step in.

### What is hard, and what makes each part correct

- **Lock.** The file lock belongs to the helper, the knowledge of it to the
  command: they part when the helper ends. Correct means: two sessions are held
  at once only while one of them has an exit event still to read; a release that
  succeeds proves exclusion from acquisition to release; the lock of dead
  commands is freed; an acquisition is always answered.
- **Registry.** Rows of several tables must agree after any sequence of
  transactions, and a pending row must always tell on which side of its commit
  the operation is, because recovery decides by that and nothing else.
- **Directory.** Between commit and marker the directory is part old, part new.
  It must only move towards what is accepted, take away nothing that is not its
  own, and reach it after any crash.
- **Bookkeeping.** Containers, pending row and marker outlive the process that
  wrote them: no container without a row, no marker that says more than is true.
- **Store.** Its entries are shared by all targets of the machine: an entry is
  complete or not there, and what is intact is left alone.
- **What belongs to the user.** Detached copies, imported payloads and foreign
  directories exist nowhere else. No command may take them away, whatever died
  before it, and whatever sequence of rename, detach, rebind, forget and sync led
  there.
- **Copies, lost files, old databases.** A directory can be copied, a marker
  deleted, the registry lost, migrated or restored from a backup. What registry,
  marker and directory say then differs, and each command must either put it
  right or stop, without forgetting an accepted state.
- **Decisions.** The resolver must find a solution if there is one, requirements
  must admit the versions they name, every difference to the accepted state
  must be shown to the user, and export, import and merge must not drop a fact.
- **Upstream.** Releases come and go between two pages of a listing, tags move
  between two requests, git fails half way, the cache is shared and disposable.

`PROJECT.json` lists each of these hazards with its line in the source and the
properties that would catch it.

## 2. Modules

| Module | What it models |
|---|---|
| `LockService` | what the lock promises to a command: `Grant`, `Open`, `Free`, `NoticeLoss`, `Close`. It makes no promise of exclusion between *sessions*, only between holders |
| `OperationLock` | the helper protocol that provides it: spawn, try-lock, handshake on stdout, end of stdin, exit event; with kills on both sides |
| `MachineRegistry` | every registry transaction, with the checks that make it fail |
| `TargetFiles` | a target directory as file operations: stage, retire, activate, reinstate, remove, write manifest, write marker |
| `TargetReconcile` | the sequence pending, staging, commit, removal, activation, cleanup, one action per awaited effect |
| `TargetLifecycle` | the commands (install, change, sync, repair, recover) over it, the lock, and an environment that kills, fails and edits |
| `AcceptedTarget` | the abstract specification of a target: accepted at once, directory follows |
| `PackageStore` | publishers and repairers of store entries over `LockService` |
| `TargetPlan` | pure: the projection planner and the ownership preflight table |
| `LocalProjections` | rename, detach, rebind, forget and sync of single projections, with the views of copies and the recovery of an interrupted detach |
| `ImportLifecycle` | exact import and merge: staging of managed and user payloads, commit, activation, cleanup, interruption, import recovery, sync |
| `ExactTransfer` | pure: what an export says, what an import makes of it, what a merge is |
| `ReleaseRequirements` | pure: precedence of versions, comparators, and the interval each should admit |
| `Resolver` | pure: propagation and backtracking search, and what a solution is |
| `Candidate` | pure: which sources are fetched, on demand |
| `Acceptance` | pure: the comparison of a candidate with the accepted state, and who has to agree |
| `StateMarker` | pure: the tables of `.skiloom-state`, what is refused when read, what each of its two builders writes |
| `Decisions` | transfers, markers, acceptance, resolution and matching as behaviours: an input, then what is decided about it |
| `TargetCopies` | several directories and one registry: status gates, recover, fork, sync of copies, repair; opening, migration, backup and restore |
| `Doctor` | the reads of doctor, one after the other without a lock, between the steps of the commands of `TargetCopies` |
| `GitSource` | acquisition from GitHub: listing, git with fallback to REST, retries, cancellation, the cache; for candidates and again for apply |
| `OperationLock_proofs`, `PackageStore_proofs`, `GitSource_proofs`, `ImportLifecycle_proofs`, `TargetCopies_proofs`, `LocalProjections_proofs` | theorems about these modules, with the invariants they rest on |
| `TargetLifecycle_proofs` | theorems about `MachineRegistry`, then about the commands that use it |
| `Decisions_proofs` | theorems about `Decisions`, the modules it extends and `ReleaseRequirements` |
| `MC...` | constants, symmetry and inputs for TLC |

How they are composed: `TargetLifecycle` EXTENDS `TargetReconcile`, which EXTENDS
`TargetFiles` (hence `MachineRegistry`) and `LockService`, so that each registry
transaction is written once. `PackageStore` EXTENDS `LockService`, which
`OperationLock` implements. `LocalProjections` and `ExactTransfer` EXTEND
`TargetPlan`, `StateMarker`, `Acceptance` and `Resolver` EXTEND `ExactTransfer`,
`Candidate` EXTENDS `Resolver`, `Doctor` EXTENDS `TargetCopies`. `Decisions`
EXTENDS `StateMarker`, `Acceptance`, `Candidate` and `ReleaseRequirements`;
`MCDecisions` gives it its inputs. The recursion of the search, of propagation and
of the prefetch is written as recursive functions on finite sets, so that theorems
can be proved about it: the loop of `searchBranch` is `FirstSuccess`, over what the
branches of all candidates give, and `SearchBranch` takes what the branches give
as the function it is defining.

`TargetLifecycle`, `LocalProjections`, `ImportLifecycle` and `TargetCopies` are four
views of the same commands. The first has the lock, overlapping commands and
every single file operation, and one kind of projection. The other three take
from it that commands do not overlap and each adds what the first leaves out:
names and views of single projections, payloads of the user, and several
directories with an old or lost registry.

### How state and actions correspond to the code

- **Registry tables.** `generation[t]` is the row of `targets` (`NoRow`: none;
  0: announced, never accepted). `resolvedPackages[t]` is the accepted state, a
  function from package name to digest; requirements, sources and origins change
  with it in the same transaction and are not told apart there (`ExactTransfer`
  and `Candidate` have them). `targetLocations`, `observations`,
  `pendingOperations` are sets of rows. A transaction is one action; a check that
  throws is a guard.
- **Directory.** `live[n]` is a digest, nothing, or `Foreign` (whatever the user
  put there). `staging[op][n]` is the container of an operation for a name, with
  the projection to activate, the one retired, and the manifest. In
  `LocalProjections`, `dir[n]` also tells link from copy and holds the view with
  which a copy was written.
- **The removal window.** `removeManagedProjection` and `activate` verify what is
  live, await something, and then remove or rename whatever is there. So do
  `VerifyRemoval` and `RemoveProjection`, `VerifyCurrent` and `RetireCurrent`, and in
  `LocalProjections` `Remove` and `RemoveVerified`: the user may come in between.
- **Doctor** (`look`) is a process of its own beside the commands: one action per
  read, and it remembers only what the code remembers.
- **A command** is a record (`command[c]`, `cmd`, `acq`): where it is (`step`), its
  plan and the names left in the loop it is in. A client `c` of `TargetLifecycle`
  is a sequence of processes: when one ends or dies its memory is gone (`Idle`)
  and its session closed.
- **checkHeld** is `session[c] = "held"` in the guard of the step
  that calls it in the code (`Held`). Steps that do not call it are listed in
  `Unchecked`. `LockIsLost` is the error path.
- **Failures.** `Stop` and `Crash` are a death or an effect that fails without
  compensation. `StagingFails`, `ActivationFails`, `DriftSwapFails`, `MarkerFails`
  are failures the code compensates or reports. `LockFails` is a helper that
  ends before its command.
- **The store** is a value per digest (absent, empty directory, partial, intact,
  corrupt), one step per effect of `publishPackageSnapshot`,
  `repairPackageStoreEntry` and `removeStoreEntryPath`.
- **The database** of `TargetCopies` is an image that commands see (`db`) and the
  main file beside its write-ahead log (`main`), which may be older. Migration,
  backup and restore are the steps on these files.
- **Pure code** is an operator with the name of what it computes; `Decisions` has
  one behaviour per input (`Open...`, `Decide...`), and its invariants relate what
  is decided to a reference definition beside the operator.
- **Upstream** is a list of releases, newest first, and the commit of each tag;
  `seen` records what was true while an acquisition ran. The content of a commit
  is the commit.

## 3. What each run checks

| Run | Question | Bounds | Distinct states |
|---|---|---|---|
| `machine_registry` | do the tables agree after any sequence of transactions? | 2 targets, 2 paths, 2 operations, 1 package, 2 digests, generations to 2 | 12 471 |
| `operation_lock` | what do a held session and a release prove; is everything answered and freed; is `LockService` implemented? | 3 commands, any number of invocations, kills at any step | 139 404 |
| `target_lifecycle` | does the directory follow the registry through all five commands, and does success mean agreement? | 2 targets for 1 directory, 2 packages, 2 digests, generations to 2, 1 failure, 1 edit by the user | 556 406 |
| `target_stale_lock` | what if a command does not know yet that its lock is gone? | 2 commands, 1 package, generations to 2, 1 failure, 1 edit by the user | 554 842 |
| `target_progress` | does everything end, converge and get cleaned up if recovery goes first? | 1 target, 2 packages, generations to 2, 1 failure | 59 757 |
| `package_store` | are entries complete, left alone and healed? | 2 commands, 1 entry, 3 failures (deaths, damage, lost locks) | 51 904 |
| `local_projections` | can a state that local commands accept be planned again, and is the user's copy kept? | 2 packages, one depending on the other, 3 names (at first each package under its own), generations to 4, 2 failures, 2 edits | 566 073 |
| `import` | which payloads can be lost, what does the marker mean, and which interrupted imports are undone or completed? | 1 name kept, 1 added, 2 payloads, each a detached package or a skill, import and merge, 2 failures, 2 edits | 98 558 |
| `decisions` | are transfers, resolution, acceptance and markers right on every small input? | 4 packages in 3 repositories with up to 2 releases each (3 packages in 2 for transfers and acceptance), comparators of numbers up to 1 against versions up to 2, marker files with 2 tables of each kind | 721 888 |
| `maintenance` | is no accepted state forgotten, nothing of the user's overwritten, and doctor right while commands run? | 2 directories, 2 targets, 1 package in 2 versions, generations to 2, 2 mishaps (one while doctor reads), 2 backups, old schema included | 1 915 533 |
| `git_source` | is what is acquired true and complete, and does every acquisition end? | 3 tags, 2 commits (one unusable), pages of 1, at most 3 pages, 2 attempts, 1 change upstream or in the cache | 98 567 |
| `target_sync_stuck` | finding 1 | | |

**Why the bounds are enough for what they show.** Two targets are needed for one to
compete for the directory of the other; two packages for a change that is half done
(one name moved on, one not); two digests to tell replaced from kept; a second
generation to have something to replace, a third for a marker that is two behind.
One failure suffices for every single interruption at every step; `package_store`,
`local_projections`, `import` and `maintenance` allow two or three, so that a
recovery is interrupted as well. Three lock clients are one that holds, one that has
lost it unnoticed and one that contends. Two packages with one dependency and a free
name are what a swap of names (a start from swapped names was run too, 463 831
states), a view of a renamed dependency and a name taken by the user need. Two
payloads, of which none, one or both are detached packages, make every order of
staging and activation happen, because the loops of the model go in any order, and
the detach that a sync cannot tell from another. Two directories are the original
and its copy; two versions tell a state from an older one. Three repositories make a
chain, the shortest graph in which fetching must go on after the first answer, and
two releases of each make the search backtrack. Pages of one release put a change
between any two releases of a listing; `git_source` was also run with two changes
(1.25 million states), `target_stale_lock` with generations to 3 (2.5 million) and,
without edits, with 2 failures, 3 operation ids and generations to 3 (7.8 million).
Where a bound stops the system (generations, operation ids, failures, edits,
backups), it stands in a guard and is named `Max...` or `IdsLeft`. TLC checks
deadlock in the runs of `TargetLifecycle`, `PackageStore`, `MachineRegistry` and
`GitSource`; in `operation_lock` every command may have died, `decisions` ends after
one decision, and in `local_projections`, `import` and `maintenance` the bounds may
leave nothing to do.

### The properties

Registry and lock (both proved, section 4, except liveness):

- `RegistryTypeOK`, `TypeOK`: the type of every variable.
- `PendingSound`: a target has one pending operation at most, its row names the
  generation before or after its commit, and generation 0 exists only while its
  first operation is pending, so that recovery can classify every row.
- `TablesConsistent`: no row refers to a target that is gone, no path has two
  owners, no location is ahead of its target, and no observation outlives the
  content it was made of.
- `AcceptedNeverLost` (action): an accepted target never disappears, its
  generation never goes back, and its state changes only with its generation.
- `OwnershipIsReal`: the lock belongs to a helper that lives, and no session says
  held once the exit was delivered. `HeldAtOnceMeansUnnoticedExit`,
  `ReleaseOkProvesExclusion`. `LockProgress` (liveness): losses are noticed, the
  lock of the dead is freed, acquisitions are answered.
  `ImplementsLockService` (refinement).

Directory and store:

- `ImplementsAcceptedTarget` (refinement): nothing is shown that is not
  accepted or was withdrawn a moment ago and is put back, nothing accepted is
  withdrawn, and a state is accepted as a whole while nothing moves. What the user
  put there is taken away by a repair, or if it came between a command's look at
  the name and the removal that the look was for, and not otherwise. The abstract
  target counts the edits of the user, so that only they can be taken for them.
- `ReportsAreTrue`: a command reports success only when registry, directory and
  marker agree and nothing is pending.
- `MarkerTruthful`, `MarkerLeavesNoOrphan` (action): the marker is written only
  over a directory that is what it says, and hides no projection that left.
- `StagingAccounted`: every container is named by a pending row.
- `NoLostUpdate`, `OnlyAcceptedAppears` (action): with an unnoticed lost lock, no
  state is accepted over one that the command has not seen, if the command has
  anything to stage or to remove, and what appears is accepted or was just taken
  away, unless a command did commit after its lock was gone. Section 6 says what a
  change of the requirements alone can do.
- `OrderReturns` (liveness): every command ends, and every target gets into order.
- `StoreSound`, `AppearsIntact`, `OnlyUserHarms` (action), `RepairHeals`
  (liveness) for the store.

What belongs to the user:

- `LocalProjections!StateSound`: every accepted state can be planned again.
  `SuccessMeansAgreement`: after a success every name that nobody touched shows
  what the registry says, and nothing is left over. `UserContentKept` (action):
  no command takes away a foreign directory or the copy behind a detached
  projection, but for what the user put under a name between its verification
  and its removal or rename (section 6).
- `ImportLifecycle!ImportSound`: once accepted, each payload is in place or in a
  container that recovery finds; but a sync that goes before the recovery may
  take the user's skills with it (never a detached package). `MarkerMeansComplete`:
  the new marker means that everything else is there. `UserContentKept` (action).
  `Converges` (liveness): the interrupted import is undone or completed, but for
  that sync and for the row that neither recovery nor sync takes (section 6).
- `TargetCopies!UserContentKept`, `AcceptedNeverLost` (action): the same across
  copies, lost markers, lost and old registries; only a restore takes an accepted
  state back. `Doctor!DoctorIsRight` (action): what doctor calls healthy while
  commands run, a sync finds nothing to do in, or the registry shows what overtook
  doctor (no command comes and goes unseen between its reads); and after a
  success it finds nothing wrong but in the store.

Decisions (`Decisions`; all four proved, section 4):

- `TransfersKeepFacts`: import undoes export, and a merge takes nothing from the
  current target and adds everything imported, in a state that can be planned.
- `ResolutionIsRight`: comparators admit exactly their intervals; what the search
  finds is a solution with no package that is not needed, it finds one if stable
  releases give one, with the newest first choice; fetching on demand changes
  nothing.
- `AcceptanceIsAsked`: nothing is applied that a flag or an answer did not allow,
  a moved tag needs its own approval, a no-op is one, every new repository has a
  reason.
- `MarkersKeepState`: the marker of every state can be read, keeps it, and is the
  same when written again; the two builders agree.

Sources:

- `SourceIsTrue`: what is returned is the content of the commit it names, which
  the tag had at some time since the acquisition began, whatever is in the cache.
- `ListingIsComplete`: a release is missed only if another was withdrawn
  meanwhile, and appears twice only if another was published.
- `AcquisitionEnds` (liveness), with cancellations that requests do not hear of.

Every property of a passing run has a *mutant*: a definition with a plausible
bug, marked `Mutant:` in the module beside the definition it would replace, under
which TLC finds the property violated. Mutants are no part of the specification.

### Fairness

`OperationLock`: a live process goes on, the OS delivers exit and end-of-file,
and an acquisition attempt returns; nobody is obliged to start a command, to
release or to die. `TargetLifecycle!FairSpec`: a running command goes on (its
loops are awaited effects with no waiting for others), an ended helper is
noticed (Node delivers the exit event), a closed session's helper ends (its stdin
closes). Retries are *strongly* fair, for the operator: the CLI runs a command
once, so convergence can only mean that it is reached if somebody comes back
often enough. Neither kills, failures nor edits are fair, and their number is
bounded: with ever new failures nothing converges. `PackageStore!FairSpec` and
`ImportLifecycle!FairSpec` are the same for an operator who repairs, and for one
who runs import recovery and sync. `GitSource!FairSpec`: an acquisition that runs
goes on. Each REST request has a timeout in the code, so it fails or answers; a
git command has none, that git gives up is assumed.

`target_progress` sets `RecoverFirst`: the operator runs
`recoverInterruptedLifecycle` before a sync when it applies. No CLI command calls
that function at present (tests do), so the run says what a caller gets;
`target_sync_stuck` says what happens without. `import` makes no such assumption:
recovery and sync come in any order, and its properties say what is lost when the
sync is first. That recovery comes at all is fairness about a caller of
`recoverInterruptedExactImport`, which the CLI is not either.

## 4. What is proved

`TargetLifecycle_proofs`, first about `MachineRegistry`, for any sets of targets,
paths, operations, packages, digests and observation kinds, with no bound on
generations, from the named assumptions of `MachineRegistry` on its constants (the
null values are no members of the sets they complete):

- `RegistryInvariant`: `RegistrySpec => []RegistryInv`
- `RegistryTypeCorrect`: `RegistrySpec => []RegistryTypeOK`
- `PendingStaysSound`: `RegistrySpec => []PendingSound`
- `TablesStayConsistent`: `RegistrySpec => []TablesConsistent`
- `AcceptedStatesArePermanent`: `RegistrySpec => AcceptedNeverLost`

**Argument.** None of the invariants is inductive alone; their conjunction
`RegistryInv` is. Acceptance keeps `PendingClassifies` because the uniqueness of
the pending row (`AtMostOnePending`) makes the row it commits with the only one
that could be left behind. Completion keeps `UnacceptedIsPending` because a
target at generation 0 has no location (`ReferencesResolve`), so the zero row
goes with its last pending row. `LocationsConsistent` needs `ReferencesResolve`
when a target that is not there gets its first row, and acceptance needs
`LocationsConsistent` for the rows it writes back. `RegistryStepCases` reduces the
three acceptances (known, fresh, forked target) to one replacement of rows; then
there is one lemma per invariant, with one step per kind of transaction. The
action property `AcceptedNeverLost` follows from the same invariant.

`OperationLock_proofs`, for any set of commands, from `NoClientAssumption`:

- `LockInvariant`: `Spec => []LockInv`
- `LockTypeCorrect`: `Spec => []TypeOK`
- `OwnershipStaysReal`: `Spec => []OwnershipIsReal`
- `ExclusionUpToNotice`: `Spec => []HeldAtOnceMeansUnnoticedExit`
- `ReleaseProvesExclusion`: `Spec => []ReleaseOkProvesExclusion`
- `LockServiceImplemented`: `Spec => ImplementsLockService`

**Argument.** `LockInv` adds two facts to the properties. `StagesAgree` ties the
stages of helper, channel and command together (a session has a helper that got
as far as holding; the channel of a held session is open). `EarlyEndsFail` is the
heart: a helper that ends while its command counts on the lock, or has the line
`acquired` still to read, does not end cleanly, since the only clean end is
the end of a channel that such a command keeps open. Hence a clean exit at
release proves that there was no earlier end. The refinement maps an acquisition
to `granted` as soon as the OS lock is taken; `ServiceStep` finds the service
action for each protocol action, with `Free` for both ways in which a helper that
has the lock may end, and a stutter for one that has not.

`PackageStore_proofs`, for any set of commands and of digests and any number of
failures:

- `StoreInvariant`: `Spec => []StoreInv`
- `StoreStaysSound`: `Spec => []StoreSound`
- `EntriesAppearIntact`: `Spec => AppearsIntact`
- `CommandsHarmNothing`: `Spec => OnlyUserHarms`

**Argument.** `StoreInv` is `StoreTypeOK`, `StagedFirst` (a publisher that renames
has staged a complete snapshot), `WorkersHold` (who works on the store has a held
session and, while the lock is reliable, is its holder) and `SeenIsTrue` (what a
worker saw of its entry still holds when it acts on it). The last is the one that
an overlap would break, so it speaks of reliable locks only; `OneWorker`, from
`WorkersHold`, keeps everyone else's steps from disturbing it. `AppearsIntact`
needs no lock: the rename is what makes the entry, and `StagedFirst` says of what.

`GitSource_proofs`, for any tags, commits, page size and bounds, over any list of
releases in which no tag is published twice:

- `SourceInvariant`: `Spec => []SourceInv`
- `SourceStaysTrue`: `Spec => []SourceIsTrue`
- `ListingStaysComplete`: `Spec => []ListingIsComplete`

**Argument.** `SeenIsCurrent` makes `seen` a superset of what is true now;
`CommitsAreTrue` carries each commit from the ref through listing, cache, fetch
and output, and `StepFits` says which fields are in use at which step.
`ListingFits` splits the tags of a listing into those that are still ahead in
the pages, wait for their commit, are listed, at work or kept. If nothing was
withdrawn they cover all that was there throughout; if nothing was published they are
disjoint. What is ahead is counted from the offset of the page, so a
publication or withdrawal shifts it: `Numbering` (counting the published
releases up to one of them numbers them without a gap) and the lemmas on
pages after it are what a page taken, and a list changed, come down to.

`ImportLifecycle_proofs`, for any finite sets of names of each kind:

- `ImportInvariant`: `Spec => []ImportInv`
- `ImportStaysSound`: `Spec => []ImportSound`
- `MarkerStaysComplete`: `Spec => []MarkerMeansComplete`
- `UserContentStays`: `Spec => UserContentKept`

**Argument.** `CommandFits` says how far a command is by what is in the containers
and in place, `RowFits` that a row whose commit did not happen names the accepted
state as its base, and `KeptShown` that a merge disturbs nothing it keeps. All
parts hold in any order of commands. That a sync spares the containers of
detached packages rests on `DetachRecoverable`, which it asks first: a detached
package that the row names and that is not in the directory yet makes it refuse
before it cleans.

`TargetCopies_proofs`, for any directories, targets, packages, versions and
bounds (it extends `Doctor`, so that it reaches what doctor says):

- `CopiesInvariant`: `Spec => []CopiesInv`
- `ImagesStayWhole`: `Spec => []TypeOK`
- `AcceptedStays`: `Spec => AcceptedNeverLost`
- `UsersKeepTheirContent`: `Spec => UserContentKept`
- `DoctorIsTransparent`: `DoctorSpec => Spec`
- `DoctorStaysRight`: `DoctorSpec => DoctorIsRight`

**Argument.** `CopiesTypeOK` says of every image (database, main file, backups) that
its rows refer to each other, since a restore may make any of them current.
`OpenFits` and `CommitFits` say what a command may rely on at each step: before
its commit the target has room for a generation, after it what it accepted is
what is to be shown, although a backup can replace the registry before and after
a command. `TodoFits` is what `UserContentKept` needs (nothing of the user's is on
the list of a command) and, with `ReportFits`, what makes a success healthy.
`DoctorInv` adds what doctor knows while others go on. Commands may move its target
on or give the path to another (`MovedOn`), and then the registry shows it. As
long as neither has happened, what doctor found in the directory is still there
(`Undone`), because whatever a command activates or repairs there is what the owner
of the path has accepted (`ShowsAccepted`): rows of pending operations may come
and go meanwhile. `Unmoved` is for the second half of the property: with nothing
written, all reads are of one moment.

`LocalProjections_proofs`, for any finite set of packages, any dependencies
between them, any first names that differ, and any bounds:

- `LocalInvariant`: `Spec => []LocalInv`
- `StateStaysSound`: `Spec => []StateSound`
- `UserContentStays`: `Spec => UserContentKept`
- `SuccessStaysAgreement`: `Spec => []SuccessMeansAgreement`

**Argument.** `Acceptable(accepted)` is what planning needs and gives back: names
are distinct, views are those the planner computes, and what is not a link to
the package itself is a copy. `MarkerFits` says that the marker is at most one
commit behind and agrees about every projection that looks the same, because
that is what tells a verified projection from a foreign one. `GoalFits`,
`RequestsFit`, `StepFits` and `ContainersFit` say of each step which state the
command aims at, what its stages and removals refer to, and that the
containers hold what it is to show. For `SuccessMeansAgreement` the invariant is
joined with `ShownFits`: every name that is not on the list shows the next state
or was touched by the user, and the list gets shorter. The reachable views are a
recursive function of the model; that they are found (`AllReachable`) follows
from `LeastElement`, the least-number principle, without an induction theorem.

`TargetLifecycle_proofs`, then about the commands. For any number of overlapping
commands, whoever holds the lock or has lost it:

- `LifecycleInvariant`: `Spec => []LifecycleInv`
- `LifecycleUsesRegistry`: `Spec => RegistrySpec`
- `OverlapHarmsNoRegistry`: `PendingSound`, `TablesConsistent` and
  `AcceptedNeverLost` hold of `Spec`

and for commands of which one works at a time (`[]OneAtATime`):

- `CommandsStayRight`: `Spec /\ []OneAtATime => []RightInv`
- `ReportsStayTrue`: `ReportsAreTrue`
- `MarkerStaysTruthful`: `MarkerTruthful`
- `OnlyAcceptedContentAppears`: `OnlyAcceptedAppears`
- `StagingStaysKnown`: `[]ContainersKnown`, every container is named by a pending
  row, but for the one without a manifest in which a repair swaps drift
- `StagingStaysAccounted`: `StagingAccounted`, where no drift repair is offered
- `CurrentMarkersHideNothing`: `MarkerLeavesNoOrphan`, if every change commits over a
  marker that is up to date (`CommitsCurrent`)
- `DirectoryFollowsRegistry`: `ImplementsAcceptedTarget`

and of the lock:

- `LockGivesOneAtATime`: `Spec /\ []HelpersLast => []OneAtATime`

**Argument.** `LifecycleUsesRegistry` is the composition: each step of a command
is one transaction of `MachineRegistry` or leaves the tables alone, so that
the registry theorems carry over and `RegistryInv` can be used in what follows.
`RightInv` then says of a command at every step that it aims at the state
which is accepted (`AimsRight`), that its plan, its containers and its rows are its
own (`PlanFits`, `StagedFits`, `RowsFit`), which names may still differ from the
goal (`Behind`), and from where on the marker is written (`Marked`). Kills,
failures and edits are steps like others, so what a dead command leaves is
what the next one starts from. The refinement maps the accepted state of the
abstract target to the row of the target that owns the directory
(`HereAccepted`), what it keeps aside to the retired projections in the
containers (`Aside`) and the names looked at to those that some command has
verified and is about to free (`AllLooked`). `TakesAway` says of each step that
frees a name that what goes is not accepted, and is the user's only in a repair
or if the command had looked at that name. It has one lemma per kind of step that
touches the directory.

`OneAtATime` is not the code's promise but what the lock gives as long as a held
session's client is the holder (`HelpersLast`), which is `LockGivesOneAtATime`.
`target_stale_lock` checks what happens without it: `NoLostUpdate` is a question
only there, and is not claimed as a theorem, since with one command at a time no
update could be lost. `StagingAccounted` as the run states it does not hold when
drift is repaired, since that container has no row (section 6); `ContainersKnown`
says exactly what is left then, and `StagingStaysAccounted` is its corollary. Both
follow from `AccountInv`: operation ids name one row, a row names all that its
command stages, and who deletes containers has all of them on its list.

`MarkerLeavesNoOrphan` speaks of projections that only an earlier, dead command knew
of. `OrphanInv` says who still knows them: a projection that is live and no longer
accepted stands in the marker (`OrphansKnown`) and, until the operation that
withdrew it is completed, in its row (`RowsKnowOrphans`); a command at work has it
among its removals or on its list, and has removed it when it comes to the marker
(`Sheds`). Every step keeps this but one, the commit of a change over a marker that
lags: it withdraws from the state of a generation that the marker never named. TLC
finds that behaviour with three failures (section 6). So `CurrentMarkersHideNothing`
has the missing fact as its hypothesis and nothing else: sync, recovery and repairs
may come in any order. The command line refuses to begin such a change
(`requireCurrentTargetCopy`); that the marker cannot fall behind between this gate
and the commit is not proved.

`Decisions_proofs`. About the operators, for every target, state, marker file and
requirement:

- `ImportUndoesExport`: `WholeFacts(target)` implies `RoundTrip`
- `MergeAddsOnly`: of two whole targets, `MergeOnlyAdds`
- `MarkerKeepsWholeState`: `WholeFacts(target)` implies `MarkerKeepsState`
- `RewritingKeepsWhatWasRead`: `RewritingKeepsMarker`, for every document whose tables
  are sequences
- `NothingUnasked`: of two states that were resolved (`WholeState`),
  `AppliesWhatWasAccepted`
- `RequirementsAdmitWhatTheySay`: `AdmitsTheInterval`, for numbers and pre-releases of
  any size
- `FoundIsASolution`: `FindsASolution`, for any sources and requirements
- `NewestIsFound`: `FindsTheNewest`, for the same
- `PrefetchIsEnough`: `PrefetchLosesNothing`, whichever repositories answer

and, for any sets of inputs that consist of these, the invariants of the run:

- `TransfersAlwaysKeepFacts`: `Spec => []TransfersKeepFacts`
- `MarkersAlwaysKeepState`: `Spec => []MarkersKeepState`
- `AcceptanceIsAlwaysAsked`: `Spec => []AcceptanceIsAsked`
- `ResolutionIsAlwaysRight`: `Spec => []ResolutionIsRight`

**Argument.** A target is *whole* when its state can be made from its own rows: an
accepted state of which no projection was forgotten. The planner then gives the
recorded projections again (`Reproducible`), whatever the dependencies are, and an
export is nothing but the rows it is made of: names determine renames and are
determined by them (`RenamesGiveNames`, `PlanOfNames`), and the manifest says no
more and no less than the facts. A merge keeps the views it finds because the
dependencies and the names of each package of either side are those of the merged
graph, and what it makes is whole again, so that transfers can follow one another.
A marker is a sequence of tables in any order; what it keeps is a set, and the
step between the two is that the order is a bijection. A comparison without deltas
means the same rows of both states, which is why a no-op needs no answer.
`GivenInputs` is the invariant that carries what was assumed of an input to the
step that decides. The assumptions on the inputs are evaluated by TLC for all
inputs of the run. `RequirementsAdmitWhatTheySay` rests on the order of
pre-releases being total (`PreReleasesOrdered`), then compares matcher and interval
for each operator and each number of parts. It takes words as numbered by their
place in the alphabet; scanning the text comes before.

The resolver. The theorems hold for any finite sets of packages and repositories,
for releases of which one version has one rank and whose snapshots hold packages
of their own repository only, with a version requirement on each dependency
(`WholeWorld`, `WholeRequest`; the parsers see to it). They need no induction over
graphs, only over numbers:

- *Passes close.* A growing series of subsets of a finite set stands still after
  as many steps as the set has members (`PassesClose`), because until then the
  i-th has i members. So `Required` is the least set that holds the roots and what
  its members require (`RequiredIsLeast`), and `Prefetched` is closed as well
  (`PrefetchedCloses`).
- *The search is well-defined.* A branch binds one repository more, so the number
  of free ones falls (`BranchesAreSmaller`); functions that satisfy the equation of
  the search on bindings with fewer than n free repositories extend to n
  (`SearchExists`). From then on `BranchIs` gives one level of the search.
- *Sound.* What succeeds is the answer of a leaf that extends the bindings it began
  from with eligible releases (`SuccessFinishes`), where nothing is unresolved and
  every constraint holds of every bound release (`FinishSolves`). Nothing smaller
  solves, because `Required` is least (`SolutionHasAll`).
- *Complete, newest first.* As long as the bindings agree with a solution, the
  branch neither fails (`AgreeingIsNotStuck`) nor loses the solution's release from
  the eligible ones (`SolutionIsACandidate`), which are never ambiguous; so either
  a newer one succeeds or the solution's branch does (`SolutionIsFound`,
  `NewestBranch`).
- *Prefetch.* What a search over the fetched repositories leaves unresolved is
  fetched or does not answer (`MissingIsFetched`), so with all others added each
  level gives the same (`SameSearch`).

**Only model-checked**: liveness and whatever needs ENABLED: `LockProgress`,
`OrderReturns`, `RepairHeals`, `Converges`, `AcquisitionEnds`. Fairness is out of
the prover's reach.

## 5. Findings

Where program and documents disagree, with a run that shows it.

1. `target_sync_stuck`. A change interrupted after an activation and before its
   marker leaves a target which every later sync refuses: sync takes the lagging
   marker as the baseline and finds a projection that is neither missing nor the
   baseline's. `docs/design/machine-registry-sqlite.md:331` says that the next
   operation syncs. `recoverInterruptedLifecycle` puts it in order, if it goes
   before any sync: a sync that comes first deletes the manifests it works from.

## 6. Observations

Behaviour that was met while modelling and that is in the models as the code has
it. Where a document says otherwise it is quoted.

*Not reachable from the command line.* No CLI command calls
`recoverInterruptedLifecycle`, `recoverInterruptedExactImport`,
`forgetDetachedProjection`, `rebindDetachedProjection`,
`pruneUnreachableDetachedBindings`, `repairAcceptedTargetState`,
`createRegistryBackup`, `restoreRegistryBackup` or
`repairTargetStateMarkerFromRegistry`. So an interrupted detach is not completed by
a sync from the CLI, unlike in
`test/integration/runtime/target/local-lifecycle-safety.test.ts:120`.

*Lifecycle.*
- A first install that died before its commit leaves a pending row and containers
  under a target id that no later command asks for
  (`docs/design/machine-registry-sqlite.md:325` says they are cleaned up).
- Called as a library, a change on a target whose marker lags writes the new
  marker over projections of the older generation that nothing will remove (three
  failures in a row show it). The CLI does not let such a change begin
  (`requireCurrentTargetCopy`).
- `removeManagedProjection` verifies a projection (`target-projection/remove.ts:22`),
  looks at its kind (`:39`) and then removes recursively (`:69-76`). A directory that
  the user puts in place of a copy in between is deleted for good; one in place of
  a link is kept, with an error. `activate` has the same window before its first
  rename, and deletes what it has retired when all went well.
- Sync writes the marker without asking the lock again
  (`local-lifecycle.ts:86`; `docs/design/skiloom-v0-product-contract.md:157` says
  that a command which has lost the lock stops producing protected side
  effects). The repair of a store entry after a long download has the same gap
  (`exact-state-maintenance.ts:259`).
- The containers of a drift repair are named by no pending row, so a death in a
  repair leaves one behind. A stale command may withdraw and show again accepted
  content while the next holder works; it shows nothing else.
- Neither the pending row nor the commit compares the accepted state with the one
  the command planned from (`lifecycle/requirement-change.ts` reads it once, later
  only asks the lock). So it rests on the exit event of a dead helper that no
  update is lost. A change that has a projection to stage or to remove awaits file
  operations between announcement and commit, and reads the event there. A
  change of the requirements alone does not wait for anything
  (`target-reconcile.ts:268-278`, `:344-447`): it can announce and commit over a state
  that the next holder of the lock committed meanwhile. TLC finds that as soon as
  `NoLostUpdate` asks it of such changes, too. `slipped` records it, since recovery
  may then bring back what the late change dropped.

*Local projections.* After a forget, every rename is refused and the target cannot
be exported, because the planner does not give the forgotten projection again.
Nothing can be merged into it either, unless the import brings the forgotten
projection; renaming a dependency of a detached package also stops a later merge. A
failed preparation in the recovery of a detach completes the pending row although
nothing was prepared.

*Import.*
- A sync that comes between an interrupted import and its recovery deletes the
  containers with the user's skills, which exist nowhere else (compare
  `test/integration/runtime/import/recovery/exact.test.ts:133`). Detached packages are
  safe: the recovery of an interrupted detach, with which a sync begins, takes
  their actions for those of a detach and refuses while one is missing from the
  directory (`detach-recovery.ts:86-94`).
- For the same reason an import with two detached packages that died while it
  cleaned up, after its marker, can be stuck: every sync refuses its row as ambiguous
  (`detach-recovery.ts:79-81`), and the import's recovery misses the manifest of a
  container that is gone (`RowLeft`). All is in place then, but the row stays.
- A merge whose early sync cleaned up behind the old marker stays refused by
  every later sync, like finding 1.
- If the registry refuses the commit, the containers of user payloads stay and
  the row that names them is completed (`orphans`).
- A crash in the cleanup makes a later import recovery fail on a missing manifest; a
  sync then puts it in order, if there is one detached package at most. Leftover
  containers of an import that died before its commit make the directory not empty,
  so a second import is refused.
- A git source can be exported only if a requirement asks for its ref directly.

*Copies, marker and registry.*
- Only a marker behind the registry stops a change; one that is ahead does not,
  although `docs/design/skiloom-v0-product-contract.md:258` calls that an anomaly
  which fails closed. Sync does refuse it, but repair replaces drift before its
  sync does.
- A fork interrupted between its commit and its marker leaves two ids at one
  directory, and every command refuses it until the user deletes the marker. A
  recover interrupted before its commit leaves a row of generation 0 which makes
  recover, sync, fork and install refuse; after it, deleting the marker lets a
  sync proceed.
- Recover leaves what the old marker managed and the new candidate lacks. A marker
  whose id the registry does not know does not stop an update in a registered
  directory.
- A restore that dies between removing the side files and copying the image leaves
  an older or torn main file; with a torn one every command fails until the next
  restore.
- Doctor reads without a lock. A change that begins, commits and activates between
  its reads is called healthy although its row is pending, or its marker is not
  written yet: the property asks the registry for what doctor read there, and TLC
  violates it without that condition.
- Doctor recommends `recover` for a pending operation, a location mismatch and a
  marker conflict of a target the registry knows, which `recover` refuses. It
  recommends `repair` for a marker that does not parse, which stops every command.
- The two builders of marker facts would differ for a forgotten renamed
  projection (see above); for every planned state they agree.

*Decisions.* The search considers pre-releases only for a repository whose
constraints already name one, so it is complete for stable releases
(`StableChoices`). A partial comparator such as `>=1.2` admits no pre-release, also when
another comparator of the requirement names it. A git source whose ref changed at
the same commit is no delta; the requirement set differs then.

*Sources.*
- A release whose commit has a submodule makes the whole repository unusable, as
  does one with invalid metadata. A release published between two pages appears
  twice, which the resolver reports as an ambiguous version; one that is withdrawn
  hides another. A repository with as many full pages as are read always fails.
- Apply and store repair use REST only. A repository that is reachable by ssh alone
  can be applied only out of the cache, although `source/github/cache/index.ts`
  says that acquisition must not depend on cache I/O.
- A reader may remove a good cache file that another wrote after it read a
  damaged one; that costs a download. The CLI passes no cancellation signal, and a
  git command has no timeout.
- With a source cache a caller's signal does not reach the requests for commit, tree
  and blobs (`withoutCacheRoot`, `source/github/cache/index.ts:168-179`): a
  cancelled acquisition goes on, tries again after timeouts, and may even succeed.
  `docs/planning/skiloom-v0-version-roadmap.md:144` lists cancellation for the
  transport.

## 7. What the models abstract, and what they leave out

- A verification and the rename or removal after it are one step in `ImportLifecycle`
  and `TargetCopies`. `TargetLifecycle` and `LocalProjections` have the window between
  them (`looked`, `raced`), in which the user may act.
- What the user puts in place of a projection differs from every package.
- Loops over names go in name order in the code, in any order here.
- A command that has lost its helper is told at an await (`WithinOverrun`): the
  effect under way when the helper ends may come back first, and during one that is
  begun afterwards the event is read. Steps without an effect (`AtOnce`) do not
  count. That Node reads the event in that time is assumed; it is no promise of
  Node or of the code.
- The session loses the lock here only because the helper ends; the code also
  gives up on protocol errors, which is the same for everyone else.
- `TargetLifecycle` takes the store as intact (`PackageStore` checks it apart) and has
  no copies at unregistered locations (`TargetCopies`), detached projections
  (`LocalProjections`) or fork transfer (`MachineRegistry`, `TargetCopies`).
- In `LocalProjections` the dependency graph and all digests stay the same, and the
  staging of one operation is one step. In `ImportLifecycle` a sync is one step, and
  what a merge does to facts is `ExactTransfer`'s. In `TargetCopies` the projections
  of a directory are reconciled name by name but not renamed in two steps.
- Sorting is left out where it only decides which of several errors is reported.
- In the store a verification is one step and a command handles one entry; staging
  directories of dead publishers stay for ever, as in the code.
- Doctor goes on reading after it has found something wrong, to list more; in the
  model the verdict ends it.
- How an upstream request fails matters only as far as the code tries again.
  Answers are well-formed or failures.
- A command begins after the user has accepted the plan, except in `Acceptance`,
  where acceptance is decided.

### Not modelled

- *Package discovery and snapshots* (`domain/discovery/`, `snapshot/`,
  `domain/package/`): parsing of metadata and hashing of files. Functions of bytes
  without state, order or choice; a model would repeat the code line by line.
- *Text of versions, coordinates, TOML, JSON and containers*: the scanners and
  writers. The models begin with what was read and end with what is written; a
  file that does not parse is a failure.
- *The rewriting of a copied projection* (`target-projection/transform.ts`): a copy
  is its digest and the view it was written with.
- *Catalog* (one read-only request, nothing depends on it) and *host observation*
  (probes of installed software; the rows they end in are in `MachineRegistry`).
- *Command line*: arguments, messages and formats. The gates a command passes
  before it starts are in `TargetCopies` and `Acceptance`.
- *`pruneUnreachableDetachedBindings`*: nothing calls it.

## 8. Plan

Done: registry and lock with their theorems; files, reconciliation and commands
of one target with the abstract target; the store; local projections; import and
merge; copies, recovery, maintenance and doctor; the pure decisions; sources.
Their safety is proved in eight modules, among it that the commands use the
registry as it is specified, implement the abstract target and leave nothing
behind that nobody knows of, and that transfers, markers, acceptance, requirements
and resolution are right for all inputs and not only for those the run enumerates.
Left:

1. `MarkerLeavesNoOrphan` for changes behind the gate of the command line: how far the
   marker can lag between `requireCurrentTargetCopy` and the commit.
2. `TargetPlan`: the preflight table as lemmas of its own; what the commands need of
   it is in `LocalProjections_proofs`.
