--------------------------- MODULE TargetCopies ---------------------------
(***************************************************************************)
(* One machine registry and several directories: what becomes of targets   *)
(* when directories are copied, markers or the registry are lost, old      *)
(* database images are migrated or restored, and commands die in between.  *)
(* The commands are install, the changes of an accepted target, sync,      *)
(* repair, recover and fork, the registry's own backup, migration and      *)
(* restore (src/src/cli/status.ts, cli/recovery, cli/maintenance,          *)
(* runtime/registry/maintenance.ts,                                        *)
(* runtime/orchestration/lifecycle/recovery/candidate*.ts,                 *)
(* runtime/orchestration/exact-state-maintenance/copied-target.ts).        *)
(*                                                                         *)
(* Commands do not overlap (OperationLock), all projections are managed    *)
(* and named after their packages (LocalProjections has the rest), staging *)
(* and the races of one activation are TargetReconcile's.  Which state a   *)
(* candidate resolves to is free (Resolver).                               *)
(***************************************************************************)
EXTENDS Integers, FiniteSets, Functions

CONSTANTS Path, TargetId, Package, Version,
          Nothing,         \* the package is not accepted, the name is free
          Foreign,         \* something Skiloom never wrote
          OldSchema,       \* the registry may begin as a version 0 database
          MaxGeneration,   \* bound on accepted states of a target
          MaxMishaps,      \* bound on dying and failing commands, backups,
                           \* restores, and what users do to directories
                           \* and registry
          MaxBackups       \* bound on backups, those of migrations included

ASSUME CopiesAssumption ==
  /\ Nothing \notin TargetId \cup Version /\ Foreign \notin Version \cup {Nothing}
  /\ MaxGeneration \in Nat \ {0} /\ MaxMishaps \in Nat /\ MaxBackups \in Nat

VARIABLES
  db,        \* what opening the registry shows: main file and WAL
  main,      \* what the main file alone holds
  backups,   \* images in ~/.skiloom/backups
  dirs,      \* path -> [shown, marker]
  cmd,       \* the command that runs
  reported,  \* the last command, if it succeeded
  mishaps

registry == <<db, main, backups>>
vars == <<registry, dirs, cmd, reported, mishaps>>

State == [Package -> Version \cup {Nothing}]
Shown == [Package -> Version \cup {Nothing, Foreign}]
NoState == [p \in Package |-> Nothing]
NoMarker == [id |-> Nothing, gen |-> 0, state |-> NoState]
NoFile == [kind |-> "none"]
Torn == [kind |-> "torn"]
Rows == [kind |-> "image",
         schema |-> 1,
         target |-> [t \in {} |-> 0],      \* id -> [gen, state]
         location |-> [p \in {} |-> 0],    \* path -> id
         pending |-> [t \in {} |-> 0]]     \* id -> directory of the staging
Idle == [kind |-> "none", step |-> "none"]

Kinds == {"install", "change", "sync", "repair", "recover", "fork", "restore"}
Steps == {"open", "migrate", "decide", "commit", "sweep", "refused", "activate", "marker",
          "finish", "wipe", "copy"}

Put(f, k, v) == [x \in DOMAIN f \cup {k} |-> IF x = k THEN v ELSE f[x]]
Drop(f, k) == Restrict(f, DOMAIN f \ {k})

Known(t) == t \in DOMAIN db.target
Marker(p) == dirs[p].marker
Readable == db.kind = "image"

(* readCliStatus: lookupTargetIds looks for the marker's id and for the    *)
(* owner of the path.                                                      *)
TargetIdsAt(p) ==
  IF ~Readable THEN {}
  ELSE {t \in DOMAIN db.target : t = Marker(p).id}
         \cup {db.location[q] : q \in {q \in DOMAIN db.location : q = p}}

Registered(p) == \E t \in TargetIdsAt(p) : TRUE
TargetAt(p) == CHOOSE t \in TargetIdsAt(p) : TRUE

(* A torn database fails every status, two ids are ambiguous.              *)
StatusOk(p) == db.kind # "torn" /\ Cardinality(TargetIdsAt(p)) <= 1

(* requireCurrentTargetCopy: only a marker that lags is refused.           *)
CurrentCopy(p) ==
  Registered(p) => ~(/\ Marker(p).id = TargetAt(p)
                     /\ Marker(p).gen < db.target[TargetAt(p)].gen)

(* preflightTargetOwnership: what is taken for Skiloom's own must show its *)
(* baseline or be missing, every other wanted name must be free.           *)
PreflightOk(base, desired, shown) ==
  \A k \in Package :
    IF base[k] # Nothing THEN shown[k] \in {base[k], Nothing}
                         ELSE desired[k] = Nothing \/ shown[k] = Nothing

(* The names the activation is to change.                                  *)
Changes(base, desired, shown) ==
  {k \in Package : /\ base[k] # Nothing \/ desired[k] # Nothing
                   /\ shown[k] # desired[k]}

OldRows(t, p, s) ==
  [Rows EXCEPT !.schema = 0,
               !.target = Put(@, t, [gen |-> 1, state |-> s]),
               !.location = Put(@, p, t)]

(* No registry yet, or one target that a version 0 database holds.         *)
Init ==
  /\ \/ /\ db = NoFile
        /\ dirs = [p \in Path |-> [shown |-> NoState, marker |-> NoMarker]]
     \/ /\ OldSchema
        /\ \E t \in TargetId, p \in Path, s \in State \ {NoState} :
             /\ db = OldRows(t, p, s)
             /\ dirs = [q \in Path |->
                  IF q = p
                    THEN [shown |-> s, marker |-> [id |-> t, gen |-> 1, state |-> s]]
                    ELSE [shown |-> NoState, marker |-> NoMarker]]
  /\ main = db
  /\ backups = {}
  /\ cmd = Idle /\ reported = Idle
  /\ mishaps = 0

----------------------------------------------------------------------------
(* A command reads the status, takes the lock and opens the registry.      *)
Running(kind, p, t) ==
  [kind |-> kind, path |-> p, id |-> t, step |-> "open",
   source |-> Nothing,        \* the target a fork leaves
   desired |-> NoState, todo |-> {}]

Start(kind, p, t) ==
  /\ cmd = Idle /\ StatusOk(p)
  /\ cmd' = Running(kind, p, t)
  /\ reported' = Idle
  /\ UNCHANGED <<registry, dirs, mishaps>>

(* executeCliInstall: a marker without registry entry is for recover.      *)
StartInstall(p) == ~Registered(p) /\ Marker(p) = NoMarker /\ Start("install", p, Nothing)

(* install, update, remove and the local commands on an accepted target.   *)
StartChange(p) == Registered(p) /\ CurrentCopy(p) /\ Start("change", p, TargetAt(p))

StartSync(p) == Registered(p) /\ Start("sync", p, TargetAt(p))
StartRepair(p) == Registered(p) /\ CurrentCopy(p) /\ Start("repair", p, TargetAt(p))
StartRecover(p) == Marker(p) # NoMarker /\ Start("recover", p, Marker(p).id)
StartFork(p) == Marker(p) # NoMarker /\ Start("fork", p, Marker(p).id)

At(step) == cmd.step = step
Goto(step) == cmd' = [cmd EXCEPT !.step = step]

(* Mutant: a database of version 0 is taken for a new one.                 *)
VersionIsZero == db = NoFile \/ (Readable /\ db.schema = 0)

(* prepareMachineRegistry: version 0 without tables.                       *)
Uninitialised == db = NoFile

OpenFresh ==
  /\ At("open") /\ Uninitialised
  /\ db' = Rows
  /\ Goto("decide")
  /\ UNCHANGED <<main, backups, dirs, reported, mishaps>>

OpenCurrent ==
  /\ At("open") /\ Readable /\ db.schema = 1
  /\ Goto("decide")
  /\ UNCHANGED <<registry, dirs, reported, mishaps>>

(* A database of version 0 is backed up before it is migrated.             *)
OpenOld ==
  /\ At("open") /\ Readable /\ db.schema = 0
  /\ backups' = backups \cup {db}
  /\ Goto("migrate")
  /\ UNCHANGED <<db, main, dirs, reported, mishaps>>

MigrateZeroToOne ==
  /\ At("migrate")
  /\ db' = [db EXCEPT !.schema = 1]
  /\ Goto("decide")
  /\ UNCHANGED <<main, backups, dirs, reported, mishaps>>

(* Closing the last connection folds the WAL into the main file.           *)
Close == main' = db' /\ cmd' = Idle

(* The network fails, the user declines, a check refuses the rest.         *)
Refuse ==
  /\ At("decide")
  /\ UNCHANGED db /\ Close
  /\ UNCHANGED <<backups, dirs, reported, mishaps>>

----------------------------------------------------------------------------
(* Pending rows: one of a target blocks every other operation on it.       *)
BeginRow(t, p) ==
  /\ t \notin DOMAIN db.pending
  /\ db' = [db EXCEPT !.pending = Put(@, t, p),
                      !.target = IF t \in DOMAIN @ THEN @
                                 ELSE Put(@, t, [gen |-> 0, state |-> NoState])]

(* Mutant: the target of a row goes with it, accepted or not.              *)
CompletedWithTarget(image, t) ==
  [image EXCEPT !.pending = Drop(@, t),
                !.target = IF t \in DOMAIN image.pending THEN Drop(@, t) ELSE @]

(* completePendingOperation takes a zero row nobody needs along.           *)
Completed(image, t) ==
  [image EXCEPT !.pending = Drop(@, t),
                !.target = IF /\ t \in DOMAIN image.pending
                              /\ @[t].gen = 0
                              /\ \A p \in DOMAIN image.location : image.location[p] # t
                             THEN Drop(@, t) ELSE @]

Prepared(t, base, desired) ==
  cmd' = [cmd EXCEPT !.step = "commit", !.id = t, !.desired = desired,
                     !.todo = Changes(base, desired, dirs[cmd.path].shown)]

(* Stages for a new state of target t.                                     *)
Propose(t, base, desired) ==
  /\ PreflightOk(base, desired, dirs[cmd.path].shown)
  /\ BeginRow(t, cmd.path)
  /\ UNCHANGED <<main, backups, dirs, reported, mishaps>>

(* Random UUIDs are new everywhere.                                        *)
FreshId(t) ==
  /\ ~Known(t)
  /\ \A p \in Path : Marker(p).id # t
  /\ \A b \in backups : t \notin DOMAIN b.target

(* executeFirstAcceptedInstall.                                            *)
DecideInstall(t, s) ==
  /\ At("decide") /\ cmd.kind = "install"
  /\ FreshId(t)
  /\ Propose(t, NoState, s)
  /\ Prepared(t, NoState, s)

(* applyAcceptedRequirementChange: it does not read the marker.            *)
DecideChange(s) ==
  LET t == cmd.id IN
  /\ At("decide") /\ cmd.kind = "change"
  /\ cmd.path \in DOMAIN db.location /\ db.location[cmd.path] = t
  /\ db.target[t].gen < MaxGeneration /\ s # db.target[t].state
  /\ Propose(t, db.target[t].state, s)
  /\ Prepared(t, db.target[t].state, s)

(* Mutant: recovery takes whatever it finds under its names for its own.   *)
OwnedAnyhow(desired, shown) ==
  [k \in Package |-> IF desired[k] # Nothing THEN shown[k] ELSE Nothing]

(* prepareRecoveryTarget: what shows the new view already is managed.      *)
OwnedAlready(desired, shown) ==
  [k \in Package |-> IF shown[k] = desired[k] THEN desired[k] ELSE Nothing]

(* selectRecoveryIntent for recover: the registry must not know the id.    *)
DecideRecover(s) ==
  LET base == OwnedAlready(s, dirs[cmd.path].shown) IN
  /\ At("decide") /\ cmd.kind = "recover"
  /\ ~Known(cmd.id)
  /\ Propose(cmd.id, base, s)
  /\ Prepared(cmd.id, base, s)

(* For fork: a directory that is current where it is registered stays, and *)
(* a marker that is ahead is a conflict.                                   *)
DecideFork(t, s) ==
  LET base == OwnedAlready(s, dirs[cmd.path].shown)
      here == cmd.path \in DOMAIN db.location /\ db.location[cmd.path] = cmd.id
  IN /\ At("decide") /\ cmd.kind = "fork"
     /\ Known(cmd.id) /\ FreshId(t)
     /\ ~(here /\ Marker(cmd.path).gen = db.target[cmd.id].gen)
     /\ Marker(cmd.path).gen <= db.target[cmd.id].gen
     /\ Propose(t, base, s)
     /\ cmd' = [cmd EXCEPT !.step = "commit", !.id = t, !.desired = s,
                           !.source = IF here THEN cmd.id ELSE Nothing,
                           !.todo = Changes(base, s, dirs[cmd.path].shown)]

(* insertLocations: a path has one owner; only a fork takes it over.       *)
LocationFree ==
  \A p \in DOMAIN db.location : p = cmd.path => db.location[p] \in {cmd.id, cmd.source}

(* commitAcceptedState.                                                    *)
Commit ==
  /\ At("commit") /\ LocationFree
  /\ db' = [db EXCEPT !.target[cmd.id] = [gen |-> @.gen + 1, state |-> cmd.desired],
                      !.location = Put(@, cmd.path, cmd.id)]
  /\ Goto("activate")
  /\ UNCHANGED <<main, backups, dirs, reported, mishaps>>

(* Staging failed or the registry refused: the pending row is completed.   *)
GiveUp ==
  /\ At("commit") \/ At("refused")
  /\ db' = Completed(db, cmd.id) /\ Close
  /\ UNCHANGED <<backups, dirs, reported, mishaps>>

Activate(k) ==
  /\ At("activate") /\ k \in cmd.todo
  /\ dirs' = [dirs EXCEPT ![cmd.path].shown[k] = cmd.desired[k]]
  /\ cmd' = [cmd EXCEPT !.todo = @ \ {k}]
  /\ UNCHANGED <<registry, reported, mishaps>>

WriteMarker ==
  dirs' = [dirs EXCEPT ![cmd.path].marker =
             [id |-> cmd.id, gen |-> db.target[cmd.id].gen, state |-> cmd.desired]]

Report == reported' = [path |-> cmd.path, id |-> cmd.id]

(* A change writes the marker and then completes its row.                  *)
MarkChange ==
  /\ At("activate") /\ cmd.todo = {} /\ cmd.kind # "sync"
  /\ WriteMarker
  /\ Goto("finish")
  /\ UNCHANGED <<registry, reported, mishaps>>

FinishChange ==
  /\ At("finish")
  /\ db' = Completed(db, cmd.id) /\ Close
  /\ Report
  /\ UNCHANGED <<backups, dirs, mishaps>>

----------------------------------------------------------------------------
(* readExactTargetMarkerContext: a marker that lags says what Skiloom left *)
(* in this copy.                                                           *)
SyncBaseline(p, t) ==
  IF Marker(p) # NoMarker /\ Marker(p).gen < db.target[t].gen
    THEN Marker(p).state ELSE db.target[t].state

(* repairManagedTargetDrift: the user asked to have drift replaced.        *)
RepairDrift ==
  LET accepted == db.target[cmd.id].state IN
  /\ At("decide") /\ cmd.kind = "repair"
  /\ cmd.path \in DOMAIN db.location /\ db.location[cmd.path] = cmd.id
  /\ dirs' = [dirs EXCEPT ![cmd.path].shown =
       [k \in Package |-> IF accepted[k] = Nothing \/ @[k] = Nothing THEN @[k]
                                                                    ELSE accepted[k]]]
  /\ cmd' = [cmd EXCEPT !.kind = "sync"]
  /\ UNCHANGED <<registry, reported, mishaps>>

(* observeTargetLocation: it is registered before anything is touched.     *)
SyncedLocation == Put(db.location, cmd.path, cmd.id)

(* observeCurrentTarget looks at the names of the baseline alone.          *)
Observed(base, shown) == [k \in Package |-> IF base[k] = Nothing THEN Nothing ELSE shown[k]]

(* prepareAcceptedTarget.                                                  *)
DecideSync ==
  LET t == cmd.id
      accepted == db.target[t].state
      base == SyncBaseline(cmd.path, t)
      observed == Observed(base, dirs[cmd.path].shown)
  IN /\ At("decide") /\ cmd.kind = "sync"
     /\ Marker(cmd.path) # NoMarker =>
          Marker(cmd.path).id = t /\ Marker(cmd.path).gen <= db.target[t].gen
     /\ PreflightOk(base, accepted, observed)
     /\ LocationFree
     /\ db' = [db EXCEPT !.location = SyncedLocation]
     /\ cmd' = [cmd EXCEPT !.step = "sweep", !.desired = accepted,
                           !.todo = Changes(base, accepted, observed)]
     /\ UNCHANGED <<main, backups, dirs, reported, mishaps>>

(* verifyCurrentBeforeStaging: a new name must be free.                    *)
Occupied ==
  {k \in cmd.todo : /\ SyncBaseline(cmd.path, cmd.id)[k] = Nothing
                    /\ dirs[cmd.path].shown[k] # Nothing}

(* cleanupPendingTargetStaging, then the row of this reconciliation and    *)
(* its staging; the staging of another directory is refused.               *)
Sweep ==
  /\ At("sweep")
  /\ cmd.id \in DOMAIN db.pending => db.pending[cmd.id] = cmd.path
  /\ db' = [db EXCEPT !.pending =
              IF cmd.todo = {} THEN Drop(@, cmd.id) ELSE Put(@, cmd.id, cmd.path)]
  /\ Goto(IF Occupied = {} THEN "activate" ELSE "refused")
  /\ UNCHANGED <<main, backups, dirs, reported, mishaps>>

SweepElsewhere ==
  /\ At("sweep")
  /\ cmd.id \in DOMAIN db.pending /\ db.pending[cmd.id] # cmd.path
  /\ UNCHANGED db /\ Close
  /\ UNCHANGED <<backups, dirs, reported, mishaps>>

(* A sync completes its row and then writes the marker.                    *)
CompleteSync ==
  /\ At("activate") /\ cmd.todo = {} /\ cmd.kind = "sync"
  /\ db' = Completed(db, cmd.id)
  /\ Goto("marker")
  /\ UNCHANGED <<main, backups, dirs, reported, mishaps>>

MarkSync ==
  /\ At("marker")
  /\ WriteMarker
  /\ UNCHANGED db /\ Close
  /\ Report
  /\ UNCHANGED <<backups, mishaps>>

----------------------------------------------------------------------------
(* What happens to a machine rarely: commands that die, users who copy,    *)
(* edit and lose things, restores.                                         *)
Mishap == mishaps < MaxMishaps /\ mishaps' = mishaps + 1

(* createRegistryBackup.                                                   *)
CreateBackup ==
  /\ cmd = Idle /\ Readable /\ Mishap
  /\ Cardinality(backups) < MaxBackups
  /\ backups' = backups \cup {db}
  /\ UNCHANGED <<db, main, dirs, cmd, reported>>

(* restoreRegistryBackup: the WAL goes before the image is copied.         *)
StartRestore(b) ==
  /\ cmd = Idle /\ Mishap
  /\ cmd' = [kind |-> "restore", step |-> "wipe", image |-> b]
  /\ reported' = Idle
  /\ UNCHANGED <<registry, dirs>>

RemoveWal ==
  /\ At("wipe")
  /\ db' = main
  /\ Goto("copy")
  /\ UNCHANGED <<main, backups, dirs, reported, mishaps>>

CopyImage ==
  /\ At("copy")
  /\ db' = cmd.image /\ Close
  /\ UNCHANGED <<backups, dirs, reported, mishaps>>

----------------------------------------------------------------------------
(* The process dies; the WAL may have been folded in, fully or in part.    *)
Crash ==
  /\ cmd # Idle /\ Mishap
  /\ cmd' = Idle
  /\ main' \in IF main = db THEN {main} ELSE {main, db, Torn}
  /\ UNCHANGED <<db, backups, dirs, reported>>

(* An effect on the directory fails and the command returns the error.     *)
Fail ==
  /\ At("activate") \/ At("marker") \/ At("finish")
  /\ Mishap
  /\ UNCHANGED db /\ Close
  /\ UNCHANGED <<backups, dirs, reported>>

UserAct ==
  /\ cmd = Idle /\ Mishap
  /\ reported' = Idle
  /\ UNCHANGED <<backups, cmd>>

(* cp -r: the marker comes along.                                          *)
CopyDirectory(p, q) ==
  /\ UserAct
  /\ dirs' = [dirs EXCEPT ![q] = dirs[p]]
  /\ UNCHANGED <<db, main>>

Edit(p, k, content) ==
  /\ UserAct
  /\ dirs' = [dirs EXCEPT ![p].shown[k] = content]
  /\ UNCHANGED <<db, main>>

LoseMarker(p) ==
  /\ UserAct
  /\ dirs' = [dirs EXCEPT ![p].marker = NoMarker]
  /\ UNCHANGED <<db, main>>

LoseRegistry ==
  /\ UserAct
  /\ db' = NoFile /\ main' = NoFile
  /\ UNCHANGED dirs

Starts(p) ==
  StartInstall(p) \/ StartChange(p) \/ StartSync(p) \/ StartRepair(p) \/ StartRecover(p)
    \/ StartFork(p)

Decides ==
  \/ \E s \in State :
       \/ DecideChange(s)
       \/ DecideRecover(s)
       \/ \E t \in TargetId : (s # NoState /\ DecideInstall(t, s)) \/ DecideFork(t, s)
  \/ RepairDrift
  \/ DecideSync

Next ==
  \/ \E p \in Path : Starts(p)
  \/ OpenFresh \/ OpenCurrent \/ OpenOld \/ MigrateZeroToOne
  \/ Refuse \/ Decides \/ Commit \/ GiveUp
  \/ \E k \in Package : Activate(k)
  \/ MarkChange \/ FinishChange
  \/ Sweep \/ SweepElsewhere \/ CompleteSync \/ MarkSync
  \/ CreateBackup
  \/ \E b \in backups : StartRestore(b)
  \/ RemoveWal \/ CopyImage
  \/ Crash \/ Fail
  \/ \E p \in Path, q \in Path : p # q /\ CopyDirectory(p, q)
  \/ \E p \in Path, k \in Package, c \in {Nothing, Foreign} :
       dirs[p].shown[k] # c /\ Edit(p, k, c)
  \/ \E p \in Path : Marker(p) # NoMarker /\ LoseMarker(p)
  \/ db # NoFile /\ LoseRegistry

Spec == Init /\ [][Next]_vars

----------------------------------------------------------------------------
ImageOK(image) ==
  \/ image \in {NoFile, Torn}
  \/ /\ DOMAIN image.target \subseteq TargetId
     /\ \A t \in DOMAIN image.target :
          image.target[t].gen \in 0 .. MaxGeneration /\ image.target[t].state \in State
     /\ DOMAIN image.location \subseteq Path
     /\ DOMAIN image.pending \subseteq DOMAIN image.target
     /\ \A p \in DOMAIN image.location :
          /\ image.location[p] \in DOMAIN image.target
          /\ image.target[image.location[p]].gen >= 1

(* Values are in range, and every image the machine may come to open is    *)
(* whole: a location belongs to an accepted target, a row to a target.     *)
TypeOK ==
  /\ \A image \in {db, main} \cup backups : ImageOK(image)
  /\ \A p \in Path : dirs[p].shown \in Shown /\ Marker(p).gen \in 0 .. MaxGeneration
  /\ cmd = Idle \/ (cmd.kind \in Kinds /\ cmd.step \in Steps)

(* A command never changes what the user put under a name, whatever        *)
(* copies, lost markers and older databases it meets; only repair, which   *)
(* is asked to, replaces drift.                                            *)
UserContentKept ==
  [][\A p \in Path, k \in Package :
       /\ cmd # Idle
       /\ dirs[p].shown[k] = Foreign
       /\ cmd.kind # "repair"
       => dirs'[p].shown[k] = Foreign]_vars

(* Opening, migrating, recovering, forking and synchronising never forget  *)
(* what a target has accepted nor take it back to an older generation;     *)
(* only a restore does.                                                    *)
AcceptedNeverLost ==
  [][cmd # Idle /\ cmd.kind # "restore" /\ Readable =>
       /\ db'.kind = "image"
       /\ \A t \in DOMAIN db.target :
            db.target[t].gen >= 1 =>
              /\ t \in DOMAIN db'.target
              /\ \/ db'.target[t] = db.target[t]
                 \/ db'.target[t].gen = db.target[t].gen + 1]_vars
=============================================================================
