---------------------------- MODULE PackageStore ----------------------------
(***************************************************************************)
(* The package store: one immutable directory per content digest, shared   *)
(* by every target of the machine (src/src/runtime/store.ts).  A publisher *)
(* builds the entry aside and renames it; a repair removes a damaged entry *)
(* file by file and publishes it again.  Whoever does so started with the  *)
(* operation lock, but looks at it no more until the entry is done.        *)
(*                                                                         *)
(* A verification is one step: it reads an entry that others only take     *)
(* files from, or replace as a whole.  A command handles one entry here.   *)
(* The staging directory of a publisher that died is forgotten: its name   *)
(* is random and nothing in the code looks for it again.                   *)
(***************************************************************************)
EXTENDS LockService, Integers

CONSTANTS Digest,        \* content digests, the keys of the store
          Kinds,         \* what commands do: "publish", "repair"
          MaxFailures    \* bound on deaths, failed effects, lost locks and
                         \* damage done by the user

ASSUME BoundAssumption == MaxFailures \in Nat

VARIABLES entry,     \* digest -> what is at its path
          staged,    \* the staging directory of each client
          work,      \* what each client is doing
          failures,
          reliable,  \* whether every helper lives as long as its command
          damaged    \* digests damaged since the current command started

storeVars == <<entry, staged, work, failures, reliable, damaged>>
vars == <<storeVars, lockVars>>

Entry == {"absent", "empty", "partial", "intact", "corrupt"}

Steps == {"check", "acquire", "recheck", "remove", "exists", "verify",
          "build", "rename", "raced", "cleanup", "done"}

NoWork == [kind |-> "none"]

Working == [kind: Kinds, step: Steps, digest: Digest, result: {"none", "ok", "failed"}]

StoreTypeOK ==
  /\ entry \in [Digest -> Entry]
  /\ staged \in [Client -> {"none", "partial", "full"}]
  /\ work \in [Client -> Working \cup {NoWork}]
  /\ failures \in 0..MaxFailures
  /\ reliable \in BOOLEAN
  /\ damaged \subseteq Digest
  /\ LockTypeOK

Init ==
  /\ entry = [d \in Digest |-> "absent"]
  /\ staged = [c \in Client |-> "none"]
  /\ work = [c \in Client |-> NoWork]
  /\ failures = 0
  /\ reliable \in BOOLEAN
  /\ damaged = {}
  /\ LockInit

Busy(c) == work[c] # NoWork

At(c, step) == Busy(c) /\ work[c].step = step

There(c) == entry[work[c].digest]

GoTo(c, step) == work' = [work EXCEPT ![c].step = step]

(* The publisher has its result and goes on to its finally block.          *)
Settle(c, result) ==
  work' = [work EXCEPT ![c].result = result,
             ![c].step = IF staged[c] = "none" THEN "done" ELSE "cleanup"]

Becomes(c, what) == entry' = [entry EXCEPT ![work[c].digest] = what]

----------------------------------------------------------------------------
(* publishLifecycleCandidateSnapshots and repairExactAcceptedTarget look   *)
(* at the lock before the first entry.                                     *)
Start(c, kind, d) ==
  /\ kind \in Kinds
  /\ CheckHeld(c)
  /\ ~Busy(c)
  /\ work' = [work EXCEPT ![c] =
       [kind |-> kind, digest |-> d, result |-> "none",
        step |-> IF kind = "repair" THEN "check" ELSE "exists"]]
  /\ damaged' = {}
  /\ UNCHANGED <<entry, staged, failures, lockVars>>

(* Repair verifies the entry, acquires the content of a damaged one from   *)
(* its source, which may take long, and verifies the entry again.          *)
Check(c) ==
  /\ At(c, "check")
  /\ IF There(c) = "intact" THEN Settle(c, "ok") ELSE GoTo(c, "acquire")
  /\ UNCHANGED <<entry, staged, failures, damaged, lockVars>>

Acquire(c) ==
  /\ At(c, "acquire")
  /\ GoTo(c, "recheck")
  /\ UNCHANGED <<entry, staged, failures, damaged, lockVars>>

(* Mutant: only a missing entry is repaired.                               *)
RecheckMissing(c) ==
  /\ At(c, "recheck")
  /\ IF There(c) = "absent" THEN GoTo(c, "exists") ELSE Settle(c, "failed")
  /\ UNCHANGED <<entry, staged, failures, damaged, lockVars>>

Recheck(c) ==
  /\ At(c, "recheck")
  /\ IF There(c) = "intact" THEN Settle(c, "ok") ELSE GoTo(c, "remove")
  /\ UNCHANGED <<entry, staged, failures, damaged, lockVars>>

(* removeStoreEntryPath: a directory loses its files and then itself; what *)
(* is not a directory goes at once.                                        *)
Remove(c) ==
  /\ At(c, "remove")
  /\ \/ There(c) \in {"intact", "corrupt", "partial"} /\ Becomes(c, "partial")
        /\ UNCHANGED work
     \/ There(c) \in {"intact", "corrupt", "partial"} /\ Becomes(c, "empty")
        /\ UNCHANGED work
     \/ There(c) \in {"corrupt", "empty"} /\ Becomes(c, "absent")
        /\ GoTo(c, "exists")
     \/ There(c) = "absent" /\ GoTo(c, "exists") /\ UNCHANGED entry
  /\ UNCHANGED <<staged, failures, damaged, lockVars>>

(* Mutant: publishing replaces what is there.                              *)
ExistsReplaced(c) ==
  /\ At(c, "exists")
  /\ GoTo(c, IF There(c) = "absent" THEN "build" ELSE "remove")
  /\ UNCHANGED <<entry, staged, failures, damaged, lockVars>>

(* publishPackageSnapshot: an entry that exists is verified, not replaced. *)
Exists(c) ==
  /\ At(c, "exists")
  /\ GoTo(c, IF There(c) = "absent" THEN "build" ELSE "verify")
  /\ UNCHANGED <<entry, staged, failures, damaged, lockVars>>

(* Mutant: an entry that exists will do.                                   *)
VerifyNothing(c) ==
  /\ At(c, "verify")
  /\ Settle(c, "ok")
  /\ UNCHANGED <<entry, staged, failures, damaged, lockVars>>

(* Mutant: the status of the entry is taken for the result.                *)
VerifyStatus(c) ==
  /\ At(c, "verify")
  /\ Settle(c, IF There(c) = "intact" THEN "existing" ELSE "failed")
  /\ UNCHANGED <<entry, staged, failures, damaged, lockVars>>

Verify(c) ==
  /\ At(c, "verify")
  /\ Settle(c, IF There(c) = "intact" THEN "ok" ELSE "failed")
  /\ UNCHANGED <<entry, staged, failures, damaged, lockVars>>

(* Mutant: the entry is renamed before it is complete.                     *)
BuildPartly(c) ==
  /\ At(c, "build")
  /\ staged' = [staged EXCEPT ![c] = "partial"]
  /\ GoTo(c, "rename")
  /\ UNCHANGED <<entry, failures, damaged, lockVars>>

(* writeStagingEntry, then a verification of what was written.             *)
Build(c) ==
  /\ At(c, "build")
  /\ IF staged[c] = "none"
       THEN staged' = [staged EXCEPT ![c] = "partial"] /\ UNCHANGED work
       ELSE staged' = [staged EXCEPT ![c] = "full"] /\ GoTo(c, "rename")
  /\ UNCHANGED <<entry, failures, damaged, lockVars>>

(* The rename replaces nothing but an empty directory, and on Windows not  *)
(* even that.                                                              *)
Rename(c) ==
  /\ At(c, "rename")
  /\ \/ /\ There(c) \in {"absent", "empty"}
        /\ Becomes(c, IF staged[c] = "full" THEN "intact" ELSE "partial")
        /\ staged' = [staged EXCEPT ![c] = "none"]
        /\ work' = [work EXCEPT ![c].result = "ok", ![c].step = "cleanup"]
     \/ /\ There(c) # "absent"
        /\ GoTo(c, "raced")
        /\ UNCHANGED <<entry, staged>>
  /\ UNCHANGED <<failures, damaged, lockVars>>

(* Another publisher was first: its entry will do if it verifies.          *)
Raced(c) ==
  /\ At(c, "raced")
  /\ Settle(c, IF There(c) = "intact" THEN "ok" ELSE "failed")
  /\ UNCHANGED <<entry, staged, failures, damaged, lockVars>>

Cleanup(c) ==
  /\ At(c, "cleanup")
  /\ staged' = [staged EXCEPT ![c] = "none"]
  /\ GoTo(c, "done")
  /\ UNCHANGED <<entry, failures, damaged, lockVars>>

Return(c) ==
  /\ work' = [work EXCEPT ![c] = NoWork]
  /\ staged' = [staged EXCEPT ![c] = "none"]
  /\ Close(c)

Done(c) == At(c, "done") /\ Return(c) /\ UNCHANGED <<entry, failures, damaged>>

(* The command dies, or an effect fails, and its helper ends later.        *)
Stop(c) ==
  /\ Busy(c)
  /\ failures < MaxFailures
  /\ failures' = failures + 1
  /\ Return(c)
  /\ UNCHANGED <<entry, damaged>>

(* A linked projection leads into the store: the user can damage it.       *)
UserDamage(d) ==
  /\ entry[d] = "intact"
  /\ failures < MaxFailures
  /\ failures' = failures + 1
  /\ entry' \in {[entry EXCEPT ![d] = what] : what \in {"corrupt", "partial", "absent"}}
  /\ damaged' = damaged \cup {d}
  /\ UNCHANGED <<staged, work, lockVars>>

WorkStep(c) ==
  \/ Check(c) \/ Acquire(c) \/ Recheck(c) \/ Remove(c) \/ Exists(c) \/ Verify(c)
  \/ Build(c) \/ Rename(c) \/ Raced(c) \/ Cleanup(c) \/ Done(c)

StartStep(c) == \E kind \in Kinds, d \in Digest : Start(c, kind, d)

LockStep(c) ==
  \/ /\ Grant(c) \/ Open(c) \/ NoticeLoss(c) \/ (session[c] = "none" /\ Free(c))
        \/ (~Busy(c) /\ session[c] \in {"held", "lost"} /\ Close(c))
     /\ UNCHANGED failures
  \/ /\ ~reliable
     /\ failures < MaxFailures
     /\ failures' = failures + 1
     /\ session[c] # "none" /\ Free(c)

Next ==
  /\ \/ \E c \in Client : WorkStep(c) \/ StartStep(c) \/ Stop(c)
     \/ \E c \in Client : LockStep(c) /\ UNCHANGED <<entry, staged, work, damaged>>
     \/ \E d \in Digest : UserDamage(d)
  /\ UNCHANGED reliable

Spec == Init /\ [][Next]_vars

----------------------------------------------------------------------------
(* Safety.                                                                 *)

(* Whatever dies and whoever races, an entry comes into being complete:    *)
(* nobody ever sees a half-published package (publishPackageSnapshot       *)
(* builds aside and renames).                                              *)
AppearsIntact ==
  [][\A d \in Digest :
       entry[d] \in {"absent", "empty"} =>
         entry'[d] \in {"absent", "empty", "intact"}]_vars

(* An entry that is intact is never harmed by a command as long as no lock *)
(* is lost: publishing does not replace, and repair removes only what it has *)
(* verified to be damaged.  Live projections link into it.                 *)
OnlyUserHarms ==
  [][\A d \in Digest :
       reliable /\ entry[d] = "intact" /\ entry'[d] # "intact" => UserDamage(d)]_vars

(* What a command reports as published, existing or repaired can be        *)
(* projected from the store, as long as no lock is lost.                   *)
SuccessIsIntact ==
  reliable => \A c \in Client :
    At(c, "done") /\ work[c].result = "ok" /\ work[c].digest \notin damaged =>
      There(c) = "intact"

(* The types of the store, and what its reports mean.                      *)
StoreSound == StoreTypeOK /\ SuccessIsIntact

----------------------------------------------------------------------------
(* Liveness.                                                               *)

LockProgress(c) ==
  /\ \/ Grant(c) \/ Open(c) \/ NoticeLoss(c) \/ (session[c] = "none" /\ Free(c))
     \/ (~Busy(c) /\ session[c] = "lost" /\ Close(c))
  /\ UNCHANGED storeVars

(* Commands go on, and the operator repairs each entry again and again.    *)
FairSpec ==
  /\ Spec
  /\ \A c \in Client :
       /\ WF_vars(WorkStep(c) /\ UNCHANGED reliable)
       /\ WF_vars(LockProgress(c))
       /\ \A d \in Digest : SF_vars(Start(c, "repair", d) /\ UNCHANGED reliable)

(* Repair brings every entry back for good, from whatever an interrupted   *)
(* repair, a crash or the user has left, as long as no lock is lost: two   *)
(* repairs at once can undo each other (repairExactAcceptedTarget).        *)
RepairHeals == reliable => <>[](\A d \in Digest : entry[d] = "intact")
=============================================================================
