--------------------------- MODULE OperationLock ---------------------------
(***************************************************************************)
(* The machine-wide operation lock: a helper process takes an OS file lock *)
(* and holds it until its standard input ends                              *)
(* (src/native/skiloom-lock/src/main.rs); the command that spawned it      *)
(* learns what happened from a handshake line and from the exit event      *)
(* (src/src/native/skiloom-lock.ts).  The pipe, the exit status and the    *)
(* exit event are separate, because they reach the command at different    *)
(* times.                                                                  *)
(***************************************************************************)
CONSTANTS Client,     \* command processes; each acquires at most once
          NoClient

ASSUME NoClientAssumption == NoClient \notin Client

VARIABLES
  holder,       \* client whose helper owns the OS file lock
  helper,       \* helper process: none, starting, locked, holding, exited
  exit,         \* exit status of the helper: none, clean, failed
  exitObserved, \* the exit event has been delivered to the client
  handshake,    \* unread line on the helper's standard output
  stdin,        \* lifetime channel: closed, open
  command,      \* idle, acquiring, running, refused, finished, dead
  session,      \* HeldOperationLockSession: none, held, releasing, released, lost
  releaseOk,    \* release() has reported success
  interrupted   \* history: the helper ended while the session was held

vars == <<holder, helper, exit, exitObserved, handshake, stdin, command,
          session, releaseOk, interrupted>>

TypeOK ==
  /\ holder \in Client \cup {NoClient}
  /\ helper \in [Client -> {"none", "starting", "locked", "holding", "exited"}]
  /\ exit \in [Client -> {"none", "clean", "failed"}]
  /\ exitObserved \in [Client -> BOOLEAN]
  /\ handshake \in [Client -> {"none", "acquired", "contended", "unsupported"}]
  /\ stdin \in [Client -> {"closed", "open"}]
  /\ command \in [Client -> {"idle", "acquiring", "running", "refused", "finished", "dead"}]
  /\ session \in [Client -> {"none", "held", "releasing", "released", "lost"}]
  /\ releaseOk \in [Client -> BOOLEAN]
  /\ interrupted \in [Client -> BOOLEAN]

Init ==
  /\ holder = NoClient
  /\ helper = [c \in Client |-> "none"]
  /\ exit = [c \in Client |-> "none"]
  /\ exitObserved = [c \in Client |-> FALSE]
  /\ handshake = [c \in Client |-> "none"]
  /\ stdin = [c \in Client |-> "closed"]
  /\ command = [c \in Client |-> "idle"]
  /\ session = [c \in Client |-> "none"]
  /\ releaseOk = [c \in Client |-> FALSE]
  /\ interrupted = [c \in Client |-> FALSE]

helperVars == <<holder, helper, exit, interrupted>>
clientVars == <<exitObserved, stdin, command, session, releaseOk>>

----------------------------------------------------------------------------
(* The helper.                                                             *)

(* Mutant: the exit status tells a kill from a failure.                    *)
HelperIsKilled(c, status) ==
  /\ helper' = [helper EXCEPT ![c] = "exited"]
  /\ exit' = [exit EXCEPT ![c] = IF status = "failed" THEN "killed" ELSE status]
  /\ holder' = IF holder = c THEN NoClient ELSE holder
  /\ interrupted' = [interrupted EXCEPT ![c] = @ \/ session[c] = "held"]

(* The helper ends: the OS drops its file lock with it.                    *)
HelperEnds(c, status) ==
  /\ helper' = [helper EXCEPT ![c] = "exited"]
  /\ exit' = [exit EXCEPT ![c] = status]
  /\ holder' = IF holder = c THEN NoClient ELSE holder
  /\ interrupted' = [interrupted EXCEPT ![c] = @ \/ session[c] = "held"]

(* Mutant: every command locks a file of its own.                          *)
LockOwnFile(c) ==
  /\ helper[c] = "starting"
  /\ holder' = c
  /\ helper' = [helper EXCEPT ![c] = "locked"]
  /\ UNCHANGED <<exit, interrupted, handshake, clientVars>>

(* run: one try_lock; the lock is owned before the handshake is written.   *)
TryLockAcquired(c) ==
  /\ helper[c] = "starting"
  /\ holder = NoClient
  /\ holder' = c
  /\ helper' = [helper EXCEPT ![c] = "locked"]
  /\ UNCHANGED <<exit, interrupted, handshake, clientVars>>

(* Another helper owns the lock, or the platform has no file locks: the    *)
(* helper reports it and ends.                                             *)
TryLockRefused(c) ==
  /\ helper[c] = "starting"
  /\ \/ holder # NoClient /\ handshake' = [handshake EXCEPT ![c] = "contended"]
     \/ handshake' = [handshake EXCEPT ![c] = "unsupported"]
  /\ HelperEnds(c, "clean")
  /\ UNCHANGED clientVars

WriteHandshake(c) ==
  /\ helper[c] = "locked"
  /\ helper' = [helper EXCEPT ![c] = "holding"]
  /\ handshake' = [handshake EXCEPT ![c] = "acquired"]
  /\ UNCHANGED <<holder, exit, interrupted, clientVars>>

(* Mutant: the helper waits to be told, not for the end of the channel.    *)
ReadParentQuit(c) ==
  /\ helper[c] = "holding"
  /\ session[c] = "releasing"
  /\ HelperEnds(c, "clean")
  /\ UNCHANGED <<handshake, clientVars>>

(* hold_until_parent_eof: the only clean way to end while holding.         *)
ReadParentEof(c) ==
  /\ helper[c] = "holding"
  /\ stdin[c] = "closed"
  /\ HelperEnds(c, "clean")
  /\ UNCHANGED <<handshake, clientVars>>

(* The helper is killed, or fails on its own.                              *)
HelperFails(c) ==
  /\ helper[c] \in {"starting", "locked", "holding"}
  /\ HelperEnds(c, "failed")
  /\ UNCHANGED <<handshake, clientVars>>

----------------------------------------------------------------------------
(* The command.                                                            *)

(* acquireOperationLock spawns the helper.                                 *)
Spawn(c) ==
  /\ command[c] = "idle"
  /\ command' = [command EXCEPT ![c] = "acquiring"]
  /\ helper' = [helper EXCEPT ![c] = "starting"]
  /\ stdin' = [stdin EXCEPT ![c] = "open"]
  /\ UNCHANGED <<holder, exit, exitObserved, handshake, session, releaseOk, interrupted>>

(* Mutant: an exit that was observed before the handshake is forgotten.    *)
ReadAcquiredLate(c) ==
  /\ command[c] = "acquiring"
  /\ handshake[c] = "acquired"
  /\ handshake' = [handshake EXCEPT ![c] = "none"]
  /\ command' = [command EXCEPT ![c] = "running"]
  /\ session' = [session EXCEPT ![c] = "held"]
  /\ interrupted' = [interrupted EXCEPT ![c] = helper[c] = "exited"]
  /\ UNCHANGED <<holder, helper, exit, exitObserved, stdin, releaseOk>>

(* Mutant: any line of the helper opens a session.                         *)
ReadAnyHandshake(c) ==
  /\ command[c] = "acquiring"
  /\ handshake[c] # "none"
  /\ handshake' = [handshake EXCEPT ![c] = "none"]
  /\ command' = [command EXCEPT ![c] = "running"]
  /\ session' = [session EXCEPT ![c] = "held"]
  /\ interrupted' = [interrupted EXCEPT ![c] = helper[c] = "exited"]
  /\ UNCHANGED <<holder, helper, exit, exitObserved, stdin, releaseOk>>

(* onData: a session is opened only if the exit has not been observed; an  *)
(* exit that happened but was not delivered yet does not count.            *)
ReadAcquired(c) ==
  /\ command[c] = "acquiring"
  /\ handshake[c] = "acquired"
  /\ handshake' = [handshake EXCEPT ![c] = "none"]
  /\ IF exitObserved[c]
       THEN /\ command' = [command EXCEPT ![c] = "refused"]
            /\ UNCHANGED <<session, interrupted>>
       ELSE /\ command' = [command EXCEPT ![c] = "running"]
            /\ session' = [session EXCEPT ![c] = "held"]
            /\ interrupted' = [interrupted EXCEPT ![c] = helper[c] = "exited"]
  /\ UNCHANGED <<holder, helper, exit, exitObserved, stdin, releaseOk>>

(* onData on "contended" and "unsupported".                                *)
ReadRefused(c) ==
  /\ command[c] = "acquiring"
  /\ handshake[c] \in {"contended", "unsupported"}
  /\ handshake' = [handshake EXCEPT ![c] = "none"]
  /\ command' = [command EXCEPT ![c] = "refused"]
  /\ stdin' = [stdin EXCEPT ![c] = "closed"]
  /\ UNCHANGED <<helperVars, exitObserved, session, releaseOk>>

(* onStdoutEnd: the output ends before a whole line was read.              *)
ReadEnd(c) ==
  /\ command[c] = "acquiring"
  /\ handshake[c] = "none"
  /\ helper[c] = "exited"
  /\ command' = [command EXCEPT ![c] = "refused"]
  /\ stdin' = [stdin EXCEPT ![c] = "closed"]
  /\ UNCHANGED <<helperVars, exitObserved, handshake, session, releaseOk>>

(* Mutant: release() succeeds with any exit.                               *)
ObserveAnyExit(c) ==
  /\ command[c] \in {"acquiring", "running", "refused"}
  /\ helper[c] = "exited"
  /\ ~exitObserved[c]
  /\ exitObserved' = [exitObserved EXCEPT ![c] = TRUE]
  /\ session' = [session EXCEPT ![c] = CASE @ = "held" -> "lost"
                                         [] @ = "releasing" -> "released"
                                         [] OTHER -> @]
  /\ releaseOk' = [releaseOk EXCEPT ![c] = session[c] = "releasing"]
  /\ UNCHANGED <<helperVars, handshake, stdin, command>>

(* The exit event: while acquiring it is remembered, a held session is     *)
(* marked lost, a releasing one settles with the exit status.              *)
ObserveExit(c) ==
  /\ command[c] \in {"acquiring", "running", "refused"}
  /\ helper[c] = "exited"
  /\ ~exitObserved[c]
  /\ exitObserved' = [exitObserved EXCEPT ![c] = TRUE]
  /\ session' = [session EXCEPT ![c] = CASE @ = "held" -> "lost"
                                         [] @ = "releasing" -> "released"
                                         [] OTHER -> @]
  /\ releaseOk' = [releaseOk EXCEPT ![c] =
                     session[c] = "releasing" /\ exit[c] = "clean"]
  /\ UNCHANGED <<helperVars, handshake, stdin, command>>

(* release(): the lifetime channel is ended and the exit awaited.  A lost  *)
(* session has nothing to release.                                         *)
Release(c) ==
  /\ command[c] = "running"
  /\ session[c] = "held"
  /\ session' = [session EXCEPT ![c] = "releasing"]
  /\ stdin' = [stdin EXCEPT ![c] = "closed"]
  /\ UNCHANGED <<helperVars, handshake, exitObserved, command, releaseOk>>

(* The command process ends: normally after release() has settled, or with *)
(* the failure that acquireOperationLock reported.                         *)
Finish(c) ==
  /\ \/ command[c] = "refused"
     \/ command[c] = "running" /\ session[c] \in {"released", "lost"}
  /\ command' = [command EXCEPT ![c] = "finished"]
  /\ stdin' = [stdin EXCEPT ![c] = "closed"]
  /\ UNCHANGED <<helperVars, handshake, exitObserved, session, releaseOk>>

(* The command process dies: the OS closes its end of the channel.         *)
Die(c) ==
  /\ command[c] \in {"acquiring", "running", "refused"}
  /\ command' = [command EXCEPT ![c] = "dead"]
  /\ stdin' = [stdin EXCEPT ![c] = "closed"]
  /\ session' = [session EXCEPT ![c] = "none"]
  /\ UNCHANGED <<helperVars, handshake, exitObserved, releaseOk>>

HelperStep(c) ==
  \/ TryLockAcquired(c) \/ TryLockRefused(c) \/ WriteHandshake(c) \/ ReadParentEof(c)

EventStep(c) ==
  \/ ReadAcquired(c) \/ ReadRefused(c) \/ ReadEnd(c) \/ ObserveExit(c)

Next ==
  \E c \in Client :
    \/ HelperStep(c) \/ HelperFails(c) \/ EventStep(c)
    \/ Spawn(c) \/ Release(c) \/ Finish(c) \/ Die(c)

(* The OS runs the helper, and Node's event loop delivers what the helper  *)
(* wrote and its exit; no fairness is assumed of commands or of failures.  *)
Spec == Init /\ [][Next]_vars
             /\ \A c \in Client : WF_vars(HelperStep(c)) /\ WF_vars(EventStep(c))

----------------------------------------------------------------------------
(* Safety.                                                                 *)

(* The file lock belongs to a living helper that has taken it; a dead      *)
(* command's lock cannot outlive its helper.                               *)
HolderIsAlive ==
  \A c \in Client : holder = c <=> helper[c] \in {"locked", "holding"}

(* Mutual exclusion as far as it can go: two sessions are held at once     *)
(* only if one of them has lost its helper and not been told yet.          *)
HeldAtOnceMeansUnnoticedExit ==
  \A c, d \in Client :
    c # d /\ session[c] = "held" /\ session[d] = "held" =>
      \/ helper[c] = "exited" /\ ~exitObserved[c]
      \/ helper[d] = "exited" /\ ~exitObserved[d]

(* A held session has a helper that took the lock, and no observed exit.   *)
HeldIsUnrefuted ==
  \A c \in Client :
    session[c] = "held" => /\ helper[c] \in {"holding", "exited"}
                           /\ ~exitObserved[c]
                           /\ command[c] = "running"

(* Who is said to have the lock took it and was not seen to lose it.       *)
OwnershipIsReal == HolderIsAlive /\ HeldIsUnrefuted

(* A successful release() proves that the lock was held from the           *)
(* acquisition to the call: a helper that ended early cannot end cleanly.  *)
ReleaseOkProvesExclusion ==
  \A c \in Client : releaseOk[c] => exit[c] = "clean" /\ ~interrupted[c]

(* Liveness: a lost lock is noticed, ...                                   *)
LossIsNoticed ==
  \A c \in Client : helper[c] = "exited" ~> session[c] # "held"

(* ... a command that has ended lets go of the lock, even if it died, ...  *)
LockIsFreed ==
  \A c \in Client : command[c] \in {"finished", "dead"} ~> holder # c

(* ... and acquireOperationLock always answers.                            *)
AcquireSettles ==
  \A c \in Client : command[c] = "acquiring" ~> command[c] # "acquiring"

(* The three together: nobody waits for ever on a lock that nobody holds,  *)
(* whichever process was killed.                                           *)
LockProgress == LossIsNoticed /\ LockIsFreed /\ AcquireSettles

----------------------------------------------------------------------------
(* The protocol implements the lock service.                               *)

Granted(c) ==
  /\ command[c] = "acquiring"
  /\ helper[c] \in {"locked", "holding"} \/ handshake[c] = "acquired"

ServiceState(c) ==
  IF Granted(c) THEN "granted"
  ELSE IF session[c] \in {"held", "lost"} THEN session[c]
  ELSE "none"

ServiceSession == [c \in Client |-> ServiceState(c)]

Service == INSTANCE LockService WITH session <- ServiceSession

ImplementsLockService == Service!LockSpec
============================================================================
