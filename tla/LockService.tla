---------------------------- MODULE LockService ----------------------------
(* What the operation lock promises to a lifecycle command.  The lock      *)
(* itself lives in the operating system and belongs to the client whose    *)
(* helper process is alive; the session object in the client only learns   *)
(* of the helper's end later.  OperationLock shows how the helper protocol *)
(* implements this.                                                        *)
CONSTANTS Client,     \* command invocations that use the lock
          NoClient    \* the OS lock is free

ASSUME NoClientAssumption == NoClient \notin Client

VARIABLES holder,     \* the client that owns the OS lock
          session     \* what each client believes

lockVars == <<holder, session>>

LockTypeOK ==
  /\ holder \in Client \cup {NoClient}
  /\ session \in [Client -> {"none", "granted", "held", "lost"}]

LockInit ==
  /\ holder = NoClient
  /\ session = [c \in Client |-> "none"]

(* The OS lock is given to c; c has not been told yet.                     *)
Grant(c) ==
  /\ session[c] = "none"
  /\ holder = NoClient
  /\ holder' = c
  /\ session' = [session EXCEPT ![c] = "granted"]

(* The helper of a command that died meanwhile takes the lock all the      *)
(* same, and keeps it until it finds that the command is gone.             *)
GrantToDead(c) ==
  /\ session[c] = "none"
  /\ holder = NoClient
  /\ holder' = c
  /\ UNCHANGED session

(* acquireOperationLock returns a session to c.                            *)
Open(c) ==
  /\ session[c] = "granted"
  /\ session' = [session EXCEPT ![c] = "held"]
  /\ UNCHANGED holder

(* The helper of c ends, for whatever reason: the OS lock is free at once. *)
(* An acquisition that it had not reported yet ends with it.               *)
Free(c) ==
  /\ holder = c
  /\ holder' = NoClient
  /\ \/ UNCHANGED session
     \/ session[c] = "granted" /\ session' = [session EXCEPT ![c] = "none"]

(* The session of c learns that its helper has ended: checkHeld fails.     *)
NoticeLoss(c) ==
  /\ session[c] = "held"
  /\ holder # c
  /\ session' = [session EXCEPT ![c] = "lost"]
  /\ UNCHANGED holder

(* c gives up, releases or dies; its helper ends later.                    *)
Close(c) ==
  /\ session[c] # "none"
  /\ session' = [session EXCEPT ![c] = "none"]
  /\ UNCHANGED holder

LockNext ==
  \E c \in Client :
    Grant(c) \/ GrantToDead(c) \/ Open(c) \/ Free(c) \/ NoticeLoss(c) \/ Close(c)

LockSpec == LockInit /\ [][LockNext]_lockVars

CheckHeld(c) == session[c] = "held"
============================================================================
