------------------------ MODULE OperationLock_proofs ------------------------
(* Proofs about the helper protocol, for any number of commands.           *)
EXTENDS OperationLock, TLAPS

(* How far the helper and its command have come fits together.             *)
StagesAgree ==
  \A c \in Client :
    /\ command[c] = "idle" => helper[c] = "none" /\ handshake[c] = "none"
    /\ command[c] = "acquiring" => stdin[c] = "open"
    /\ session[c] = "held" => stdin[c] = "open"
    /\ command[c] \in {"idle", "acquiring", "refused"} => session[c] = "none" /\ ~releaseOk[c]
    /\ command[c] = "dead" => session[c] = "none"
    /\ command[c] = "refused" => helper[c] # "starting"
    /\ session[c] # "none" => helper[c] \in {"holding", "exited"}
    /\ handshake[c] = "acquired" => helper[c] \in {"holding", "exited"}
    /\ handshake[c] \in {"contended", "unsupported"} => helper[c] = "exited"
    /\ helper[c] = "exited" <=> exit[c] # "none"

(* A helper that ends while its command counts on the lock, or is about to *)
(* be told that it has it, does not end cleanly.                           *)
EarlyEndsFail ==
  \A c \in Client :
    /\ command[c] = "acquiring" /\ handshake[c] = "acquired" => exit[c] # "clean"
    /\ session[c] \in {"held", "releasing"} /\ interrupted[c] => exit[c] = "failed"

LockInv ==
  /\ TypeOK
  /\ HolderIsAlive
  /\ HeldIsUnrefuted
  /\ StagesAgree
  /\ EarlyEndsFail
  /\ ReleaseOkProvesExclusion

(* The end of a helper keeps the invariant, if it is clean only after the  *)
(* end of the channel.                                                     *)
LEMMA HelperEndsStep ==
  ASSUME LockInv, NEW c \in Client, NEW status \in {"clean", "failed"},
         helper[c] \in {"starting", "locked", "holding"},
         status = "clean" => stdin[c] = "closed",
         HelperEnds(c, status), UNCHANGED <<handshake, clientVars>>
  PROVE  LockInv'
<1>1. /\ interrupted' \in [Client -> BOOLEAN]
      /\ \A d \in Client : interrupted'[d] => interrupted[d] \/ (d = c /\ session[c] = "held")
  <2>1. interrupted' = [interrupted EXCEPT ![c] = interrupted[c] \/ session[c] = "held"]
    BY Zenon DEF HelperEnds
  <2>2. interrupted \in [Client -> BOOLEAN]
    BY DEF LockInv, TypeOK
  <2>. QED BY <2>1, <2>2, Zenon
<1> USE NoClientAssumption
    DEF LockInv, TypeOK, HolderIsAlive, HeldIsUnrefuted, StagesAgree, EarlyEndsFail,
        ReleaseOkProvesExclusion, HelperEnds, clientVars
<1>2. TypeOK'
  BY <1>1
<1>3. HolderIsAlive' /\ HeldIsUnrefuted' /\ StagesAgree'
  OBVIOUS
<1>4. exit[c] = "none" /\ exit' = [exit EXCEPT ![c] = status]
  OBVIOUS
<1>5. EarlyEndsFail'
  <2>1. ASSUME NEW d \in Client, session[d] \in {"held", "releasing"}, interrupted'[d]
        PROVE  exit'[d] = "failed"
    BY <1>1, <1>4, <2>1
  <2>2. ASSUME NEW d \in Client, command[d] = "acquiring", handshake[d] = "acquired"
        PROVE  exit'[d] # "clean"
    BY <1>4, <2>2
  <2>. QED BY <2>1, <2>2
<1>6. ReleaseOkProvesExclusion'
  BY <1>1, <1>4
<1>. QED BY <1>2, <1>3, <1>5, <1>6

(* Every step of the protocol keeps the invariant.                         *)
LEMMA LockInvStep ==
  ASSUME LockInv, NEW c \in Client,
         \/ HelperStep(c) \/ HelperFails(c) \/ EventStep(c)
         \/ Spawn(c) \/ Release(c) \/ Finish(c) \/ Die(c)
  PROVE  LockInv'
<1> USE NoClientAssumption
    DEF LockInv, TypeOK, HolderIsAlive, HeldIsUnrefuted, StagesAgree, EarlyEndsFail,
        ReleaseOkProvesExclusion, helperVars, clientVars
<1>1. CASE TryLockAcquired(c)
  BY <1>1 DEF TryLockAcquired
<1>2. CASE TryLockRefused(c)
  BY <1>2 DEF TryLockRefused, HelperEnds
<1>3. CASE WriteHandshake(c)
  BY <1>3 DEF WriteHandshake
<1>4. CASE ReadParentEof(c)
  BY <1>4, HelperEndsStep DEF ReadParentEof
<1>5. CASE HelperFails(c)
  BY <1>5, HelperEndsStep DEF HelperFails
<1>6. CASE ReadAcquired(c)
  <2>1. CASE exitObserved[c]
    BY <1>6, <2>1 DEF ReadAcquired
  <2>2. CASE ~exitObserved[c]
    <3>1. /\ command[c] = "acquiring" /\ handshake[c] = "acquired"
          /\ handshake' = [handshake EXCEPT ![c] = "none"]
          /\ command' = [command EXCEPT ![c] = "running"]
          /\ session' = [session EXCEPT ![c] = "held"]
          /\ UNCHANGED <<holder, helper, exit, exitObserved, stdin, releaseOk>>
      BY <1>6, <2>2 DEF ReadAcquired
    <3>2. interrupted' = [interrupted EXCEPT ![c] = helper[c] = "exited"]
      BY <1>6, <2>2, Zenon DEF ReadAcquired
    <3>3. /\ interrupted' \in [Client -> BOOLEAN]
          /\ \A d \in Client \ {c} : interrupted'[d] <=> interrupted[d]
          /\ interrupted'[c] <=> helper[c] = "exited"
      <4>1. interrupted \in [Client -> BOOLEAN]
        OBVIOUS
      <4> HIDE DEF LockInv, TypeOK
      <4>. QED BY <3>2, <4>1, Zenon
    <3>4. helper[c] = "exited" => exit[c] = "failed"
      BY <3>1
    <3>5. TypeOK'
      BY <3>1, <3>3
    <3>6. HolderIsAlive' /\ HeldIsUnrefuted'
      BY <2>2, <3>1
    <3>7. StagesAgree'
      BY <3>1
    <3>8. EarlyEndsFail'
      BY <3>1, <3>3, <3>4
    <3>9. ReleaseOkProvesExclusion'
      BY <3>1, <3>3
    <3>. QED BY <3>5, <3>6, <3>7, <3>8, <3>9
  <2>. QED BY <2>1, <2>2
<1>7. CASE ReadRefused(c)
  BY <1>7 DEF ReadRefused
<1>8. CASE ReadEnd(c)
  BY <1>8 DEF ReadEnd
<1>9. CASE ObserveExit(c)
  BY <1>9 DEF ObserveExit
<1>10. CASE Spawn(c)
  BY <1>10 DEF Spawn
<1>11. CASE Release(c)
  BY <1>11 DEF Release
<1>12. CASE Finish(c)
  BY <1>12 DEF Finish
<1>13. CASE Die(c)
  BY <1>13 DEF Die
<1>. QED
  BY <1>1, <1>2, <1>3, <1>4, <1>5, <1>6, <1>7, <1>8, <1>9, <1>10, <1>11, <1>12, <1>13
     DEF HelperStep, EventStep

(* The invariant holds in every reachable state.                           *)
THEOREM LockInvariant == Spec => []LockInv
<1>1. Init => LockInv
  BY NoClientAssumption
     DEF Init, LockInv, TypeOK, HolderIsAlive, HeldIsUnrefuted, StagesAgree, EarlyEndsFail,
         ReleaseOkProvesExclusion
<1>2. LockInv /\ [Next]_vars => LockInv'
  <2>1. ASSUME LockInv, Next
        PROVE  LockInv'
    BY <2>1, LockInvStep DEF Next
  <2>2. ASSUME LockInv, UNCHANGED vars
        PROVE  LockInv'
    BY <2>2 DEF vars, LockInv, TypeOK, HolderIsAlive, HeldIsUnrefuted, StagesAgree,
       EarlyEndsFail, ReleaseOkProvesExclusion
  <2>. QED BY <2>1, <2>2
<1>. QED BY <1>1, <1>2, PTL DEF Spec

(* The states of the protocol keep their types.                            *)
THEOREM LockTypeCorrect == Spec => []TypeOK
<1>1. LockInv => TypeOK
  BY DEF LockInv
<1>. QED BY <1>1, LockInvariant, PTL

(* The OS lock is owned by a living helper, so nobody has to break locks   *)
(* of dead commands, and a session never says "held" after the exit of its *)
(* helper was delivered.                                                   *)
THEOREM OwnershipStaysReal == Spec => []OwnershipIsReal
<1>1. LockInv => OwnershipIsReal
  BY DEF LockInv, OwnershipIsReal
<1>. QED BY <1>1, LockInvariant, PTL

(* Of two sessions that are held at once, one has an exit still to learn.  *)
THEOREM ExclusionUpToNotice == Spec => []HeldAtOnceMeansUnnoticedExit
<1>1. ASSUME LockInv, NEW c \in Client, NEW d \in Client, c # d,
             session[c] = "held", session[d] = "held"
      PROVE  \/ helper[c] = "exited" /\ ~exitObserved[c]
             \/ helper[d] = "exited" /\ ~exitObserved[d]
  <2>1. /\ helper[c] \in {"holding", "exited"} /\ ~exitObserved[c]
        /\ helper[d] \in {"holding", "exited"} /\ ~exitObserved[d]
    BY <1>1 DEF LockInv, HeldIsUnrefuted
  <2>2. ~(helper[c] = "holding" /\ helper[d] = "holding")
    BY <1>1 DEF LockInv, HolderIsAlive
  <2>. QED BY <2>1, <2>2
<1>2. LockInv => HeldAtOnceMeansUnnoticedExit
  BY <1>1 DEF HeldAtOnceMeansUnnoticedExit
<1>. QED BY <1>2, LockInvariant, PTL

(* A release that succeeds proves that the lock was held all the time.     *)
THEOREM ReleaseProvesExclusion == Spec => []ReleaseOkProvesExclusion
<1>1. LockInv => ReleaseOkProvesExclusion
  BY DEF LockInv
<1>. QED BY <1>1, LockInvariant, PTL

----------------------------------------------------------------------------
(* The protocol implements LockService.                                    *)

(* A granted command has no session yet, so the two cases exclude each     *)
(* other.                                                                  *)
LEMMA GrantedHasNoSession ==
  ASSUME LockInv, NEW c \in Client, Granted(c)
  PROVE  session[c] = "none"
BY DEF LockInv, StagesAgree, Granted

(* A step of one command changes the session of no other.                  *)
LEMMA ServiceSessionFrame ==
  ASSUME NEW c \in Client,
         \A d \in Client \ {c} : /\ command'[d] = command[d] /\ helper'[d] = helper[d]
                                /\ handshake'[d] = handshake[d] /\ session'[d] = session[d]
  PROVE  ServiceSession' = [ServiceSession EXCEPT ![c] = ServiceState(c)']
<1>1. \A d \in Client \ {c} : ServiceState(d)' = ServiceState(d)
  BY DEF ServiceState, Granted
<1>. QED BY <1>1 DEF ServiceSession

(* If it does not change its own either, nothing changes.                  *)
LEMMA ServiceSessionKept ==
  ASSUME NEW c \in Client,
         ServiceSession' = [ServiceSession EXCEPT ![c] = ServiceState(c)]
  PROVE  ServiceSession' = ServiceSession
<1>1. ServiceSession = [d \in Client |-> ServiceState(d)]
  BY DEF ServiceSession
<1>2. \A d \in Client : ServiceSession'[d] = ServiceState(d)
  BY <1>1
<1>3. ServiceSession' = [d \in Client |-> ServiceSession'[d]]
  BY Zenon DEF ServiceSession
<1>. QED BY <1>1, <1>2, <1>3, Zenon

(* Every step of the protocol is a step of the service or does not concern *)
(* it.                                                                     *)
LEMMA ServiceStep ==
  ASSUME LockInv, NEW c \in Client,
         \/ HelperStep(c) \/ HelperFails(c) \/ EventStep(c)
         \/ Spawn(c) \/ Release(c) \/ Finish(c) \/ Die(c)
  PROVE  [Service!LockNext]_Service!lockVars
<1> DEFINE Same == UNCHANGED <<holder, ServiceSession>>
           Becomes(value) == ServiceSession' = [ServiceSession EXCEPT ![c] = value]
<1> USE NoClientAssumption
    DEF LockInv, TypeOK, HolderIsAlive, HeldIsUnrefuted, StagesAgree, helperVars, clientVars
<1>0. ServiceSession[c] = ServiceState(c)
  BY DEF ServiceSession
<1>frame. Becomes(ServiceState(c)) => UNCHANGED ServiceSession
  BY ServiceSessionKept
<1>1. ASSUME \A d \in Client \ {c} :
               /\ command'[d] = command[d] /\ helper'[d] = helper[d]
               /\ handshake'[d] = handshake[d] /\ session'[d] = session[d],
             ServiceState(c)' = ServiceState(c)
      PROVE  UNCHANGED ServiceSession
  BY <1>frame, <1>1, ServiceSessionFrame
<1>2. CASE TryLockAcquired(c)
  <2>1. ServiceState(c) = "none" /\ ServiceState(c)' \in {"none", "granted"}
    BY <1>2 DEF TryLockAcquired, ServiceState, Granted
  <2>2. ServiceState(c)' = "granted" => Service!Grant(c)
    BY <1>0, <1>2, <2>1, ServiceSessionFrame DEF TryLockAcquired, Service!Grant
  <2>3. ServiceState(c)' = "none" => Service!GrantToDead(c)
    BY <1>0, <1>1, <1>2, <2>1 DEF TryLockAcquired, Service!GrantToDead
  <2>. QED BY <2>1, <2>2, <2>3 DEF Service!LockNext
<1>3. CASE TryLockRefused(c)
  <2>1. UNCHANGED holder /\ ServiceState(c)' = ServiceState(c)
    BY <1>3 DEF TryLockRefused, HelperEnds, ServiceState, Granted
  <2>2. UNCHANGED ServiceSession
    BY <1>1, <1>3, <2>1 DEF TryLockRefused, HelperEnds
  <2>. QED BY <2>1, <2>2 DEF Service!lockVars
<1>4. CASE WriteHandshake(c)
  <2>1. UNCHANGED holder /\ ServiceState(c)' = ServiceState(c)
    BY <1>4 DEF WriteHandshake, ServiceState, Granted
  <2>2. UNCHANGED ServiceSession
    BY <1>1, <1>4, <2>1 DEF WriteHandshake
  <2>. QED BY <2>1, <2>2 DEF Service!lockVars
<1>5. ASSUME NEW status, HelperEnds(c, status), UNCHANGED <<handshake, clientVars>>,
             helper[c] \in {"starting", "locked", "holding"}
      PROVE  [Service!LockNext]_Service!lockVars
  <2>1. CASE helper[c] = "starting"
    <3>1. UNCHANGED holder /\ ServiceState(c)' = ServiceState(c)
      BY <1>5, <2>1 DEF HelperEnds, ServiceState, Granted
    <3>2. UNCHANGED ServiceSession
      BY <1>1, <1>5, <3>1 DEF HelperEnds
    <3>. QED BY <3>1, <3>2 DEF Service!lockVars
  <2>2. CASE helper[c] \in {"locked", "holding"}
    <3>1. holder = c /\ holder' = NoClient
      BY <1>5, <2>2 DEF HelperEnds
    <3>2. \/ ServiceState(c)' = ServiceState(c)
          \/ ServiceState(c) = "granted" /\ ServiceState(c)' = "none"
      BY <1>5, <2>2 DEF HelperEnds, ServiceState, Granted
    <3>3. \/ UNCHANGED ServiceSession
          \/ ServiceSession[c] = "granted" /\ Becomes("none")
      BY <1>0, <1>1, <1>5, <3>2, ServiceSessionFrame DEF HelperEnds
    <3>4. Service!Free(c)
      BY <3>1, <3>3 DEF Service!Free
    <3>. QED BY <3>4 DEF Service!LockNext
  <2>. QED BY <1>5, <2>1, <2>2
<1>6. CASE ReadParentEof(c)
  BY <1>5, <1>6 DEF ReadParentEof
<1>7. CASE HelperFails(c)
  BY <1>5, <1>7 DEF HelperFails
<1>8. CASE ReadAcquired(c)
  <2>1. ServiceState(c) = "granted" /\ UNCHANGED holder
    BY <1>8 DEF ReadAcquired, ServiceState, Granted
  <2>2. ServiceState(c)' \in {"held", "none"}
    BY <1>8 DEF ReadAcquired, ServiceState, Granted
  <2>3. Becomes(ServiceState(c)')
    BY <1>8, ServiceSessionFrame DEF ReadAcquired
  <2>4. Service!Open(c) \/ Service!Close(c)
    BY <1>0, <2>1, <2>2, <2>3 DEF Service!Open, Service!Close
  <2>. QED BY <2>4 DEF Service!LockNext
<1>9. CASE ReadRefused(c) \/ ReadEnd(c)
  <2>1. UNCHANGED holder /\ ServiceState(c)' = ServiceState(c)
    BY <1>9 DEF ReadRefused, ReadEnd, ServiceState, Granted
  <2>2. UNCHANGED ServiceSession
    BY <1>1, <1>9, <2>1 DEF ReadRefused, ReadEnd
  <2>. QED BY <2>1, <2>2 DEF Service!lockVars
<1>10. CASE ObserveExit(c)
  <2>1. UNCHANGED holder /\ holder # c
    BY <1>10 DEF ObserveExit
  <2>2. CASE session[c] = "held"
    <3>1. ServiceState(c) = "held" /\ ServiceState(c)' = "lost"
      BY <1>10, <2>2 DEF ObserveExit, ServiceState, Granted
    <3>2. Becomes("lost")
      BY <1>10, <3>1, ServiceSessionFrame DEF ObserveExit
    <3>3. Service!NoticeLoss(c)
      BY <1>0, <2>1, <3>1, <3>2 DEF Service!NoticeLoss
    <3>. QED BY <3>3 DEF Service!LockNext
  <2>3. CASE session[c] # "held"
    <3>1. ServiceState(c)' = ServiceState(c)
      BY <1>10, <2>3 DEF ObserveExit, ServiceState, Granted
    <3>2. UNCHANGED ServiceSession
      BY <1>1, <1>10, <3>1 DEF ObserveExit
    <3>. QED BY <2>1, <3>2 DEF Service!lockVars
  <2>. QED BY <2>2, <2>3
<1>11. CASE Spawn(c) \/ Finish(c)
  <2>1. UNCHANGED holder /\ ServiceState(c)' = ServiceState(c)
    BY <1>11 DEF Spawn, Finish, ServiceState, Granted
  <2>2. UNCHANGED ServiceSession
    BY <1>1, <1>11, <2>1 DEF Spawn, Finish
  <2>. QED BY <2>1, <2>2 DEF Service!lockVars
<1>12. CASE Release(c) \/ Die(c)
  <2>1. UNCHANGED holder /\ ServiceState(c)' = "none"
    BY <1>12 DEF Release, Die, ServiceState, Granted
  <2>2. Becomes("none")
    BY <1>12, <2>1, ServiceSessionFrame DEF Release, Die
  <2>3. CASE ServiceState(c) # "none"
    BY <1>0, <2>1, <2>2, <2>3 DEF Service!Close, Service!LockNext
  <2>4. CASE ServiceState(c) = "none"
    BY <1>frame, <2>1, <2>2, <2>4 DEF Service!lockVars
  <2>. QED BY <2>3, <2>4
<1>. QED
  BY <1>2, <1>3, <1>4, <1>6, <1>7, <1>8, <1>9, <1>10, <1>11, <1>12 DEF HelperStep, EventStep

(* The helper protocol gives commands the lock service that the lifecycle  *)
(* modules build on.                                                       *)
THEOREM LockServiceImplemented == Spec => ImplementsLockService
<1>1. Init => Service!LockInit
  BY DEF Init, Service!LockInit, ServiceSession, ServiceState, Granted
<1>2. LockInv /\ [Next]_vars => [Service!LockNext]_Service!lockVars
  <2>1. ASSUME LockInv, Next
        PROVE  [Service!LockNext]_Service!lockVars
    BY <2>1, ServiceStep DEF Next
  <2>2. ASSUME UNCHANGED vars
        PROVE  UNCHANGED Service!lockVars
    BY <2>2 DEF vars, Service!lockVars, ServiceSession, ServiceState, Granted
  <2>. QED BY <2>1, <2>2
<1>. QED BY <1>1, <1>2, LockInvariant, PTL DEF Spec, ImplementsLockService, Service!LockSpec
=============================================================================
