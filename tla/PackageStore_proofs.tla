------------------------ MODULE PackageStore_proofs ------------------------
(* Proofs about the package store, for any number of commands and entries. *)
EXTENDS PackageStore, TLAPS

(* Only a complete staging directory is ever renamed, and a result comes   *)
(* at the end.                                                             *)
StagedFirst ==
  \A c \in Client :
    /\ At(c, "rename") => staged[c] = "full"
    /\ Busy(c) /\ work[c].result # "none" => work[c].step \in {"cleanup", "done"}

(* As long as no helper dies before its command, whoever works on the      *)
(* store owns the lock, so nobody else does.                               *)
WorkersHold ==
  reliable => \A c \in Client :
    /\ session[c] \in {"granted", "held"} => holder = c
    /\ session[c] # "lost"
    /\ Busy(c) => session[c] = "held"

(* What a worker has seen of its entry still holds when it acts on it.     *)
SeenIsTrue ==
  reliable => \A c \in Client :
    /\ At(c, "remove") => There(c) # "intact"
    /\ Busy(c) /\ work[c].result = "ok" /\ work[c].digest \notin damaged =>
         There(c) = "intact"

StoreInv == StoreTypeOK /\ StagedFirst /\ WorkersHold /\ SeenIsTrue

(* With a reliable lock at most one command works on the store.            *)
LEMMA OneWorker ==
  ASSUME NoClient \notin Client, WorkersHold, reliable,
         NEW c \in Client, NEW d \in Client, Busy(c), Busy(d)
  PROVE  c = d
BY DEF WorkersHold

(* A record of a command's work with another step.                         *)
LEMMA WorkingUpdated ==
  ASSUME NEW w \in Working, NEW step \in Steps
  PROVE  /\ [w EXCEPT !.step = step] \in Working
         /\ [w EXCEPT !.step = step].step = step
         /\ [w EXCEPT !.step = step].result = w.result
         /\ [w EXCEPT !.step = step].digest = w.digest
BY DEF Working

(* What GoTo and Settle do to the records of the commands.                 *)
LEMMA GoToMoves ==
  ASSUME StoreTypeOK, NEW c \in Client, Busy(c), NEW step \in Steps, GoTo(c, step)
  PROVE  /\ work' \in [Client -> Working \cup {NoWork}]
         /\ \A d \in Client \ {c} : work'[d] = work[d]
         /\ work'[c] \in Working
         /\ work'[c].step = step
         /\ work'[c].result = work[c].result
         /\ work'[c].digest = work[c].digest
<1>1. work[c] \in Working /\ work \in [Client -> Working \cup {NoWork}]
  BY DEF StoreTypeOK, Busy
<1>2. work' = [work EXCEPT ![c] = [work[c] EXCEPT !.step = step]]
  BY <1>1 DEF GoTo
<1> DEFINE w == [work[c] EXCEPT !.step = step]
<1>3. /\ w \in Working
      /\ w.step = step
      /\ w.result = work[c].result
      /\ w.digest = work[c].digest
  BY <1>1, WorkingUpdated, Zenon
<1>4. work' = [work EXCEPT ![c] = w]
  BY <1>2
<1> HIDE DEF w
<1>. QED BY <1>1, <1>3, <1>4

(* Settle ends the command and says what became of it.                     *)
LEMMA SettleMoves ==
  ASSUME StoreTypeOK, NEW c \in Client, Busy(c), NEW result \in {"ok", "failed"},
         Settle(c, result)
  PROVE  /\ work' \in [Client -> Working \cup {NoWork}]
         /\ \A d \in Client \ {c} : work'[d] = work[d]
         /\ work'[c] \in Working
         /\ work'[c].step \in {"done", "cleanup"}
         /\ work'[c].result = result
         /\ work'[c].digest = work[c].digest
<1>1. work[c] \in Working /\ work \in [Client -> Working \cup {NoWork}]
  BY DEF StoreTypeOK, Busy
<1>2. PICK step \in {"done", "cleanup"} :
        work' = [work EXCEPT ![c] = [work[c] EXCEPT !.result = result, !.step = step]]
  BY <1>1 DEF Settle
<1>3. step \in Steps
  BY DEF Steps
<1> DEFINE w == [work[c] EXCEPT !.result = result, !.step = step]
<1>4. /\ w \in Working
      /\ w.step = step
      /\ w.result = result
      /\ w.digest = work[c].digest
  BY <1>1, <1>3 DEF Working
<1>5. work' = [work EXCEPT ![c] = w]
  BY <1>2
<1> HIDE DEF w
<1>. QED BY <1>1, <1>4, <1>5

(* A step of c that leaves the lock and the work of others alone keeps the *)
(* invariant, if it renames only what is complete, repairs only what is    *)
(* damaged and reports only what is there.                                 *)
LEMMA MoveKeeps ==
  ASSUME StoreInv, NEW c \in Client, Busy(c),
         entry' \in [Digest -> Entry],
         staged' \in [Client -> {"none", "partial", "full"}],
         \A d \in Client \ {c} : staged'[d] = staged[d],
         work' \in [Client -> Working \cup {NoWork}],
         \A d \in Client \ {c} : work'[d] = work[d],
         work'[c] \in Working, work'[c].digest = work[c].digest,
         work'[c].step = "rename" => staged'[c] = "full",
         work'[c].step = "remove" => There(c)' # "intact",
         work'[c].result = "ok" =>
           There(c)' = "intact" \/ (work[c].result = "ok" /\ UNCHANGED entry),
         work'[c].result # "none" => work'[c].step \in {"cleanup", "done"},
         UNCHANGED <<failures, damaged, reliable, lockVars>>
  PROVE  StoreInv'
<1>1. StoreTypeOK'
  BY DEF StoreInv, StoreTypeOK, LockTypeOK, lockVars
<1>2. \A d \in Client : Busy(d)' => Busy(d)
  BY DEF Busy
<1>3. StagedFirst'
  BY DEF StoreInv, StagedFirst, At, Busy
<1>4. WorkersHold'
  BY <1>2 DEF StoreInv, WorkersHold, lockVars
<1>5. SeenIsTrue'
  <2> SUFFICES ASSUME reliable, NEW d \in Client, Busy(d)'
               PROVE  /\ At(d, "remove")' => There(d)' # "intact"
                      /\ work'[d].result = "ok" /\ work'[d].digest \notin damaged =>
                           There(d)' = "intact"
    BY DEF SeenIsTrue, At
  <2>1. d = c
    BY <1>2, NoClientAssumption, OneWorker DEF StoreInv
  <2>2. Busy(c) /\ work[c].result = "ok" /\ work[c].digest \notin damaged =>
          There(c) = "intact"
    BY DEF StoreInv, SeenIsTrue
  <2>. QED BY <2>1, <2>2 DEF At, There
<1>. QED BY <1>1, <1>3, <1>4, <1>5 DEF StoreInv

(* Every step of a command that stays at work keeps the invariant.         *)
LEMMA WorkInvStep ==
  ASSUME StoreInv, NEW c \in Client, WorkStep(c), ~Done(c), UNCHANGED reliable
  PROVE  StoreInv'
<1>1. Busy(c)
  BY DEF WorkStep, Check, Acquire, Recheck, Remove, Exists, Verify, Build, Rename, Raced,
         Cleanup, At
<1>2. /\ StoreTypeOK
      /\ work \in [Client -> Working \cup {NoWork}]
      /\ work[c] \in Working /\ work[c].digest \in Digest
      /\ work[c].result \in {"none", "ok", "failed"}
      /\ At(c, "rename") => staged[c] = "full"
      /\ work[c].result # "none" => work[c].step \in {"cleanup", "done"}
      /\ There(c) \in Entry
      /\ entry \in [Digest -> Entry]
      /\ staged \in [Client -> {"none", "partial", "full"}]
  BY <1>1 DEF StoreInv, StoreTypeOK, StagedFirst, SeenIsTrue, Busy, Working, There
<1>3. ASSUME UNCHANGED <<entry, staged, failures, damaged, lockVars>>,
             work[c].result = "none",
             \/ \E step \in Steps \ {"rename"} :
                   GoTo(c, step) /\ (step = "remove" => There(c) # "intact")
             \/ \E result \in {"ok", "failed"} :
                   Settle(c, result) /\ (result = "ok" => There(c) = "intact")
      PROVE  StoreInv'
  <2>1. CASE \E step \in Steps \ {"rename"} :
               GoTo(c, step) /\ (step = "remove" => There(c) # "intact")
    BY <1>1, <1>2, <1>3, <2>1, GoToMoves, MoveKeeps DEF There
  <2>2. CASE \E result \in {"ok", "failed"} :
               Settle(c, result) /\ (result = "ok" => There(c) = "intact")
    BY <1>1, <1>2, <1>3, <2>2, SettleMoves, MoveKeeps DEF There
  <2>. QED BY <1>3, <2>1, <2>2
<1>4. CASE Check(c) \/ Acquire(c) \/ Recheck(c) \/ Exists(c) \/ Verify(c) \/ Raced(c)
  BY <1>2, <1>3, <1>4 DEF Check, Acquire, Recheck, Exists, Verify, Raced, At, Steps
<1>5. CASE Remove(c)
  <2>1. /\ work[c].step = "remove" /\ work[c].result = "none"
        /\ UNCHANGED <<staged, failures, damaged, lockVars>>
    BY <1>2, <1>5 DEF Remove, At
  <2>2. CASE UNCHANGED entry /\ GoTo(c, "exists")
    BY <1>3, <2>1, <2>2 DEF Steps
  <2>3. CASE \E what \in {"partial", "empty"} : Becomes(c, what) /\ UNCHANGED work
    BY <1>1, <1>2, <2>1, <2>3, MoveKeeps DEF Becomes, Entry, There
  <2>4. CASE Becomes(c, "absent") /\ GoTo(c, "exists")
    <3>1. entry' \in [Digest -> Entry]
      BY <1>2, <2>4 DEF Becomes, Entry
    <3>. QED BY <1>1, <1>2, <2>1, <2>4, <3>1, GoToMoves, MoveKeeps DEF Steps
  <2>. QED BY <1>5, <2>2, <2>3, <2>4 DEF Remove
<1>6. CASE Build(c)
  <2>1. /\ work[c].step = "build" /\ work[c].result = "none"
        /\ UNCHANGED <<entry, failures, damaged, lockVars>>
    BY <1>2, <1>6 DEF Build, At
  <2>2. CASE UNCHANGED work /\ staged' = [staged EXCEPT ![c] = "partial"]
    BY <1>1, <1>2, <2>1, <2>2, MoveKeeps
  <2>3. CASE GoTo(c, "rename") /\ staged' = [staged EXCEPT ![c] = "full"]
    BY <1>1, <1>2, <2>1, <2>3, GoToMoves, MoveKeeps DEF Steps
  <2>. QED BY <1>6, <2>2, <2>3 DEF Build
<1>7. CASE Rename(c)
  <2>1. /\ work[c].step = "rename" /\ work[c].result = "none" /\ staged[c] = "full"
        /\ UNCHANGED <<failures, damaged, lockVars>>
    BY <1>2, <1>7 DEF Rename, At
  <2>2. CASE UNCHANGED <<entry, staged>> /\ GoTo(c, "raced")
    BY <1>3, <2>1, <2>2 DEF Steps
  <2>3. CASE /\ Becomes(c, "intact")
             /\ staged' = [staged EXCEPT ![c] = "none"]
             /\ work' = [work EXCEPT ![c].result = "ok", ![c].step = "cleanup"]
    <3>1. entry' \in [Digest -> Entry] /\ entry'[work[c].digest] = "intact"
      BY <1>2, <2>3 DEF Becomes, Entry
    <3> DEFINE w == [work[c] EXCEPT !.result = "ok", !.step = "cleanup"]
    <3>2. /\ w \in Working /\ w.step = "cleanup" /\ w.result = "ok"
          /\ w.digest = work[c].digest
      BY <1>2 DEF Working, Steps
    <3>3. work' = [work EXCEPT ![c] = w]
      BY <1>2, <2>3
    <3> HIDE DEF w
    <3>4. /\ staged' \in [Client -> {"none", "partial", "full"}]
          /\ \A d \in Client \ {c} : staged'[d] = staged[d]
      BY <1>2, <2>3
    <3>5. /\ work' \in [Client -> Working \cup {NoWork}] /\ work'[c] = w
          /\ \A d \in Client \ {c} : work'[d] = work[d]
      BY <1>2, <3>2, <3>3
    <3>6. There(c)' = "intact"
      BY <3>1, <3>2, <3>5 DEF There
    <3>. QED BY <1>1, <2>1, <3>1, <3>2, <3>4, <3>5, <3>6, MoveKeeps
  <2>. QED BY <1>7, <2>1, <2>2, <2>3 DEF Rename
<1>8. CASE Cleanup(c)
  <2>1. GoTo(c, "done") /\ UNCHANGED <<entry, failures, damaged, lockVars>>
        /\ staged' = [staged EXCEPT ![c] = "none"]
    BY <1>8 DEF Cleanup
  <2>. QED BY <1>1, <1>2, <2>1, GoToMoves, MoveKeeps DEF Steps
<1>. QED BY <1>4, <1>5, <1>6, <1>7, <1>8 DEF WorkStep

(* A command that returns or dies, and one that starts.                    *)
LEMMA ComeAndGo ==
  ASSUME StoreInv, NEW c \in Client, UNCHANGED <<entry, reliable>>,
         \/ Return(c) /\ failures' \in 0..MaxFailures /\ UNCHANGED damaged
         \/ StartStep(c)
  PROVE  StoreInv'
<1>1. CASE Return(c) /\ failures' \in 0..MaxFailures /\ UNCHANGED damaged
  BY <1>1 DEF StoreInv, StoreTypeOK, StagedFirst, WorkersHold, SeenIsTrue, LockTypeOK, Return,
     Close, At, Busy, There
<1>2. CASE StartStep(c)
  <2>1. PICK kind \in Kinds, d \in Digest : Start(c, kind, d)
    BY <1>2 DEF StartStep
  <2> DEFINE w == [kind |-> kind, digest |-> d, result |-> "none",
                   step |-> IF kind = "repair" THEN "check" ELSE "exists"]
  <2>2. w \in Working /\ w.result = "none" /\ w.step \in {"check", "exists"}
    BY DEF Working, Steps
  <2>3. /\ work' = [work EXCEPT ![c] = w]
        /\ session[c] = "held" /\ ~Busy(c) /\ damaged' = {}
        /\ UNCHANGED <<entry, staged, failures, lockVars>>
    BY <2>1 DEF Start, CheckHeld
  <2> HIDE DEF w
  <2>4. StoreTypeOK'
    BY <2>2, <2>3 DEF StoreInv, StoreTypeOK, LockTypeOK, lockVars
  <2>5. /\ work'[c] = w
        /\ \A e \in Client \ {c} : work'[e] = work[e]
    BY <2>3 DEF StoreInv, StoreTypeOK
  <2>6. StagedFirst' /\ WorkersHold'
    BY <2>2, <2>3, <2>5 DEF StoreInv, StagedFirst, WorkersHold, lockVars, At, Busy
  <2>7. ASSUME reliable, NEW e \in Client, Busy(e)'
        PROVE  e = c
    BY <2>3, <2>5, <2>7, NoClientAssumption DEF StoreInv, WorkersHold, Busy
  <2>8. SeenIsTrue'
    BY <1>2, <2>2, <2>3, <2>5, <2>7 DEF SeenIsTrue, At
  <2>. QED BY <2>4, <2>6, <2>8 DEF StoreInv
<1>. QED BY <1>1, <1>2

(* A step of the lock: with reliable helpers it never leaves a worker      *)
(* without it.                                                             *)
LEMMA LockStepKeeps ==
  ASSUME StoreInv, NEW c \in Client, LockStep(c),
         UNCHANGED <<entry, staged, work, damaged, reliable>>
  PROVE  StoreInv'
<1>1. LockTypeOK' /\ failures' \in 0..MaxFailures
  BY NoClientAssumption, BoundAssumption
     DEF StoreInv, StoreTypeOK, LockTypeOK, LockStep, Grant, Open, NoticeLoss, Free, Close
<1>2. StoreTypeOK' /\ StagedFirst' /\ SeenIsTrue'
  BY <1>1 DEF StoreInv, StoreTypeOK, StagedFirst, SeenIsTrue, At, Busy, There
<1>3. WorkersHold'
  BY NoClientAssumption
     DEF StoreInv, StoreTypeOK, LockTypeOK, WorkersHold, LockStep, Grant, Open, NoticeLoss,
         Free, Close, Busy
<1>. QED BY <1>2, <1>3 DEF StoreInv

(* What the user does to an entry harms no command that has not seen it.   *)
LEMMA UserDamageKeeps ==
  ASSUME StoreInv, NEW d \in Digest, UserDamage(d), UNCHANGED reliable
  PROVE  StoreInv'
<1>1. PICK what \in {"corrupt", "partial", "absent"} : entry' = [entry EXCEPT ![d] = what]
  BY DEF UserDamage
<1>2. entry' \in [Digest -> Entry] /\ entry'[d] # "intact"
      /\ \A e \in Digest \ {d} : entry'[e] = entry[e]
  BY <1>1 DEF StoreInv, StoreTypeOK, Entry
<1>3. failures' \in 0..MaxFailures /\ damaged' = damaged \cup {d}
      /\ UNCHANGED <<staged, work, lockVars>>
  BY BoundAssumption DEF StoreInv, StoreTypeOK, UserDamage
<1>4. StoreTypeOK' /\ StagedFirst' /\ WorkersHold'
  BY <1>2, <1>3 DEF StoreInv, StoreTypeOK, StagedFirst, WorkersHold, LockTypeOK, lockVars,
     At, Busy
<1>5. SeenIsTrue'
  BY <1>2, <1>3 DEF StoreInv, StoreTypeOK, SeenIsTrue, At, Busy, There, Working
<1>. QED BY <1>4, <1>5 DEF StoreInv

(* Every step keeps the invariant.                                         *)
LEMMA StoreInvStep == StoreInv /\ [Next]_vars => StoreInv'
<1> SUFFICES ASSUME StoreInv, [Next]_vars
             PROVE  StoreInv'
  OBVIOUS
<1>1. ASSUME NEW c \in Client, WorkStep(c), UNCHANGED reliable
      PROVE  StoreInv'
  <2>1. CASE Done(c)
    BY <1>1, <2>1, ComeAndGo DEF StoreInv, StoreTypeOK, Done
  <2>. QED BY <1>1, <2>1, WorkInvStep
<1>2. ASSUME NEW c \in Client, Stop(c), UNCHANGED reliable
      PROVE  StoreInv'
  <2>1. failures' \in 0..MaxFailures
    BY <1>2, BoundAssumption DEF StoreInv, StoreTypeOK, Stop
  <2>. QED BY <1>2, <2>1, ComeAndGo DEF Stop
<1>3. ASSUME NEW c \in Client, StartStep(c), UNCHANGED reliable
      PROVE  StoreInv'
  BY <1>3, ComeAndGo DEF StartStep, Start
<1>4. CASE UNCHANGED vars
  BY <1>4 DEF vars, storeVars, lockVars, StoreInv, StoreTypeOK, StagedFirst, WorkersHold,
     SeenIsTrue, LockTypeOK, At, Busy, There
<1>. QED BY <1>1, <1>2, <1>3, <1>4, LockStepKeeps, UserDamageKeeps DEF Next

(* The invariant holds in every reachable state.                           *)
THEOREM StoreInvariant == Spec => []StoreInv
<1>1. Init => StoreInv
  BY BoundAssumption, NoClientAssumption
     DEF Init, LockInit, StoreInv, StoreTypeOK, StagedFirst, WorkersHold, SeenIsTrue,
         LockTypeOK, Entry, At, Busy
<1>. QED BY <1>1, StoreInvStep, PTL DEF Spec

(* The types of the store, and: what a command reports as published,       *)
(* existing or repaired can be projected from the store, as long as no     *)
(* lock is lost.                                                           *)
THEOREM StoreStaysSound == Spec => []StoreSound
<1>1. StoreInv => StoreSound
  BY DEF StoreInv, SeenIsTrue, StoreSound, SuccessIsIntact, At
<1>. QED BY <1>1, StoreInvariant, PTL

(* Whatever dies and whoever races, an entry comes into being complete.    *)
THEOREM EntriesAppearIntact == Spec => AppearsIntact
<1>1. ASSUME StoreInv, [Next]_vars, NEW d \in Digest, entry[d] \in {"absent", "empty"}
      PROVE  entry'[d] \in {"absent", "empty", "intact"}
  <2>1. CASE UNCHANGED entry
    BY <1>1, <2>1
  <2>2. ASSUME NEW c \in Client, Remove(c) \/ Rename(c)
        PROVE  entry'[d] \in {"absent", "empty", "intact"}
    BY <1>1, <2>2 DEF StoreInv, StoreTypeOK, StagedFirst, Remove, Rename, Becomes, There
  <2>3. ASSUME NEW e \in Digest, UserDamage(e)
        PROVE  entry'[d] \in {"absent", "empty", "intact"}
    BY <1>1, <2>3 DEF StoreInv, StoreTypeOK, UserDamage
  <2>. QED BY <1>1, <2>1, <2>2, <2>3
     DEF Next, vars, storeVars, WorkStep, StartStep, Stop, Start, Check, Acquire, Recheck,
         Exists, Verify, Build, Raced, Cleanup, Done
<1>2. StoreInv /\ [Next]_vars =>
        [\A d \in Digest :
           entry[d] \in {"absent", "empty"} =>
             entry'[d] \in {"absent", "empty", "intact"}]_vars
  BY <1>1
<1>. QED BY <1>2, StoreInvariant, PTL DEF Spec, AppearsIntact

(* No command harms an intact entry, as long as no lock is lost.           *)
THEOREM CommandsHarmNothing == Spec => OnlyUserHarms
<1>1. ASSUME StoreInv, [Next]_vars, NEW d \in Digest, reliable, entry[d] = "intact",
             entry'[d] # "intact"
      PROVE  UserDamage(d)
  <2>1. ASSUME NEW c \in Client, Remove(c) \/ Rename(c)
        PROVE  FALSE
    BY <1>1, <2>1 DEF StoreInv, StoreTypeOK, SeenIsTrue, Remove, Rename, Becomes, There, At
  <2>2. ASSUME NEW e \in Digest, UserDamage(e)
        PROVE  e = d
    BY <1>1, <2>2 DEF StoreInv, StoreTypeOK, UserDamage
  <2>. QED BY <1>1, <2>1, <2>2
     DEF Next, vars, storeVars, WorkStep, StartStep, Stop, Start, Check, Acquire, Recheck,
         Exists, Verify, Build, Raced, Cleanup, Done
<1>2. StoreInv /\ [Next]_vars =>
        [\A d \in Digest :
           reliable /\ entry[d] = "intact" /\ entry'[d] # "intact" => UserDamage(d)]_vars
  BY <1>1
<1>. QED BY <1>2, StoreInvariant, PTL DEF Spec, OnlyUserHarms
=============================================================================
