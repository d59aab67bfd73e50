----------------------- MODULE ImportLifecycle_proofs -----------------------
(* Proofs about imports and their recovery, for any number of names of each *)
(* kind and without a bound on failures and edits.                         *)
EXTENDS ImportLifecycle, TLAPS

Command ==
  [kind: {"none", "import", "recover"},
   step: {"none", "ask", "stage", "activate", "users", "clean"},
   todo: SUBSET Name]

(* What was to be put under the name is there, or was until the user had   *)
(* the name.                                                               *)
Settled(n) == InPlace(n) \/ n \in touched

(* How far a command has come shows in the registry, the containers and    *)
(* the directory.                                                          *)
CommandFits ==
  /\ cmd.step = "stage" =>
       /\ accepted # "new" /\ pending # NoRow /\ cmd.todo \subseteq Staged
       /\ \A n \in Staged \ cmd.todo : container[n] = "full"
  /\ cmd.step \in {"activate", "users"} => accepted = "new" /\ pending # NoRow
  /\ cmd.step = "activate" =>
       cmd.todo \subseteq New /\ \A n \in New \ cmd.todo : Settled(n)
  /\ cmd.step = "users" =>
       cmd.todo \subseteq Payload /\ \A n \in Staged \ cmd.todo : Settled(n)
  /\ cmd.step = "clean" =>
       /\ accepted = "new" => marker = "new"
       /\ \A n \in Name \ cmd.todo : container[n] = "none"

(* A row that announces a commit that did not happen names the accepted    *)
(* state as its base, and the marker is not ahead.                         *)
RowFits ==
  /\ pending # NoRow /\ accepted # "new" => pending.base = accepted
  /\ marker = "new" => accepted = "new"

(* A merge changes nothing that it keeps.                                  *)
KeptShown == mode = "merge" => \A n \in Kept : Settled(n)

(* Only the user puts something else where a payload belongs.              *)
OwnNames == \A n \in Payload : dir[n] \in {"nothing", "payload"} \/ n \in touched

ImportInv ==
  /\ TypeOK /\ cmd \in Command /\ edits \in Nat
  /\ CommandFits /\ RowFits /\ KeptShown
  /\ OwnNames /\ PayloadsAccounted /\ MarkerMeansComplete

(* What the helpers of the actions do to the command.                      *)
LEMMA CommandMoves ==
  ASSUME cmd \in Command
  PROVE  /\ \A step \in {"activate", "users", "clean", "stage"}, todo \in SUBSET Name :
              GoTo(step, todo) =>
                cmd' \in Command /\ cmd'.step = step /\ cmd'.todo = todo
         /\ \A n : Ticked(n) =>
              cmd' \in Command /\ cmd'.step = cmd.step /\ cmd'.todo = cmd.todo \ {n}
         /\ Fail \/ Succeed => cmd' \in Command /\ cmd'.step = "none"
         /\ cmd.todo \subseteq Name
<1>1. cmd.todo \subseteq Name
  BY DEF Command
<1>2. ASSUME NEW step \in {"activate", "users", "clean", "stage"}, NEW todo \in SUBSET Name,
             GoTo(step, todo)
      PROVE  cmd' \in Command /\ cmd'.step = step /\ cmd'.todo = todo
  BY <1>2 DEF Command, GoTo
<1>3. ASSUME NEW n, Ticked(n)
      PROVE  cmd' \in Command /\ cmd'.step = cmd.step /\ cmd'.todo = cmd.todo \ {n}
  <2> DEFINE todo == cmd.todo \ {n}
  <2>1. todo \in SUBSET Name
    BY <1>1
  <2>2. cmd' = [cmd EXCEPT !.todo = todo]
    BY <1>3 DEF Ticked
  <2> HIDE DEF todo
  <2>3. cmd' \in Command /\ cmd'.step = cmd.step /\ cmd'.todo = todo
    BY <2>1, <2>2 DEF Command
  <2>. QED BY <2>3 DEF todo
<1>4. Fail \/ Succeed => cmd' \in Command /\ cmd'.step = "none"
  BY DEF Command, Fail, Succeed, Idle
<1>. QED BY <1>1, <1>2, <1>3, <1>4

(* The kinds of names do not overlap.                                      *)
LEMMA NamesApart ==
  /\ Staged = New \cup Payload /\ Name = Kept \cup New \cup Payload
  /\ Kept \cap New = {} /\ Kept \cap Payload = {} /\ New \cap Payload = {}
  /\ NoRow.names = {} /\ NoRow.base = "no operation"
BY NamesAssumption DEF Staged, Name, NoRow

(* A command that only asks, or gives up, keeps the invariant.             *)
LEMMA IdlingKeeps ==
  ASSUME ImportInv, cmd' \in Command, cmd'.step \in {"none", "ask"},
         UNCHANGED <<mode, detached, overtaken, registryFacts, files, edits, touched>>
  PROVE  ImportInv'
BY DEF ImportInv, registryFacts, files, TypeOK, Command, CommandFits, RowFits, KeptShown,
       OwnNames, PayloadsAccounted, MarkerMeansComplete, Settled, InPlace, ManagedNames

(* The steps before the commit keep the invariant.                         *)
LEMMA BeforeCommitKeeps ==
  ASSUME ImportInv,
         \/ StartImport \/ Declined \/ BeginPending \/ MakeContainer \/ FillContainer
         \/ StagingFails \/ CommitRefused
  PROVE  ImportInv'
<1> USE NamesApart
    DEF ImportInv, given, registryFacts, files, bounds, TypeOK, CommandFits, RowFits, KeptShown,
        OwnNames, PayloadsAccounted, MarkerMeansComplete, Settled, InPlace, ManagedNames
<1>1. CASE StartImport
  <2>1. cmd' \in Command /\ cmd'.step = "ask"
    BY <1>1 DEF StartImport, Do, Command
  <2>. QED BY <1>1, <2>1, IdlingKeeps DEF StartImport
<1>2. CASE Declined
  BY <1>2, CommandMoves, IdlingKeeps DEF Declined
<1>3. CASE BeginPending
  <2>1. CASE Ready
    <3>1. GoTo("stage", Staged) /\ pending' = [names |-> Staged, base |-> accepted]
          /\ UNCHANGED <<mode, detached, overtaken, accepted, container, orphans, dir, marker, edits, touched>>
      BY <1>3, <2>1 DEF BeginPending
    <3>2. cmd' \in Command /\ cmd'.step = "stage" /\ cmd'.todo = Staged
      BY <3>1, CommandMoves
    <3>3. accepted \in {"none", "old"} /\ \A n \in Name : container[n] = "none"
      BY <2>1 DEF Ready
    <3>4. pending'.names = Staged /\ pending'.base = accepted
      BY <3>1
    <3>5. pending' # NoRow
      BY <3>3, <3>4
    <3>6. TypeOK' /\ CommandFits' /\ RowFits'
      BY <3>1, <3>2, <3>3, <3>4, <3>5 DEF Command
    <3>7. KeptShown' /\ OwnNames' /\ PayloadsAccounted' /\ MarkerMeansComplete'
      BY <3>1, <3>3
    <3>. QED BY <3>1, <3>2, <3>6, <3>7
  <2>2. CASE ~Ready
    BY <1>3, <2>2, CommandMoves, IdlingKeeps DEF BeginPending
  <2>. QED BY <2>1, <2>2
<1>4. CASE MakeContainer
  <2>1. PICK n \in Name : Stageable(n) /\ container' = [container EXCEPT ![n] = "part"]
    BY <1>4 DEF MakeContainer
  <2>2. /\ cmd.step = "stage" /\ n \in cmd.todo
        /\ UNCHANGED <<mode, detached, overtaken, accepted, pending, orphans, dir, marker, cmd, edits, touched>>
    BY <1>4, <2>1 DEF MakeContainer, Stageable
  <2>3. TypeOK'
    <3>1. n \in Name /\ n \in pending.names
      BY <1>4, <2>1, <2>2
    <3>2. container' \in [Name -> {"none", "part", "full", "spent"}]
      BY <2>1
    <3>3. \A m \in Name : container'[m] # "none" => m \in pending.names
      BY <2>1, <3>1
    <3> HIDE DEF ImportInv, CommandFits, RowFits, KeptShown, OwnNames, PayloadsAccounted,
             MarkerMeansComplete, Settled, InPlace, ManagedNames
    <3>4. TypeOK
      BY DEF ImportInv
    <3>. QED BY <2>2, <3>2, <3>3, <3>4
  <2>5. CommandFits' /\ RowFits'
    BY <2>1, <2>2
  <2>4. KeptShown' /\ OwnNames' /\ PayloadsAccounted' /\ MarkerMeansComplete'
    BY <2>2
  <2>. QED BY <2>2, <2>3, <2>4, <2>5
<1>5. CASE FillContainer
  <2>1. PICK n \in Name : /\ Stageable(n) /\ Ticked(n)
                          /\ container' = [container EXCEPT ![n] = "full"]
    BY <1>5 DEF FillContainer
  <2>2. cmd' \in Command /\ cmd'.step = "stage" /\ cmd'.todo = cmd.todo \ {n}
    BY <1>5, <2>1, CommandMoves DEF FillContainer
  <2>. QED BY <1>5, <2>1, <2>2 DEF FillContainer, Stageable, Command
<1>6. CASE StagingFails
  <2>1. cmd' \in Command /\ cmd'.step = "none"
    BY <1>6, CommandMoves DEF StagingFails
  <2>2. /\ cmd.step = "stage" /\ pending' = NoRow /\ container' = NoContainers(pending.names)
        /\ UNCHANGED <<mode, detached, overtaken, accepted, orphans, dir, marker, edits, touched>>
    BY <1>6 DEF StagingFails, CanFail
  <2>. QED BY <2>1, <2>2 DEF NoContainers, Command
<1>7. CASE CommitRefused
  <2>1. cmd' \in Command /\ cmd'.step = "none"
    BY <1>7, CommandMoves DEF CommitRefused
  <2>2. /\ cmd.step = "stage" /\ pending' = NoRow /\ container' = NoContainers(Staged)
        /\ orphans' = orphans \cup Payload
        /\ UNCHANGED <<mode, detached, overtaken, accepted, dir, marker, edits, touched>>
    BY <1>7 DEF CommitRefused, CanFail
  <2>. QED BY <2>1, <2>2 DEF NoContainers, Command
<1>. QED BY <1>1, <1>2, <1>3, <1>4, <1>5, <1>6, <1>7

(* What is moved out of its container is in place, and nothing else moves. *)
LEMMA MoveOutSettles ==
  ASSUME TypeOK, NEW n \in Name,
         MoveOut(n, IF n \in Payload THEN "payload" ELSE "product"), UNCHANGED touched
  PROVE  \A m \in Name : Settled(m) \/ m = n => Settled(m)'
<1>1. InPlace(n)'
  BY DEF TypeOK, MoveOut, InPlace
<1>2. ASSUME NEW m \in Name, m # n
      PROVE  Settled(m) => Settled(m)'
  BY <1>2 DEF TypeOK, MoveOut, InPlace, Settled
<1>. QED BY <1>1, <1>2 DEF Settled

(* The commit and the activation keep the invariant.                       *)
LEMMA ActivationKeeps ==
  ASSUME ImportInv,
         Commit \/ ActivateManaged \/ AllManaged \/ ActivateUser \/ WriteMarker \/ MarkerFails
  PROVE  ImportInv'
<1> USE NamesApart
    DEF ImportInv, given, registryFacts, files, bounds, TypeOK, CommandFits, RowFits, KeptShown,
        OwnNames, PayloadsAccounted, MarkerMeansComplete, Settled, InPlace, ManagedNames
<1>1. CASE Commit
  <2>1. cmd' \in Command /\ cmd'.step = "activate" /\ cmd'.todo = New
    BY <1>1, CommandMoves DEF Commit
  <2>. QED BY <1>1, <2>1 DEF Commit, Command
<1>2. ASSUME NEW n \in Staged, NEW content \in {"product", "payload"},
             content = IF n \in Payload THEN "payload" ELSE "product",
             MoveOut(n, content), Ticked(n), cmd.step \in {"activate", "users"},
             UNCHANGED <<mode, detached, overtaken, registryFacts, orphans, marker, bounds>>
      PROVE  ImportInv'
  <2>1. cmd' \in Command /\ cmd'.step = cmd.step /\ cmd'.todo = cmd.todo \ {n}
    BY <1>2, CommandMoves
  <2>2. /\ dir' = [dir EXCEPT ![n] = content]
        /\ container' = [container EXCEPT ![n] = "spent"]
        /\ UNCHANGED <<mode, detached, overtaken, accepted, pending, orphans, marker, edits, touched>>
        /\ n \in pending.names
    BY <1>2 DEF MoveOut
  <2>3. \A m \in Name : Settled(m) \/ m = n => Settled(m)'
    BY <1>2, <2>2, MoveOutSettles
  <2>4. TypeOK'
    BY <2>1, <2>2 DEF Command
  <2>5. CommandFits'
    BY <1>2, <2>1, <2>3
  <2>7. RowFits'
    BY <2>2
  <2>8. KeptShown'
    <3> HIDE DEF Settled
    <3>1. Kept \subseteq Name /\ mode' = mode
      BY <2>2
    <3>. QED BY <2>3, <3>1
  <2>6. PayloadsAccounted' /\ MarkerMeansComplete'
    <3>1. \A m \in Name : m # n => container'[m] = container[m]
      BY <2>2
    <3>2. Settled(n)'
      BY <2>3
    <3>3. \A m \in Name : Settled(m) => Settled(m)'
      BY <2>3
    <3>4. UNCHANGED <<mode, detached, overtaken, accepted, pending, marker>>
      BY <1>2
    <3> HIDE DEF InPlace, CommandFits, RowFits, KeptShown, OwnNames, TypeOK, ImportInv
    <3>5. PayloadsAccounted /\ MarkerMeansComplete
      BY DEF ImportInv
    <3> HIDE DEF PayloadsAccounted, MarkerMeansComplete, Settled
    <3>6. PayloadsAccounted'
      BY <3>1, <3>2, <3>3, <3>4, <3>5 DEF PayloadsAccounted, Settled
    <3>7. MarkerMeansComplete'
      BY <3>2, <3>3, <3>4, <3>5 DEF MarkerMeansComplete, Settled, ManagedNames
    <3>. QED BY <3>6, <3>7
  <2>9. OwnNames'
    BY <1>2, <2>2
  <2>. QED BY <1>2, <2>1, <2>4, <2>5, <2>6, <2>7, <2>8, <2>9
<1>3. ASSUME NEW n \in Staged, Ticked(n), cmd.step \in {"activate", "users"}, InPlace(n),
             UNCHANGED <<mode, detached, overtaken, registryFacts, files, bounds>>
      PROVE  ImportInv'
  <2>1. cmd' \in Command /\ cmd'.step = cmd.step /\ cmd'.todo = cmd.todo \ {n}
    BY <1>3, CommandMoves
  <2>2. UNCHANGED <<mode, detached, overtaken, accepted, pending, container, orphans, dir, marker, edits, touched>>
    BY <1>3
  <2>3. TypeOK' /\ KeptShown' /\ RowFits'
    BY <2>1, <2>2 DEF Command
  <2>4. CommandFits'
    <3>1. \A m \in Name : Settled(m)' <=> Settled(m)
      BY <2>2
    <3>2. Settled(n) /\ n \in Name
      BY <1>3
    <3>3. cmd.step \in {"activate", "users"} /\ New \subseteq Name /\ Staged \subseteq Name
      BY <1>3
    <3>4. CommandFits /\ accepted' = accepted /\ pending' = pending
      BY <2>2
    <3> HIDE DEF Settled, InPlace, OwnNames, PayloadsAccounted, MarkerMeansComplete, KeptShown, RowFits,
             ManagedNames, TypeOK, ImportInv
    <3>5. ASSUME cmd.step = "activate"
          PROVE  /\ accepted = "new" /\ pending # NoRow /\ cmd.todo \subseteq New
                 /\ \A m \in New \ (cmd.todo \ {n}) : Settled(m)'
      BY <3>1, <3>2, <3>3, <3>4, <3>5
    <3>6. ASSUME cmd.step = "users"
          PROVE  /\ accepted = "new" /\ pending # NoRow /\ cmd.todo \subseteq Payload
                 /\ \A m \in Staged \ (cmd.todo \ {n}) : Settled(m)'
      BY <3>1, <3>2, <3>3, <3>4, <3>6
    <3>7. cmd'.step = cmd.step /\ cmd'.todo = cmd.todo \ {n}
      BY <2>1
    <3>. QED BY <3>3, <3>4, <3>5, <3>6, <3>7
  <2>. QED BY <2>1, <2>2, <2>3, <2>4
<1>4. CASE ActivateManaged
  <2>1. PICK n \in cmd.todo :
          \/ MoveOut(n, "product") /\ Ticked(n)
          \/ dir[n] = "product" /\ Ticked(n) /\ UNCHANGED <<dir, container>>
          \/ Fail /\ UNCHANGED <<dir, container>>
    BY <1>4 DEF ActivateManaged, AlreadyShown
  <2>2. n \in New /\ UNCHANGED <<mode, detached, overtaken, registryFacts, orphans, marker, bounds>>
        /\ cmd.step = "activate"
    BY <1>4 DEF ActivateManaged
  <2>. QED BY <1>2, <1>3, <2>1, <2>2, CommandMoves, IdlingKeeps
<1>5. CASE AllManaged
  <2>1. cmd' \in Command /\ cmd'.step = "users" /\ cmd'.todo = Payload
    BY <1>5, CommandMoves DEF AllManaged
  <2>. QED BY <1>5, <2>1 DEF AllManaged, Command
<1>6. CASE ActivateUser
  <2>1. PICK n \in cmd.todo :
          \/ MoveOut(n, "payload") /\ Ticked(n)
          \/ dir[n] = "payload" /\ Ticked(n) /\ UNCHANGED <<dir, container>>
          \/ Fail /\ UNCHANGED <<dir, container>>
    BY <1>6 DEF ActivateUser, PayloadActivated
  <2>2. n \in Payload /\ UNCHANGED <<mode, detached, overtaken, registryFacts, orphans, marker, bounds>>
        /\ cmd.step = "users"
    BY <1>6 DEF ActivateUser
  <2>. QED BY <1>2, <1>3, <2>1, <2>2, CommandMoves, IdlingKeeps
<1>7. CASE WriteMarker
  <2>1. /\ cmd' \in Command /\ cmd'.step = "clean" /\ cmd'.todo = pending.names
        /\ accepted = "new" /\ pending # NoRow /\ cmd.step = "users" /\ cmd.todo = {}
    BY <1>7, CommandMoves DEF WriteMarker, UsersDone
  <2>. QED BY <1>7, <2>1 DEF WriteMarker, Command
<1>8. CASE MarkerFails
  BY <1>8, CommandMoves, IdlingKeeps DEF MarkerFails, CanFail
<1>. QED BY <1>1, <1>4, <1>5, <1>6, <1>7, <1>8

(* Cleaning, recovery and the death of a command keep the invariant.       *)
LEMMA RecoveryKeeps ==
  ASSUME ImportInv, CleanContainer \/ CompleteRow \/ RecoverImport \/ Crash
  PROVE  ImportInv'
<1> USE NamesApart
    DEF ImportInv, given, registryFacts, files, bounds, TypeOK, CommandFits, RowFits, KeptShown,
        OwnNames, PayloadsAccounted, MarkerMeansComplete, Settled, InPlace, ManagedNames
<1>1. CASE CleanContainer
  <2>1. PICK n \in cmd.todo : container' = NoContainers({n}) /\ Ticked(n)
    BY <1>1 DEF CleanContainer
  <2>2. /\ cmd' \in Command /\ cmd'.step = "clean" /\ cmd'.todo = cmd.todo \ {n}
        /\ cmd.step = "clean"
        /\ UNCHANGED <<mode, detached, overtaken, accepted, pending, orphans, dir, marker, edits, touched>>
    BY <1>1, <2>1, CommandMoves DEF CleanContainer
  <2>3. TypeOK' /\ CommandFits' /\ RowFits' /\ KeptShown'
    BY <2>1, <2>2 DEF NoContainers, Command
  <2>4. OwnNames' /\ PayloadsAccounted' /\ MarkerMeansComplete'
    BY <2>2
  <2>. QED BY <2>2, <2>3, <2>4
<1>2. CASE CompleteRow
  <2>1. /\ cmd' \in Command /\ cmd'.step = "none"
        /\ cmd.step = "clean" /\ cmd.todo = {}
        /\ pending' = NoRow
        /\ UNCHANGED <<mode, detached, overtaken, accepted, container, orphans, dir, marker, edits, touched>>
    BY <1>2, CommandMoves DEF CompleteRow, AllAreClean
  <2>2. TypeOK' /\ CommandFits' /\ RowFits' /\ KeptShown'
    BY <2>1 DEF Command
  <2>3. OwnNames' /\ PayloadsAccounted' /\ MarkerMeansComplete'
    BY <2>1
  <2>. QED BY <2>1, <2>2, <2>3
<1>3. CASE RecoverImport
  <2>1. /\ pending # NoRow /\ pending.names = Staged
        /\ UNCHANGED <<mode, detached, overtaken, accepted, pending, container, orphans, dir, marker, edits, touched>>
    BY <1>3 DEF RecoverImport
  <2>2. Committed <=> accepted = "new"
    BY <2>1 DEF Committed
  <2>3. /\ cmd' \in Command
        /\ cmd'.step = IF Committed THEN "activate" ELSE "clean"
        /\ cmd'.todo = IF Committed THEN New ELSE pending.names
    BY <1>3, <2>1 DEF RecoverImport, Command
  <2>4. TypeOK' /\ RowFits' /\ KeptShown'
    BY <2>1, <2>3 DEF Command
  <2>5. CommandFits'
    BY <2>1, <2>2, <2>3
  <2>. QED BY <2>1, <2>3, <2>4, <2>5
<1>4. CASE Crash
  BY <1>4, CommandMoves, IdlingKeeps DEF Crash, CanFail
<1>. QED BY <1>1, <1>2, <1>3, <1>4

(* Sync keeps the invariant: detached payloads are safe from its cleaning  *)
(* because it refuses while one that an import accepted is not live, and   *)
(* the skills are, if recovery went first.                                 *)
LEMMA SyncKeeps ==
  ASSUME ImportInv, Sync
  PROVE  ImportInv'
<1> USE NamesApart DEF ImportInv, TypeOK, RowFits
<1>1. /\ cmd = Idle /\ cmd' = cmd /\ pending' = NoRow /\ accepted # "none"
      /\ container' = NoContainers(pending.names)
      /\ UNCHANGED <<mode, detached, accepted, orphans, edits, touched>>
      /\ DetachRecoverable /\ overtaken' = (overtaken \/ RecoveryApplies)
  BY DEF Sync, bounds, given
<1>2. \/ UNCHANGED <<dir, marker>>
      \/ /\ dir' = [n \in Name |-> IF n \in ManagedNames(accepted) THEN "product" ELSE dir[n]]
         /\ marker' = accepted
  BY DEF Sync
<1>3. ManagedNames(accepted) \subseteq Kept \cup New
  BY DEF ManagedNames
<1>4. dir' \in [Name -> {"nothing", "product", "payload", "other"}]
      /\ \A n \in Name : Settled(n) => Settled(n)'
  <2>1. dir' \in [Name -> {"nothing", "product", "payload", "other"}]
    <3>1. CASE UNCHANGED <<dir, marker>>
      BY <3>1
    <3>2. CASE dir' = [n \in Name |-> IF n \in ManagedNames(accepted)
                                     THEN "product" ELSE dir[n]]
      BY <3>2
    <3>. QED BY <1>2, <3>1, <3>2
  <2>2. ASSUME NEW n \in Name
        PROVE  dir'[n] = dir[n] \/ (n \in Kept \cup New /\ dir'[n] = "product")
    <3>1. CASE UNCHANGED <<dir, marker>>
      BY <3>1
    <3>2. CASE dir' = [m \in Name |-> IF m \in ManagedNames(accepted)
                                     THEN "product" ELSE dir[m]]
      BY <1>3, <3>2
    <3>. QED BY <1>2, <3>1, <3>2
  <2>3. ASSUME NEW n \in Name, Settled(n)
        PROVE  Settled(n)'
    <3>1. n \in Kept \cup New => n \notin Payload
      OBVIOUS
    <3>. QED BY <1>1, <2>2, <2>3, <3>1 DEF Settled, InPlace
  <2>. QED BY <2>1, <2>3
<1>5. TypeOK' /\ RowFits'
  BY <1>1, <1>2, <1>4 DEF NoContainers, RecoveryApplies
<1>6. CommandFits' /\ KeptShown'
  <2>1. CommandFits'
    BY <1>1 DEF CommandFits, Idle
  <2>2. KeptShown'
    <3>1. KeptShown /\ Kept \subseteq Name /\ mode' = mode
      BY <1>1
    <3>. QED BY <1>4, <3>1 DEF KeptShown
  <2>. QED BY <2>1, <2>2
<1>7. ASSUME accepted = "new", NEW n \in Payload
      PROVE  Settled(n) \/ (overtaken' /\ n \notin detached)
  <2>1. CASE Settled(n) \/ (overtaken /\ n \notin detached)
    BY <1>1, <2>1
  <2>2. CASE container[n] = "full" /\ n \in pending.names /\ ~Settled(n)
    <3>1. pending # NoRow
      BY <2>2
    <3>2. CASE marker = "new"
      BY <1>1, <2>2, <3>2 DEF MarkerMeansComplete, Settled
    <3>3. CASE marker # "new" /\ n \notin detached
      BY <1>1, <1>7, <3>1, <3>3 DEF RecoveryApplies
    <3>4. CASE n \in detached
      <4>1. ~Missing(n)
        BY <1>1, <1>7, <2>2, <3>4 DEF DetachRecoverable, Interrupted
      <4>. QED BY <2>2, <4>1 DEF OwnNames, Missing, Settled, InPlace
    <3>. QED BY <3>2, <3>3, <3>4
  <2>. QED BY <1>7, <2>1, <2>2 DEF PayloadsAccounted, Settled
<1>8. PayloadsAccounted'
  BY <1>1, <1>4, <1>7 DEF PayloadsAccounted, Settled
<1>9. ASSUME marker' = "new", NEW n \in ManagedNames("new")' \cup Payload
      PROVE  Settled(n)' \/ (overtaken' /\ n \in Payload \ detached')
  <2>1. /\ accepted = "new" /\ ManagedNames("new")' = ManagedNames("new") /\ detached' = detached
        /\ n \in Name
    BY <1>1, <1>2, <1>9 DEF ManagedNames
  <2>2. CASE n \in Payload
    BY <1>4, <1>7, <2>1, <2>2
  <2>3. CASE n \notin Payload /\ UNCHANGED <<dir, marker>>
    BY <1>4, <1>9, <2>1, <2>3 DEF MarkerMeansComplete, Settled
  <2>4. CASE /\ n \notin Payload
             /\ dir' = [m \in Name |-> IF m \in ManagedNames(accepted) THEN "product" ELSE dir[m]]
    <3>1. dir'[n] = "product"
      BY <1>9, <2>1, <2>4
    <3>. QED BY <2>4, <3>1 DEF Settled, InPlace
  <2>. QED BY <1>2, <2>2, <2>3, <2>4
<1>10. MarkerMeansComplete'
  BY <1>9 DEF MarkerMeansComplete, Settled
<1>11. OwnNames'
  <2>1. \A n \in Payload : n \in Name /\ n \notin ManagedNames(accepted)
    BY <1>3
  <2>2. ASSUME NEW n \in Payload
        PROVE  dir'[n] = dir[n]
    BY <1>2, <2>1
  <2>. QED BY <1>1, <2>2 DEF OwnNames
<1>12. cmd' \in Command /\ edits' \in Nat /\ overtaken' \in BOOLEAN
  BY <1>1 DEF RecoveryApplies
<1>. QED BY <1>5, <1>6, <1>8, <1>10, <1>11, <1>12

(* The user may have what they edit.                                       *)
LEMMA UserEditsKeep ==
  ASSUME ImportInv, UserEdits
  PROVE  ImportInv'
<1>1. PICK n \in Name, content \in {"nothing", "other"} :
        dir' = [dir EXCEPT ![n] = content] /\ touched' = touched \cup {n}
  BY DEF UserEdits
<1>2. UNCHANGED <<mode, detached, overtaken, accepted, pending, container, orphans, marker, cmd>>
      /\ edits' \in Nat
  BY DEF UserEdits, given, registryFacts, ImportInv
<1>3. \A m \in Name : Settled(m) => Settled(m)'
  BY <1>1 DEF ImportInv, TypeOK, Settled, InPlace
<1>4. TypeOK' /\ RowFits'
  BY <1>1, <1>2 DEF ImportInv, TypeOK, RowFits
<1>5. CommandFits' /\ KeptShown'
  BY <1>2, <1>3, NamesApart DEF ImportInv, CommandFits, KeptShown
<1>6. OwnNames' /\ PayloadsAccounted' /\ MarkerMeansComplete'
  <2>1. OwnNames'
    BY <1>1, NamesApart DEF ImportInv, TypeOK, OwnNames
  <2>. QED BY <1>2, <1>3, <2>1, NamesApart
           DEF ImportInv, PayloadsAccounted, MarkerMeansComplete, Settled, ManagedNames
<1>. QED BY <1>2, <1>4, <1>5, <1>6 DEF ImportInv

(* Every step keeps the invariant.                                         *)
LEMMA ImportInvStep == ImportInv /\ [Next]_vars => ImportInv'
<1>1. ASSUME ImportInv, UNCHANGED vars
      PROVE  ImportInv'
  BY <1>1
     DEF vars, given, registryFacts, files, bounds, ImportInv, TypeOK, CommandFits, RowFits, KeptShown,
         OwnNames, PayloadsAccounted, MarkerMeansComplete, Settled, InPlace, ManagedNames
<1>. QED
  BY <1>1, BeforeCommitKeeps, ActivationKeeps, RecoveryKeeps, SyncKeeps, UserEditsKeep
     DEF Next, Step

(* The invariant holds in every reachable state.                           *)
THEOREM ImportInvariant == Spec => []ImportInv
<1>1. ASSUME Init
      PROVE  ImportInv
  <2> USE <1>1, NamesApart DEF Init
  <2>1. cmd \in Command /\ cmd.step = "none" /\ edits \in Nat
    BY DEF Idle, Command
  <2>2. accepted \in {"none", "old"} /\ marker = accepted
    OBVIOUS
  <2>3. TypeOK
    BY <2>1, <2>2 DEF TypeOK, Idle
  <2>4. KeptShown
    BY DEF KeptShown, Settled, InPlace, ManagedNames
  <2>5. CommandFits /\ RowFits /\ OwnNames /\ PayloadsAccounted /\ MarkerMeansComplete
    BY <2>1, <2>2 DEF CommandFits, RowFits, OwnNames, PayloadsAccounted, MarkerMeansComplete,
                      ManagedNames
  <2>. QED BY <2>1, <2>3, <2>4, <2>5 DEF ImportInv
<1>. QED BY <1>1, ImportInvStep, PTL DEF Spec

(* Nothing an import brings is lost, whatever dies and whatever the user   *)
(* edits, in whatever order recovery and sync come, but for skills of the  *)
(* user that are not live yet when a sync goes first.                      *)
THEOREM ImportStaysSound == Spec => []ImportSound
<1>1. ImportInv => ImportSound
  BY DEF ImportInv, ImportSound
<1>. QED BY <1>1, ImportInvariant, PTL

(* A marker of the new generation means that everything is in place, but   *)
(* for skills that a sync before the recovery lost.                        *)
THEOREM MarkerStaysComplete == Spec => []MarkerMeansComplete
<1>1. ImportInv => MarkerMeansComplete
  BY DEF ImportInv
<1>. QED BY <1>1, ImportInvariant, PTL

(* No command removes or replaces what belongs to the user, even where     *)
(* sync goes first.                                                        *)
THEOREM UserContentStays == Spec => UserContentKept
<1>1. ASSUME ImportInv, [Next]_vars, NEW n \in Name, dir[n] \in {"other", "payload"}
      PROVE  dir'[n] = dir[n] \/ edits' # edits
  <2>1. CASE UNCHANGED dir
    BY <2>1
  <2>2. ASSUME NEW m \in Name, NEW content, Missing(m), MoveOut(m, content)
        PROVE  dir'[n] = dir[n]
    BY <1>1, <2>2 DEF ImportInv, TypeOK, Missing, MoveOut
  <2>3. CASE ActivateManaged \/ ActivateUser
    <3>1. cmd.todo \subseteq Name
      BY <1>1 DEF ImportInv, TypeOK
    <3>. QED BY <2>1, <2>2, <2>3, <3>1 DEF ActivateManaged, ActivateUser, PayloadActivated
  <2>4. CASE Sync
    <3>1. CASE UNCHANGED dir
      BY <3>1
    <3>2. CASE /\ dir' = [m \in Name |-> IF m \in ManagedNames(accepted) THEN "product"
                                         ELSE dir[m]]
               /\ \A m \in ManagedNames(accepted) : dir[m] \in {"product", "nothing"}
      BY <1>1, <3>2
    <3>. QED BY <1>1, <2>4, <3>1, <3>2, NamesApart DEF Sync, ManagedNames, Missing
  <2>5. CASE UserEdits
    BY <1>1, <2>5 DEF UserEdits, ImportInv
  <2>. QED BY <1>1, <2>1, <2>3, <2>4, <2>5
     DEF Next, Step, vars, files, StartImport, Declined, BeginPending, MakeContainer,
         FillContainer, StagingFails, Commit, CommitRefused, AllManaged, WriteMarker,
         MarkerFails, CleanContainer, CompleteRow, RecoverImport, Crash
<1>2. ImportInv /\ [Next]_vars =>
        [\A n \in Name :
           dir[n] \in {"other", "payload"} => dir'[n] = dir[n] \/ edits' # edits]_vars
  BY <1>1
<1>. QED BY <1>2, ImportInvariant, PTL DEF Spec, UserContentKept
=============================================================================
