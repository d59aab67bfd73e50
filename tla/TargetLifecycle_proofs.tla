----------------------- MODULE TargetLifecycle_proofs -----------------------
(* Proofs about the registry and about the lifecycle commands of a target  *)
(* directory, for any number of targets, paths, packages, digests and      *)
(* operation ids, for generations without a bound and for any bound on     *)
(* failures and edits.  The first part is about the registry alone and     *)
(* holds of every sequence of transactions (RegistrySpec); the second      *)
(* holds of any number of clients, whoever holds the lock; the third is    *)
(* about one command at a time, which is what the lock is for.             *)
EXTENDS TargetLifecycle, TLAPS

RegistryInv ==
  /\ RegistryTypeOK
  /\ AtMostOnePending
  /\ PendingClassifies
  /\ UnacceptedIsPending
  /\ ReferencesResolve
  /\ LocationsConsistent
  /\ ObservationsCurrent

(* The rows that an acceptance writes for t: all of them are rows of t, no *)
(* two locations share a path or claim a generation t has not reached, and *)
(* every kept observation is of the digest that is accepted.               *)
ReplacementRows(t, next, locations, kept) ==
  /\ locations \subseteq LocationRow
  /\ kept \subseteq ObservationRow
  /\ \A row \in locations : row.target = t /\ row.observed <= InsertedGeneration(t)
  /\ \A a, b \in locations : a.path = b.path => a = b
  /\ \A row \in kept : row.target = t /\ next[row.package] = row.digest

(* Every transaction is one of five kinds: the three acceptances replace   *)
(* the rows of one target by rows of that target.                          *)
LEMMA RegistryStepCases ==
  ASSUME RegistryInv, RegistryNext
  PROVE  \/ \E op \in OperationId, t \in TargetId, actions \in SUBSET Package :
              \/ BeginPendingOperation(op, t, actions)
              \/ BeginPendingReconciliation(op, t, actions)
         \/ \E op \in OperationId : CompletePendingOperation(op)
         \/ \E t \in TargetId, path \in Path : \E observed \in 1..generation[t] :
              Accepted(t) /\ ObserveTargetLocation(t, path, observed)
         \/ \E t \in TargetId, kind \in Kind, digests \in Content :
              ReplaceDependencyObservations(t, kind, digests)
         \/ \E t \in TargetId, next \in Content, op \in OperationId \cup {NoOperation} :
              \E locations, kept, released :
                /\ ReplacementRows(t, next, locations, kept)
                /\ ReplaceTargetRows(op, t, next, locations, kept, released)
<1> USE DEF RegistryInv, RegistryTypeOK, NoRow, NotObserved
<1> DEFINE Replacement ==
      \E t \in TargetId, next \in Content, op \in OperationId \cup {NoOperation} :
        \E locations, kept, released :
          /\ ReplacementRows(t, next, locations, kept)
          /\ ReplaceTargetRows(op, t, next, locations, kept, released)
<1>1. ASSUME NEW op \in OperationId \cup {NoOperation}, NEW t \in TargetId, NEW next \in Content,
             ReplaceTargetState(op, t, next)
      PROVE  Replacement
  <2>1. ReplacementRows(t, next, LocationsOf(t), StillCurrent(t, next))
    BY <1>1 DEF ReplaceTargetState, ReplacementRows, LocationsOf, StillCurrent,
                ObservationsOf, LocationsConsistent, Accepted, InsertedGeneration
  <2>2. ReplaceTargetRows(op, t, next, LocationsOf(t), StillCurrent(t, next), {})
    BY <1>1 DEF ReplaceTargetState
  <2>. QED BY <2>1, <2>2
<1>2. ASSUME NEW t \in TargetId, NEW path \in Path, NEW next \in Content
      PROVE  ReplacementRows(t, next, FreshLocation(t, path), {})
  BY DEF ReplacementRows, FreshLocation, LocationRow, InsertedGeneration
<1>3. ASSUME NEW op \in OperationId \cup {NoOperation}, NEW t \in TargetId, NEW next \in Content,
             NEW path \in Path, ReplaceFreshTargetState(op, t, path, next)
      PROVE  Replacement
  <2>1. ReplaceTargetRows(op, t, next, FreshLocation(t, path), {}, {})
    BY <1>3 DEF ReplaceFreshTargetState
  <2>. QED BY <1>2, <2>1
<1>4. ASSUME NEW op \in OperationId \cup {NoOperation}, NEW t \in TargetId, NEW next \in Content,
             NEW path \in Path, NEW from \in TargetId, NEW expected \in 1..generation[from],
             ReplaceForkedTargetState(op, t, from, expected, path, next)
      PROVE  Replacement
  <2>1. \E released : ReplaceTargetRows(op, t, next, FreshLocation(t, path), {}, released)
    BY <1>4 DEF ReplaceForkedTargetState
  <2>. QED BY <1>2, <2>1
<1>5. ASSUME NEW op \in OperationId \cup {NoOperation}, NEW t \in TargetId, NEW next \in Content,
             \/ ReplaceTargetState(op, t, next)
             \/ \E path \in Path : ReplaceFreshTargetState(op, t, path, next)
             \/ \E path \in Path, from \in TargetId : \E expected \in 1..generation[from] :
                  ReplaceForkedTargetState(op, t, from, expected, path, next)
      PROVE  Replacement
  <2> HIDE DEF Replacement
  <2>. QED BY <1>1, <1>3, <1>4, <1>5
<1> HIDE DEF Replacement, RegistryInv, RegistryTypeOK, NoRow, NotObserved
<1>6. \/ \E op \in OperationId, t \in TargetId, actions \in SUBSET Package :
           \/ BeginPendingOperation(op, t, actions)
           \/ BeginPendingReconciliation(op, t, actions)
      \/ \E op \in OperationId : CompletePendingOperation(op)
      \/ \E t \in TargetId, path \in Path : \E observed \in 1..generation[t] :
           Accepted(t) /\ ObserveTargetLocation(t, path, observed)
      \/ \E t \in TargetId, kind \in Kind, digests \in Content :
           ReplaceDependencyObservations(t, kind, digests)
      \/ Replacement
  BY <1>5, Zenon DEF RegistryNext
<1>. QED BY <1>6, Zenon DEF Replacement

(* No transaction writes a row of the wrong shape.                         *)
LEMMA RegistryTypeStep ==
  ASSUME RegistryTypeOK, [RegistryNext]_registryVars
  PROVE  RegistryTypeOK'
<1> USE DEF RegistryTypeOK, NoRow, NotObserved
<1>1. ASSUME NEW op \in OperationId, NEW t \in TargetId, NEW actions \in SUBSET Package,
             BeginPendingOperation(op, t, actions)
      PROVE  RegistryTypeOK'
  <2>1. InsertedGeneration(t) \in Nat
    BY DEF InsertedGeneration
  <2>2. pendingOperations' \subseteq PendingRow
    BY <1>1, <2>1 DEF BeginPendingOperation, InsertPending, PendingRow
  <2>. QED BY <1>1, <2>1, <2>2 DEF BeginPendingOperation, InsertPending
<1>2. ASSUME NEW op \in OperationId, NEW t \in TargetId, NEW actions \in SUBSET Package,
             BeginPendingReconciliation(op, t, actions)
      PROVE  RegistryTypeOK'
  <2>1. generation[t] - 1 \in Nat /\ generation[t] - 1 + 1 \in Nat
    BY <1>2 DEF BeginPendingReconciliation, Accepted
  <2>2. pendingOperations' \subseteq PendingRow
    BY <1>2, <2>1 DEF BeginPendingReconciliation, InsertPending, PendingRow
  <2>. QED BY <1>2, <2>2 DEF BeginPendingReconciliation, InsertPending
<1>3. ASSUME NEW op \in OperationId, CompletePendingOperation(op)
      PROVE  RegistryTypeOK'
  BY <1>3 DEF CompletePendingOperation
<1>4. ASSUME NEW t \in TargetId, NEW path \in Path, NEW observed \in 1..generation[t],
             ObserveTargetLocation(t, path, observed)
      PROVE  RegistryTypeOK'
  <2>1. targetLocations' \subseteq LocationRow
    BY <1>4 DEF ObserveTargetLocation, LocationRow
  <2>. QED BY <1>4, <2>1 DEF ObserveTargetLocation
<1>5. ASSUME NEW t \in TargetId, NEW kind \in Kind, NEW digests \in Content,
             ReplaceDependencyObservations(t, kind, digests)
      PROVE  RegistryTypeOK'
  <2>1. \A p \in Package : digests[p] # NoDigest => digests[p] \in Digest
    BY DEF Content
  <2>2. observations' \subseteq ObservationRow
    BY <1>5, <2>1 DEF ReplaceDependencyObservations, ObservationRow
  <2>. QED BY <1>5, <2>2 DEF ReplaceDependencyObservations
<1>6. ASSUME NEW t \in TargetId, NEW op, NEW next \in Content,
             NEW locations \in SUBSET LocationRow, NEW kept \in SUBSET ObservationRow,
             NEW released, ReplaceTargetRows(op, t, next, locations, kept, released)
      PROVE  RegistryTypeOK'
  <2>1. InsertedGeneration(t) + 1 \in Nat
    BY DEF InsertedGeneration
  <2>. QED BY <1>6, <2>1 DEF ReplaceTargetRows
<1>7. ASSUME NEW op, NEW t \in TargetId, NEW next \in Content,
             ReplaceTargetState(op, t, next)
      PROVE  RegistryTypeOK'
  BY <1>6, <1>7 DEF ReplaceTargetState, LocationsOf, StillCurrent, ObservationsOf
<1>8. ASSUME NEW t \in TargetId, NEW path \in Path
      PROVE  FreshLocation(t, path) \in SUBSET LocationRow
  BY DEF FreshLocation, LocationRow
<1>9. ASSUME NEW op, NEW t \in TargetId, NEW next \in Content, NEW path \in Path,
             ReplaceFreshTargetState(op, t, path, next)
      PROVE  RegistryTypeOK'
  BY <1>6, <1>8, <1>9 DEF ReplaceFreshTargetState
<1>10. ASSUME NEW op, NEW t \in TargetId, NEW next \in Content, NEW path \in Path,
              NEW from \in TargetId, NEW expected,
              ReplaceForkedTargetState(op, t, from, expected, path, next)
       PROVE  RegistryTypeOK'
  BY <1>6, <1>8, <1>10 DEF ReplaceForkedTargetState
<1>11. CASE UNCHANGED registryVars
  BY <1>11 DEF registryVars
<1>. QED
  BY <1>1, <1>2, <1>3, <1>4, <1>5, <1>7, <1>9, <1>10, <1>11 DEF RegistryNext

(* A transaction leaves at most one pending row per target, each on one    *)
(* side of its commit, and no zero row that nobody is working on.          *)
LEMMA PendingStep ==
  ASSUME RegistryInv, RegistryNext
  PROVE  AtMostOnePending' /\ PendingClassifies' /\ UnacceptedIsPending'
<1> USE DEF RegistryInv, RegistryTypeOK, AtMostOnePending, PendingClassifies,
            UnacceptedIsPending, NoRow
<1>0. \A row \in pendingOperations :
        /\ row \in PendingRow
        /\ row.target \in TargetId
        /\ row.base \in Nat
        /\ row.next \in Nat
  BY DEF PendingRow
<1>1. ASSUME NEW op \in OperationId, NEW t \in TargetId, NEW base \in Nat,
             NEW actions \in SUBSET Package, InsertPending(op, t, base, actions),
             generation' = [generation EXCEPT ![t] = generation'[t]],
             generation'[t] \in {base, base + 1}, generation[t] >= 1 => generation'[t] = generation[t]
      PROVE  AtMostOnePending' /\ PendingClassifies' /\ UnacceptedIsPending'
  <2> DEFINE row0 == [operation |-> op, target |-> t, base |-> base,
                      next |-> base + 1, actions |-> actions]
  <2>1. /\ pendingOperations' = pendingOperations \cup {row0}
        /\ \A row \in pendingOperations : row.target # t
    BY <1>1 DEF InsertPending, PendingOf
  <2>2. row0.target = t /\ row0.base = base /\ row0.next = base + 1
    OBVIOUS
  <2> HIDE DEF row0
  <2>3. AtMostOnePending'
    BY <2>1, <2>2
  <2>4. \A u \in TargetId : u # t => generation'[u] = generation[u]
    BY <1>1
  <2>5. PendingClassifies'
    BY <1>0, <1>1, <2>1, <2>2, <2>4
  <2>6. UnacceptedIsPending'
    BY <2>1, <2>2, <2>4 DEF PendingOf
  <2>. QED BY <2>3, <2>5, <2>6
<1>2. ASSUME NEW op \in OperationId, NEW t \in TargetId, NEW actions \in SUBSET Package,
             BeginPendingOperation(op, t, actions)
      PROVE  AtMostOnePending' /\ PendingClassifies' /\ UnacceptedIsPending'
  <2>1. InsertedGeneration(t) \in Nat /\ generation'[t] = InsertedGeneration(t)
    BY <1>2 DEF BeginPendingOperation, InsertedGeneration
  <2>2. generation[t] >= 1 => generation'[t] = generation[t]
    BY <2>1 DEF InsertedGeneration
  <2>. QED BY <1>1, <1>2, <2>1, <2>2 DEF BeginPendingOperation
<1>3. ASSUME NEW op \in OperationId, NEW t \in TargetId, NEW actions \in SUBSET Package,
             BeginPendingReconciliation(op, t, actions)
      PROVE  AtMostOnePending' /\ PendingClassifies' /\ UnacceptedIsPending'
  <2>1. /\ generation[t] - 1 \in Nat
        /\ generation'[t] = (generation[t] - 1) + 1
        /\ generation' = [generation EXCEPT ![t] = generation'[t]]
        /\ InsertPending(op, t, generation[t] - 1, actions)
        /\ generation'[t] = generation[t]
    BY <1>3 DEF BeginPendingReconciliation, Accepted
  <2>. QED BY <1>1, <2>1
<1>4. ASSUME NEW op \in OperationId, CompletePendingOperation(op)
      PROVE  AtMostOnePending' /\ PendingClassifies' /\ UnacceptedIsPending'
  <2>1. pendingOperations' = {row \in pendingOperations : row.operation # op}
    BY <1>4 DEF CompletePendingOperation
  <2>2. \A u \in TargetId :
          generation'[u] \in {generation[u], NoRow}
    BY <1>4 DEF CompletePendingOperation
  <2>3. \A u \in TargetId : (\E row \in pendingOperations' : row.target = u)
                               => generation'[u] = generation[u]
    BY <1>4, <2>1 DEF CompletePendingOperation
  <2>4. AtMostOnePending'
    BY <2>1
  <2>5. PendingClassifies'
    BY <1>0, <2>1, <2>3
  <2>6. ASSUME NEW u \in TargetId, generation'[u] = 0, PendingOf(u)' = {}
        PROVE  FALSE
    <3>1. generation[u] = 0
      BY <2>2, <2>6
    <3>2. PICK row \in pendingOperations : row.target = u
      BY <3>1 DEF PendingOf
    <3>3. \A other \in pendingOperations' : other.target # u
      BY <2>6 DEF PendingOf
    <3>4. row.operation = op
      BY <2>1, <3>2, <3>3
    <3>5. LocationsOf(u) = {}
      BY <3>1 DEF ReferencesResolve, Accepted
    <3>6. generation'[u] = NoRow
      BY <1>4, <2>1, <3>1, <3>2, <3>3, <3>4, <3>5 DEF CompletePendingOperation
    <3>. QED BY <2>6, <3>6
  <2>. QED BY <2>4, <2>5, <2>6
<1>5. ASSUME UNCHANGED <<generation, pendingOperations>>
      PROVE  AtMostOnePending' /\ PendingClassifies' /\ UnacceptedIsPending'
  BY <1>5 DEF PendingOf
<1>6. ASSUME NEW t \in TargetId, NEW next, NEW op \in OperationId \cup {NoOperation},
             NEW locations, NEW kept, NEW released,
             ReplaceTargetRows(op, t, next, locations, kept, released)
      PROVE  AtMostOnePending' /\ PendingClassifies' /\ UnacceptedIsPending'
  <2>1. /\ pendingOperations' = pendingOperations
        /\ generation' = [generation EXCEPT ![t] = InsertedGeneration(t) + 1]
        /\ InsertedGeneration(t) \in Nat
    BY <1>6 DEF ReplaceTargetRows, InsertedGeneration
  <2>2. \A row \in pendingOperations : row.target = t => row.base = InsertedGeneration(t)
    BY <1>6 DEF ReplaceTargetRows, PendingPermits, PendingOf
  <2>3. PendingClassifies'
    BY <1>0, <2>1, <2>2
  <2>4. UnacceptedIsPending'
    BY <2>1 DEF PendingOf
  <2>. QED BY <2>1, <2>3, <2>4
<1>. QED
  BY <1>2, <1>3, <1>4, <1>5, <1>6, RegistryStepCases
     DEF ObserveTargetLocation, ReplaceDependencyObservations, RegistryInv

(* A transaction leaves no row that refers to a missing or unaccepted      *)
(* target.                                                                 *)
LEMMA ReferencesStep ==
  ASSUME RegistryInv, RegistryNext
  PROVE  ReferencesResolve'
<1> USE DEF RegistryInv, RegistryTypeOK, NoRow, ReferencesResolve, Accepted
<1>1. ASSUME NEW op \in OperationId, NEW t \in TargetId, NEW actions \in SUBSET Package,
             BeginPendingOperation(op, t, actions)
      PROVE  ReferencesResolve'
  <2>1. \A u \in TargetId : /\ generation'[u] >= 1 <=> generation[u] >= 1
                            /\ generation'[u] = NoRow => generation[u] = NoRow /\ u # t
    BY <1>1 DEF BeginPendingOperation, InsertedGeneration
  <2>2. \A u \in TargetId : u # t => PendingOf(u)' = PendingOf(u)
    BY <1>1 DEF BeginPendingOperation, InsertPending, PendingOf
  <2>. QED BY <1>1, <2>1, <2>2
           DEF BeginPendingOperation, InsertPending, LocationsOf, ObservationsOf
<1>2. ASSUME NEW op \in OperationId, NEW t \in TargetId, NEW actions \in SUBSET Package,
             BeginPendingReconciliation(op, t, actions)
      PROVE  ReferencesResolve'
  <2>1. \A u \in TargetId : u # t => PendingOf(u)' = PendingOf(u)
    BY <1>2 DEF BeginPendingReconciliation, InsertPending, PendingOf
  <2>. QED BY <1>2, <2>1
           DEF BeginPendingReconciliation, InsertPending, LocationsOf, ObservationsOf
<1>3. ASSUME NEW op \in OperationId, CompletePendingOperation(op)
      PROVE  ReferencesResolve'
  <2>1. \A u \in TargetId :
          \/ generation'[u] = generation[u]
          \/ /\ generation[u] = 0 /\ generation'[u] = NoRow
             /\ \A row \in pendingOperations' : row.target # u
    BY <1>3 DEF CompletePendingOperation
  <2>2. /\ pendingOperations' \subseteq pendingOperations
        /\ UNCHANGED <<resolvedPackages, targetLocations, observations>>
    BY <1>3 DEF CompletePendingOperation
  <2>. QED BY <2>1, <2>2 DEF PendingOf, LocationsOf, ObservationsOf
<1>4. ASSUME NEW t \in TargetId, NEW path \in Path, NEW observed \in 1..generation[t],
             Accepted(t), ObserveTargetLocation(t, path, observed)
      PROVE  ReferencesResolve'
  <2>1. \A u \in TargetId : u # t => LocationsOf(u)' \subseteq LocationsOf(u)
    BY <1>4 DEF ObserveTargetLocation, LocationsOf
  <2>. QED BY <1>4, <2>1 DEF ObserveTargetLocation, PendingOf, ObservationsOf
<1>5. ASSUME NEW t \in TargetId, NEW kind \in Kind, NEW digests \in Content,
             ReplaceDependencyObservations(t, kind, digests)
      PROVE  ReferencesResolve'
  <2>1. \A u \in TargetId : u # t => ObservationsOf(u)' \subseteq ObservationsOf(u)
    BY <1>5 DEF ReplaceDependencyObservations, ObservationsOf
  <2>2. ~Accepted(t) => ObservationsOf(t)' = {}
    <3> SUFFICES ASSUME ~Accepted(t), NEW row \in observations', row.target = t
                 PROVE  FALSE
      BY DEF ObservationsOf
    <3>1. row \notin observations
      BY DEF ObservationsOf
    <3>2. PICK p \in Package : digests[p] # NoDigest
      BY <1>5, <3>1 DEF ReplaceDependencyObservations
    <3>3. resolvedPackages[t][p] # NoDigest
      BY <1>5, <3>2 DEF ReplaceDependencyObservations
    <3>. QED BY <3>3 DEF NoContent
  <2>. QED BY <1>5, <2>1, <2>2 DEF ReplaceDependencyObservations, PendingOf, LocationsOf
<1>6. ASSUME NEW t \in TargetId, NEW next, NEW op \in OperationId \cup {NoOperation},
             NEW locations, NEW kept, NEW released,
             ReplacementRows(t, next, locations, kept),
             ReplaceTargetRows(op, t, next, locations, kept, released)
      PROVE  ReferencesResolve'
  <2>1. /\ generation' = [generation EXCEPT ![t] = InsertedGeneration(t) + 1]
        /\ InsertedGeneration(t) \in Nat
    BY <1>6 DEF ReplaceTargetRows, InsertedGeneration
  <2>2. \A u \in TargetId : u # t =>
          /\ generation'[u] = generation[u]
          /\ resolvedPackages'[u] = resolvedPackages[u]
          /\ PendingOf(u)' = PendingOf(u)
          /\ LocationsOf(u)' \subseteq LocationsOf(u)
          /\ ObservationsOf(u)' \subseteq ObservationsOf(u)
    BY <1>6, <2>1 DEF ReplaceTargetRows, ReplacementRows, PendingOf, LocationsOf, ObservationsOf
  <2>3. generation'[t] \in Nat /\ generation'[t] >= 1
    BY <2>1
  <2>. QED BY <2>2, <2>3
<1>. QED BY <1>1, <1>2, <1>3, <1>4, <1>5, <1>6, RegistryStepCases

(* A transaction leaves one target per path and no location ahead of its   *)
(* target.                                                                 *)
LEMMA LocationsStep ==
  ASSUME RegistryInv, RegistryNext
  PROVE  LocationsConsistent'
<1> USE DEF RegistryInv, RegistryTypeOK, NoRow, NotObserved, LocationsConsistent
<1>0. \A row \in targetLocations : /\ row.target \in TargetId
                                   /\ row.observed \in Nat \cup {NotObserved}
  BY DEF LocationRow
<1>1. ASSUME UNCHANGED targetLocations,
             \A row \in targetLocations : generation'[row.target] = generation[row.target]
      PROVE  LocationsConsistent'
  BY <1>1
<1>2. ASSUME NEW op \in OperationId, CompletePendingOperation(op)
      PROVE  LocationsConsistent'
  <2>1. \A row \in targetLocations : generation'[row.target] = generation[row.target]
    BY <1>0, <1>2 DEF CompletePendingOperation, LocationsOf
  <2>. QED BY <1>1, <1>2, <2>1 DEF CompletePendingOperation
<1>3. ASSUME NEW op \in OperationId, NEW t \in TargetId, NEW actions \in SUBSET Package,
             BeginPendingOperation(op, t, actions)
      PROVE  LocationsConsistent'
  <2>1. generation[t] = NoRow => LocationsOf(t) = {}
    BY DEF ReferencesResolve, Accepted
  <2>2. \A row \in targetLocations : generation'[row.target] = generation[row.target]
    BY <1>0, <1>3, <2>1 DEF BeginPendingOperation, InsertedGeneration, LocationsOf
  <2>. QED BY <1>1, <1>3, <2>2 DEF BeginPendingOperation, InsertPending
<1>4. ASSUME NEW t \in TargetId, NEW path \in Path, NEW observed \in 1..generation[t],
             ObserveTargetLocation(t, path, observed)
      PROVE  LocationsConsistent'
  BY <1>4 DEF ObserveTargetLocation
<1>5. ASSUME NEW t \in TargetId, NEW next, NEW op \in OperationId \cup {NoOperation},
             NEW locations, NEW kept, NEW released,
             ReplacementRows(t, next, locations, kept),
             ReplaceTargetRows(op, t, next, locations, kept, released)
      PROVE  LocationsConsistent'
  <2>1. /\ generation' = [generation EXCEPT ![t] = InsertedGeneration(t) + 1]
        /\ InsertedGeneration(t) \in Nat
    BY <1>5 DEF ReplaceTargetRows, InsertedGeneration
  <2> DEFINE others == {row \in targetLocations \ released : row.target # t}
  <2>2. /\ targetLocations' = others \cup locations
        /\ \A row \in others : \A own \in locations : row.path # own.path
    BY <1>5 DEF ReplaceTargetRows
  <2>3. \A a \in others : /\ \A b \in others : a.path = b.path => a = b
                          /\ a.observed <= generation'[a.target]
    BY <1>0, <2>1
  <2>4. \A a \in locations : /\ \A b \in locations : a.path = b.path => a = b
                             /\ a.observed <= generation'[a.target]
    BY <1>5, <2>1 DEF ReplacementRows, LocationRow
  <2> HIDE DEF others
  <2>. QED BY <2>2, <2>3, <2>4
<1>. QED
  BY <1>1, <1>2, <1>3, <1>4, <1>5, RegistryStepCases
     DEF BeginPendingReconciliation, InsertPending, ReplaceDependencyObservations

(* A transaction keeps no observation of content that is not accepted.     *)
LEMMA ObservationsStep ==
  ASSUME RegistryInv, RegistryNext
  PROVE  ObservationsCurrent'
<1> USE DEF RegistryInv, RegistryTypeOK, ObservationsCurrent
<1>1. ASSUME UNCHANGED <<observations, resolvedPackages>>
      PROVE  ObservationsCurrent'
  BY <1>1
<1>2. ASSUME NEW t \in TargetId, NEW kind \in Kind, NEW digests \in Content,
             ReplaceDependencyObservations(t, kind, digests)
      PROVE  ObservationsCurrent'
  BY <1>2 DEF ReplaceDependencyObservations
<1>3. ASSUME NEW t \in TargetId, NEW next, NEW op \in OperationId \cup {NoOperation},
             NEW locations, NEW kept, NEW released,
             ReplacementRows(t, next, locations, kept),
             ReplaceTargetRows(op, t, next, locations, kept, released)
      PROVE  ObservationsCurrent'
  BY <1>3 DEF ReplaceTargetRows, ReplacementRows, ObservationRow
<1>. QED
  BY <1>1, <1>2, <1>3, RegistryStepCases
     DEF BeginPendingOperation, BeginPendingReconciliation, InsertPending,
         CompletePendingOperation, ObserveTargetLocation

----------------------------------------------------------------------------

(* The empty registry is sound.                                            *)
LEMMA RegistryStarts == RegistryInit => RegistryInv
BY DEF RegistryInit, RegistryInv, RegistryTypeOK, AtMostOnePending, PendingClassifies,
       UnacceptedIsPending, ReferencesResolve, LocationsConsistent, ObservationsCurrent,
       PendingOf, LocationsOf, ObservationsOf, Accepted, NoContent, Content, NoRow

(* The conjunction of the invariants is inductive: acceptance needs the    *)
(* uniqueness of the pending row to move a target from base to next, and   *)
(* completion needs the references to drop a zero row safely.              *)
LEMMA RegistryStep ==
  ASSUME RegistryInv, [RegistryNext]_registryVars
  PROVE  RegistryInv'
<1>1. CASE RegistryNext
  BY <1>1, RegistryTypeStep, PendingStep, ReferencesStep, LocationsStep, ObservationsStep
     DEF RegistryInv
<1>2. CASE UNCHANGED registryVars
  BY <1>2 DEF registryVars, RegistryInv, RegistryTypeOK, AtMostOnePending, PendingClassifies,
       UnacceptedIsPending, ReferencesResolve, LocationsConsistent, ObservationsCurrent,
       PendingOf, LocationsOf, ObservationsOf, Accepted
<1>. QED BY <1>1, <1>2

(* The registry is sound after every sequence of transactions.             *)
THEOREM RegistryInvariant == RegistrySpec => []RegistryInv
<1>1. RegistryInv /\ [RegistryNext]_registryVars => RegistryInv'
  BY RegistryStep
<1>. QED BY <1>1, RegistryStarts, PTL DEF RegistrySpec

(* Type correctness of the five tables under every transaction.            *)
THEOREM RegistryTypeCorrect == RegistrySpec => []RegistryTypeOK
<1>1. RegistryInv => RegistryTypeOK
  BY DEF RegistryInv
<1>. QED BY <1>1, RegistryInvariant, PTL

(* Recovery can always classify a pending row: there is at most one for a  *)
(* target, the target is at its base or at its next generation, and a      *)
(* first install that gives up before its commit leaves no target.         *)
THEOREM PendingStaysSound == RegistrySpec => []PendingSound
<1>1. RegistryInv => PendingSound
  BY DEF RegistryInv, PendingSound
<1>. QED BY <1>1, RegistryInvariant, PTL

(* No location, observation or pending row refers to a target that is not  *)
(* there or not accepted yet; a path belongs to one target, and no marker  *)
(* was read there that is ahead of it; observations are only ever shown    *)
(* for the content they were made of.                                      *)
THEOREM TablesStayConsistent == RegistrySpec => []TablesConsistent
<1>1. RegistryInv => TablesConsistent
  BY DEF RegistryInv, TablesConsistent
<1>. QED BY <1>1, RegistryInvariant, PTL

(* Accepted states are never lost: no transaction drops, rolls back or     *)
(* skips a generation of an accepted target, or rewrites it in place.      *)
THEOREM AcceptedStatesArePermanent == RegistrySpec => AcceptedNeverLost
<1>1. ASSUME RegistryInv, [RegistryNext]_registryVars, NEW t \in TargetId, Accepted(t)
      PROVE  \/ generation'[t] = generation[t] /\ resolvedPackages'[t] = resolvedPackages[t]
             \/ generation'[t] = generation[t] + 1
  <2> USE <1>1 DEF RegistryInv, RegistryTypeOK, Accepted
  <2>1. ASSUME NEW op \in OperationId, NEW u \in TargetId, NEW actions \in SUBSET Package,
               BeginPendingOperation(op, u, actions)
        PROVE  generation'[t] = generation[t] /\ resolvedPackages'[t] = resolvedPackages[t]
    BY <2>1 DEF BeginPendingOperation, InsertPending, InsertedGeneration, NoRow
  <2>2. ASSUME NEW op \in OperationId, CompletePendingOperation(op)
        PROVE  generation'[t] = generation[t] /\ resolvedPackages'[t] = resolvedPackages[t]
    BY <2>2 DEF CompletePendingOperation
  <2>3. ASSUME NEW op, NEW u \in TargetId, NEW next, NEW locations, NEW kept, NEW released,
               ReplaceTargetRows(op, u, next, locations, kept, released)
        PROVE  \/ generation'[t] = generation[t] /\ resolvedPackages'[t] = resolvedPackages[t]
               \/ generation'[t] = generation[t] + 1
    BY <2>3 DEF ReplaceTargetRows, InsertedGeneration, NoRow
  <2>4. CASE UNCHANGED registryVars
    BY <2>4 DEF registryVars
  <2>. QED
    BY <2>1, <2>2, <2>3, <2>4, RegistryStepCases
       DEF BeginPendingReconciliation, InsertPending, ObserveTargetLocation,
           ReplaceDependencyObservations
<1>2. RegistryInv /\ [RegistryNext]_registryVars =>
        [\A t \in TargetId :
           Accepted(t) =>
             \/ generation'[t] = generation[t] /\ resolvedPackages'[t] = resolvedPackages[t]
             \/ generation'[t] = generation[t] + 1]_registryVars
  BY <1>1
<1>. QED BY <1>2, RegistryInvariant, PTL DEF RegistrySpec, AcceptedNeverLost

----------------------------------------------------------------------------
(* The commands.                                                           *)

CommandType == [Client -> Running \cup {Idle}]

(* Steps that work on the containers of an operation, or on its row.       *)
OperationSteps == {"stage", "manifest", "removals", "commit", "undo", "remove", "removing",
                   "activate", "retire", "swap", "discard", "cleaning", "converge",
                   "driftRetire", "driftSwap", "driftDiscard"}

(* Which steps the commands take.                                          *)
DriftSteps == {"drift", "driftRetire", "driftSwap", "driftDiscard"}

StepsOf(kind) ==
  CASE kind \in {"install", "change"} ->
         {"pending", "stage", "manifest", "removals", "commit", "undo", "remove", "removing",
          "activate", "retire", "swap", "marker", "clean", "cleaning", "done"}
    [] kind = "sync" ->
         {"observe", "clean", "cleaning", "pending", "stage", "manifest", "removals", "undo",
          "remove", "removing", "activate", "retire", "swap", "discard", "marker", "location",
          "observations", "done"}
    [] kind = "repair" -> DriftSteps \cup
         {"observe", "clean", "cleaning", "pending", "stage", "manifest", "removals", "undo",
          "remove", "removing", "activate", "retire", "swap", "discard", "marker", "done"}
    [] OTHER -> {"clean", "cleaning", "converge", "removing", "retire", "swap", "marker", "done"}

(* What holds of a command whoever else is at work: it is at a step of its *)
(* own, knows the operation it works on, and one that starts from an       *)
(* accepted state works on the target that has the directory.              *)
Fits(cmd) ==
  /\ cmd.step \in StepsOf(cmd.kind)
  /\ cmd.step \in OperationSteps => cmd.operation \in OperationId
  /\ cmd.kind \in {"change", "sync", "repair"} => Owns(cmd.target)
  /\ cmd.kind = "sync" /\ cmd.step # "observe" => cmd.generation >= 1

CommandsFit == \A c \in Client : Busy(c) => Fits(command[c])

LifecycleInv == TypeOK /\ RegistryInv /\ CommandsFit

----------------------------------------------------------------------------
(* How a command moves on.                                                 *)

(* The command of c goes on, and nobody else's.                            *)
MovesOn(c) ==
  /\ command' \in CommandType
  /\ command'[c] \in Running
  /\ \A d \in Client \ {c} : command'[d] = command[d]

(* It stays the same command, for the same target, with the same plan.     *)
SameTask(c) ==
  /\ command'[c].kind = command[c].kind
  /\ command'[c].target = command[c].target
  /\ command'[c].current = command[c].current
  /\ command'[c].stages = command[c].stages
  /\ command'[c].removals = command[c].removals

SameGoal(c) ==
  /\ command'[c].next = command[c].next
  /\ command'[c].generation = command[c].generation

(* A running command is not the idle one.                                  *)
LEMMA IdleIsNot == Idle \notin Running /\ Idle.kind = "none" /\ Idle.step = "none"
BY DEF Idle, Running, Commands

(* Replacing the command of c by another one is well typed, and leaves the *)
(* others alone.                                                           *)
LEMMA Replaced ==
  ASSUME command \in CommandType, NEW c \in Client, NEW new \in Running \cup {Idle},
         command' = [command EXCEPT ![c] = new]
  PROVE  /\ command' \in CommandType
         /\ command'[c] = new
         /\ \A d \in Client \ {c} : command'[d] = command[d]
BY DEF CommandType

(* GoTo changes the step and what is left to do in it.                     *)
LEMMA GoToMoves ==
  ASSUME command \in CommandType, NEW c \in Client, command[c] \in Running,
         NEW step \in Steps, NEW todo \in SUBSET Package, GoTo(c, step, todo)
  PROVE  /\ MovesOn(c) /\ SameTask(c) /\ SameGoal(c)
         /\ command'[c].step = step
         /\ command'[c].todo = todo
         /\ command'[c].hand = {}
         /\ command'[c].operation = command[c].operation
         /\ command'[c].existed = command[c].existed
<1> DEFINE new == [command[c] EXCEPT !.step = step, !.todo = todo, !.hand = {}]
<1>1. command' = [command EXCEPT ![c] = new]
  BY DEF GoTo, CommandType
<1>2. /\ new \in Running
      /\ new.step = step /\ new.todo = todo /\ new.hand = {}
      /\ new.kind = command[c].kind /\ new.target = command[c].target
      /\ new.current = command[c].current /\ new.stages = command[c].stages
      /\ new.removals = command[c].removals /\ new.next = command[c].next
      /\ new.generation = command[c].generation /\ new.operation = command[c].operation
      /\ new.existed = command[c].existed
  BY DEF Running
<1> HIDE DEF new
<1>3. /\ command' \in CommandType /\ command'[c] = new
      /\ \A d \in Client \ {c} : command'[d] = command[d]
  BY <1>1, <1>2, Replaced
<1>. QED BY <1>2, <1>3 DEF MovesOn, SameTask, SameGoal

(* Ticked takes a name off the list.                                       *)
LEMMA TickedMoves ==
  ASSUME command \in CommandType, NEW c \in Client, command[c] \in Running,
         NEW n, Ticked(c, n)
  PROVE  /\ MovesOn(c) /\ SameTask(c) /\ SameGoal(c)
         /\ command'[c].step = command[c].step
         /\ command'[c].todo = command[c].todo \ {n}
         /\ command'[c].hand = command[c].hand
         /\ command'[c].operation = command[c].operation
         /\ command'[c].existed = command[c].existed
<1> DEFINE new == [command[c] EXCEPT !.todo = command[c].todo \ {n}]
<1>1. command' = [command EXCEPT ![c] = new]
  BY DEF Ticked, CommandType
<1>2. /\ new \in Running
      /\ new.step = command[c].step /\ new.todo = command[c].todo \ {n}
      /\ new.hand = command[c].hand
      /\ new.kind = command[c].kind /\ new.target = command[c].target
      /\ new.current = command[c].current /\ new.stages = command[c].stages
      /\ new.removals = command[c].removals /\ new.next = command[c].next
      /\ new.generation = command[c].generation /\ new.operation = command[c].operation
      /\ new.existed = command[c].existed
  BY DEF Running
<1> HIDE DEF new
<1>3. /\ command' \in CommandType /\ command'[c] = new
      /\ \A d \in Client \ {c} : command'[d] = command[d]
  BY <1>1, <1>2, Replaced
<1>. QED BY <1>2, <1>3 DEF MovesOn, SameTask, SameGoal

(* Half takes a name off the list and keeps it in hand.                    *)
LEMMA HalfMoves ==
  ASSUME command \in CommandType, NEW c \in Client, command[c] \in Running,
         NEW step \in Steps, NEW n \in Package, Half(c, step, n)
  PROVE  /\ MovesOn(c) /\ SameTask(c) /\ SameGoal(c)
         /\ command'[c].step = step
         /\ command'[c].todo = command[c].todo \ {n}
         /\ command'[c].hand = {n}
         /\ command'[c].operation = command[c].operation
         /\ command'[c].existed = command[c].existed
<1> DEFINE new == [command[c] EXCEPT !.step = step, !.todo = command[c].todo \ {n},
                                     !.hand = {n}]
<1>1. command' = [command EXCEPT ![c] = new]
  BY DEF Half, CommandType
<1>2. /\ new \in Running
      /\ new.step = step /\ new.todo = command[c].todo \ {n}
      /\ new.hand = {n}
      /\ new.kind = command[c].kind /\ new.target = command[c].target
      /\ new.current = command[c].current /\ new.stages = command[c].stages
      /\ new.removals = command[c].removals /\ new.next = command[c].next
      /\ new.generation = command[c].generation /\ new.operation = command[c].operation
      /\ new.existed = command[c].existed
  BY DEF Running
<1> HIDE DEF new
<1>3. /\ command' \in CommandType /\ command'[c] = new
      /\ \A d \in Client \ {c} : command'[d] = command[d]
  BY <1>1, <1>2, Replaced
<1>. QED BY <1>2, <1>3 DEF MovesOn, SameTask, SameGoal

(* After the first of two renames nothing but the step is new.             *)
LEMMA SwapFollows ==
  ASSUME command \in CommandType, NEW c \in Client, command[c] \in Running,
         command' = [command EXCEPT ![c].step = "swap"]
  PROVE  /\ MovesOn(c) /\ SameTask(c) /\ SameGoal(c)
         /\ command'[c].step = "swap"
         /\ command'[c].todo = command[c].todo
         /\ command'[c].hand = command[c].hand
         /\ command'[c].operation = command[c].operation
         /\ command'[c].existed = command[c].existed
<1> DEFINE new == [command[c] EXCEPT !.step = "swap"]
<1>1. command' = [command EXCEPT ![c] = new]
  BY DEF CommandType
<1>2. /\ new \in Running
      /\ new.step = "swap" /\ new.todo = command[c].todo /\ new.hand = command[c].hand
      /\ new.kind = command[c].kind /\ new.target = command[c].target
      /\ new.current = command[c].current /\ new.stages = command[c].stages
      /\ new.removals = command[c].removals /\ new.next = command[c].next
      /\ new.generation = command[c].generation /\ new.operation = command[c].operation
      /\ new.existed = command[c].existed
  BY DEF Running, Steps
<1> HIDE DEF new
<1>3. /\ command' \in CommandType /\ command'[c] = new
      /\ \A d \in Client \ {c} : command'[d] = command[d]
  BY <1>1, <1>2, Replaced
<1>. QED BY <1>2, <1>3 DEF MovesOn, SameTask, SameGoal

(* A command that returns is over.                                         *)
LEMMA ReturnMoves ==
  ASSUME command \in CommandType, LockTypeOK, NEW c \in Client, Return(c)
  PROVE  /\ command' \in CommandType /\ LockTypeOK'
         /\ command'[c] = Idle
         /\ \A d \in Client \ {c} : command'[d] = command[d]
BY Replaced DEF Return, Close, LockTypeOK

----------------------------------------------------------------------------
(* What a file operation changes.                                          *)

LiveOnlyAt(n) == \A m \in Package \ {n} : live'[m] = live[m]
StagingOnlyAt(op, n) ==
  \A o \in OperationId, m \in Package : o # op \/ m # n => staging'[o][m] = staging[o][m]

(* A staged projection is in a new container; nothing else is staged.      *)
LEMMA StageContainerStages ==
  ASSUME FilesTypeOK, NEW op \in OperationId, NEW n \in Package,
         NEW digest \in Digest \cup {NoDigest},
         StageContainer(op, n, digest), UNCHANGED <<live, marker>>
  PROVE  /\ FilesTypeOK' /\ StagingOnlyAt(op, n)
         /\ staging'[op][n] # NoContainer
         /\ staging'[op][n].projection = digest /\ staging'[op][n].retired = NoDigest
         /\ staging'[op][n].action = "none"
<1> DEFINE new == [projection |-> digest, retired |-> NoDigest,
                   action |-> "none", previous |-> NoDigest]
<1>1. /\ new \in Container
      /\ new.projection = digest /\ new.retired = NoDigest /\ new.action = "none"
  BY DEF Container, LiveContent
<1>2. staging' = [staging EXCEPT ![op][n] = new]
  BY DEF StageContainer
<1> HIDE DEF new
<1>3. staging'[op][n] = new /\ StagingOnlyAt(op, n)
  BY <1>2 DEF FilesTypeOK, StagingOnlyAt
<1>4. FilesTypeOK'
  BY <1>1, <1>2 DEF FilesTypeOK
<1>. QED BY <1>1, <1>3, <1>4, NoContainerAssumption

(* A manifest changes nothing of what its container holds.                 *)
LEMMA WriteManifestKeeps ==
  ASSUME FilesTypeOK, NEW op \in OperationId, NEW n \in Package,
         NEW action \in {"stage", "remove"}, NEW previous \in Digest \cup {NoDigest},
         WriteManifest(op, n, action, previous), UNCHANGED <<live, marker>>
  PROVE  /\ FilesTypeOK' /\ StagingOnlyAt(op, n)
         /\ staging'[op][n] # NoContainer
         /\ staging'[op][n].action = action /\ staging'[op][n].previous = previous
         /\ IF staging[op][n] = NoContainer
              THEN staging'[op][n].projection = NoDigest /\ staging'[op][n].retired = NoDigest
              ELSE /\ staging'[op][n].projection = staging[op][n].projection
                   /\ staging'[op][n].retired = staging[op][n].retired
<1> DEFINE old == staging[op][n]
           new == IF old = NoContainer
                    THEN [projection |-> NoDigest, retired |-> NoDigest,
                          action |-> action, previous |-> previous]
                    ELSE [old EXCEPT !.action = action, !.previous = previous]
<1>1. /\ new \in Container
      /\ new.action = action /\ new.previous = previous
      /\ IF old = NoContainer
           THEN new.projection = NoDigest /\ new.retired = NoDigest
           ELSE new.projection = old.projection /\ new.retired = old.retired
  <2>1. CASE old = NoContainer
    BY <2>1 DEF Container, LiveContent
  <2>2. CASE old # NoContainer
    <3>1. old \in Container
      BY <2>2 DEF FilesTypeOK
    <3> HIDE DEF old
    <3>. QED BY <2>2, <3>1 DEF Container
  <2>. QED BY <2>1, <2>2
<1>2. staging' = [staging EXCEPT ![op][n] = new]
  BY DEF WriteManifest, FilesTypeOK
<1> HIDE DEF new
<1>3. staging'[op][n] = new /\ StagingOnlyAt(op, n)
  BY <1>2 DEF FilesTypeOK, StagingOnlyAt
<1>4. FilesTypeOK'
  BY <1>1, <1>2 DEF FilesTypeOK
<1>. QED BY <1>1, <1>3, <1>4, NoContainerAssumption

(* Removing a container leaves every other one.                            *)
LEMMA RemoveContainerRemoves ==
  ASSUME FilesTypeOK, NEW op \in OperationId, NEW n \in Package,
         RemoveContainer(op, n)
  PROVE  /\ staging' \in [OperationId -> [Package -> Container \cup {NoContainer}]]
         /\ StagingOnlyAt(op, n)
         /\ staging'[op][n] = NoContainer
BY DEF FilesTypeOK, RemoveContainer, StagingOnlyAt

(* Activation shows what was staged, where nothing was live.               *)
LEMMA ActivateShows ==
  ASSUME FilesTypeOK, NEW op \in OperationId, NEW n \in Package,
         Activate(op, n), UNCHANGED marker
  PROVE  /\ FilesTypeOK' /\ StagingOnlyAt(op, n) /\ LiveOnlyAt(n)
         /\ Holds(op, n) /\ live[n] = NoDigest
         /\ live'[n] = staging[op][n].projection
         /\ staging'[op][n] # NoContainer
         /\ staging'[op][n].projection = NoDigest
         /\ staging'[op][n].retired = staging[op][n].retired
         /\ staging'[op][n].action = staging[op][n].action
<1> DEFINE new == [staging[op][n] EXCEPT !.projection = NoDigest]
<1>1. staging[op][n] \in Container
  BY DEF FilesTypeOK, Activate, Holds
<1>2. /\ new \in Container
      /\ new.projection = NoDigest /\ new.retired = staging[op][n].retired
      /\ new.action = staging[op][n].action
      /\ staging[op][n].projection \in LiveContent
  BY <1>1 DEF Container, LiveContent
<1>3. staging' = [staging EXCEPT ![op][n] = new]
  BY DEF Activate, FilesTypeOK
<1> HIDE DEF new
<1>4. staging'[op][n] = new /\ StagingOnlyAt(op, n)
  BY <1>3 DEF FilesTypeOK, StagingOnlyAt
<1>5. /\ live' = [live EXCEPT ![n] = staging[op][n].projection]
      /\ Holds(op, n) /\ live[n] = NoDigest
  BY DEF Activate, Missing
<1>6. FilesTypeOK' /\ LiveOnlyAt(n) /\ live'[n] = staging[op][n].projection
  BY <1>2, <1>3, <1>5 DEF FilesTypeOK, LiveOnlyAt
<1>. QED BY <1>2, <1>4, <1>5, <1>6, NoContainerAssumption

(* Retiring takes what is live into the container.                         *)
LEMMA RetireKeeps ==
  ASSUME FilesTypeOK, NEW op \in OperationId, NEW n \in Package,
         Retire(op, n), UNCHANGED marker
  PROVE  /\ FilesTypeOK' /\ StagingOnlyAt(op, n) /\ LiveOnlyAt(n)
         /\ live'[n] = NoDigest
         /\ staging[op][n] # NoContainer /\ staging'[op][n] # NoContainer
         /\ staging'[op][n].projection = staging[op][n].projection
         /\ staging'[op][n].retired = live[n]
         /\ staging'[op][n].action = staging[op][n].action
<1> DEFINE new == [staging[op][n] EXCEPT !.retired = live[n]]
<1>1. staging[op][n] \in Container /\ live[n] \in LiveContent
  BY DEF FilesTypeOK, Retire
<1>2. /\ new \in Container
      /\ new.retired = live[n] /\ new.projection = staging[op][n].projection
      /\ new.action = staging[op][n].action
      /\ NoDigest \in LiveContent
  BY <1>1 DEF Container, LiveContent
<1>3. staging' = [staging EXCEPT ![op][n] = new]
  BY DEF Retire, FilesTypeOK
<1> HIDE DEF new
<1>4. staging'[op][n] = new /\ StagingOnlyAt(op, n)
  BY <1>3 DEF FilesTypeOK, StagingOnlyAt
<1>5. live' = [live EXCEPT ![n] = NoDigest] /\ staging[op][n] # NoContainer
  BY DEF Retire
<1>6. FilesTypeOK' /\ LiveOnlyAt(n) /\ live'[n] = NoDigest
  BY <1>2, <1>3, <1>5 DEF FilesTypeOK, LiveOnlyAt
<1>. QED BY <1>2, <1>4, <1>5, <1>6, NoContainerAssumption

(* Reinstating puts back what was retired.                                 *)
LEMMA ReinstatePutsBack ==
  ASSUME FilesTypeOK, NEW op \in OperationId, NEW n \in Package,
         Reinstate(op, n), UNCHANGED marker
  PROVE  /\ FilesTypeOK' /\ StagingOnlyAt(op, n) /\ LiveOnlyAt(n)
         /\ live[n] = NoDigest /\ live'[n] = staging[op][n].retired
         /\ staging[op][n] # NoContainer /\ staging'[op][n] # NoContainer
         /\ staging'[op][n].projection = staging[op][n].projection
         /\ staging'[op][n].retired = NoDigest
         /\ staging'[op][n].action = staging[op][n].action
<1> DEFINE new == [staging[op][n] EXCEPT !.retired = NoDigest]
<1>1. staging[op][n] \in Container
  BY DEF FilesTypeOK, Reinstate
<1>2. /\ new \in Container
      /\ new.retired = NoDigest /\ new.projection = staging[op][n].projection
      /\ new.action = staging[op][n].action
      /\ staging[op][n].retired \in LiveContent
  BY <1>1 DEF Container, LiveContent
<1>3. staging' = [staging EXCEPT ![op][n] = new]
  BY DEF Reinstate, FilesTypeOK
<1> HIDE DEF new
<1>4. staging'[op][n] = new /\ StagingOnlyAt(op, n)
  BY <1>3 DEF FilesTypeOK, StagingOnlyAt
<1>5. /\ live' = [live EXCEPT ![n] = staging[op][n].retired]
      /\ live[n] = NoDigest /\ staging[op][n] # NoContainer
  BY DEF Reinstate, Missing
<1>6. FilesTypeOK' /\ LiveOnlyAt(n) /\ live'[n] = staging[op][n].retired
  BY <1>2, <1>3, <1>5 DEF FilesTypeOK, LiveOnlyAt
<1>. QED BY <1>2, <1>4, <1>5, <1>6, NoContainerAssumption

----------------------------------------------------------------------------
(* Every step keeps the types, is one transaction of the registry or none, *)
(* and leaves a command that fits its target.                              *)

RegistrySteps ==
  /\ [RegistryNext]_registryVars
  /\ \A t \in TargetId : Owns(t) => Owns(t)'

OthersWait(c) == \A d \in Client \ {c} : command'[d] = command[d]

Preserves(c) ==
  /\ command' \in CommandType /\ OthersWait(c)
  /\ Busy(c)' => Fits(command[c])'
  /\ FilesTypeOK' /\ LockTypeOK' /\ failures' \in 0..MaxFailures /\ touched' \subseteq Package
  /\ RegistrySteps

(* What the invariant says of the command of c.                            *)
LEMMA BusyRuns ==
  ASSUME LifecycleInv, NEW c \in Client, command[c].step # "none"
  PROVE  /\ Busy(c) /\ command \in CommandType /\ command[c] \in Running
         /\ command[c].kind \in Commands /\ command[c].target \in TargetId
         /\ Fits(command[c])
         /\ FilesTypeOK /\ LockTypeOK /\ failures \in 0..MaxFailures /\ touched \subseteq Package
         /\ RegistryInv /\ RegistryTypeOK
BY IdleIsNot DEF LifecycleInv, TypeOK, CommandsTypeOK, CommandsFit, Busy, CommandType, Running

(* A step that leaves the registry alone is none of its transactions.      *)
LEMMA RegistryRests ==
  ASSUME UNCHANGED registryVars
  PROVE  RegistrySteps
BY DEF registryVars, RegistrySteps, Owns

(* A command that goes on to a step of its kind still fits.                *)
LEMMA GoesOn ==
  ASSUME LifecycleInv, NEW c \in Client, command[c].step # "none",
         MovesOn(c), SameTask(c), RegistrySteps,
         command'[c].step \in StepsOf(command[c].kind),
         command'[c].step \in OperationSteps => command'[c].operation \in OperationId,
         command[c].kind = "sync" /\ command'[c].step # "observe" => command'[c].generation >= 1,
         FilesTypeOK', LockTypeOK', failures' \in 0..MaxFailures, touched' \subseteq Package
  PROVE  Preserves(c)
<1>1. Fits(command[c])'
  BY BusyRuns DEF Fits, MovesOn, SameTask, RegistrySteps
<1>. QED BY <1>1 DEF Preserves, MovesOn, OthersWait

(* So does one whose goal and operation stay.                              *)
LEMMA GoesOnQuietly ==
  ASSUME LifecycleInv, NEW c \in Client, command[c].step \notin {"none", "observe"},
         MovesOn(c), SameTask(c), SameGoal(c), RegistrySteps,
         command'[c].operation = command[c].operation,
         command'[c].step \in StepsOf(command[c].kind),
         command'[c].step \in OperationSteps => command[c].step \in OperationSteps,
         FilesTypeOK', LockTypeOK', failures' \in 0..MaxFailures, touched' \subseteq Package
  PROVE  Preserves(c)
<1>1. /\ command[c].kind = "sync" => command[c].generation >= 1
      /\ command[c].step \in OperationSteps => command[c].operation \in OperationId
  BY BusyRuns DEF Fits
<1>. QED BY <1>1, GoesOn DEF SameGoal

(* A command that returns leaves nothing to fit.                           *)
LEMMA ReturnFits ==
  ASSUME LifecycleInv, NEW c \in Client, Return(c), RegistrySteps,
         FilesTypeOK', failures' \in 0..MaxFailures, touched' \subseteq Package
  PROVE  Preserves(c)
<1>1. command \in CommandType /\ LockTypeOK
  BY DEF LifecycleInv, TypeOK, CommandsTypeOK, CommandType
<1>. QED BY <1>1, ReturnMoves DEF Preserves, OthersWait, Busy

(* A command that stays with its files and its registry.                   *)
LEMMA FilesRest ==
  ASSUME FilesTypeOK, UNCHANGED fileVars
  PROVE  FilesTypeOK'
BY DEF FilesTypeOK, fileVars

(* Nor does one that stays with the lock.                                  *)
LEMMA LockRests ==
  ASSUME LockTypeOK, UNCHANGED lockVars
  PROVE  LockTypeOK'
BY DEF LockTypeOK, lockVars

(* The order of the steps, whatever the command.                           *)
LEMMA StepOrder ==
  ASSUME NEW kind \in Commands
  PROVE  /\ "pending" \in StepsOf(kind) => {"stage", "marker"} \subseteq StepsOf(kind)
         /\ "stage" \in StepsOf(kind) => {"manifest", "removals", "undo"} \subseteq StepsOf(kind)
         /\ "manifest" \in StepsOf(kind) => "stage" \in StepsOf(kind)
         /\ "removals" \in StepsOf(kind) =>
              "remove" \in StepsOf(kind) /\ (kind \in {"install", "change"} => "commit" \in StepsOf(kind))
         /\ "commit" \in StepsOf(kind) => {"undo", "remove"} \subseteq StepsOf(kind)
         /\ "remove" \in StepsOf(kind) => {"removing", "activate"} \subseteq StepsOf(kind)
         /\ "removing" \in StepsOf(kind) =>
              IF kind = "recover" THEN "converge" \in StepsOf(kind) ELSE "remove" \in StepsOf(kind)
         /\ "activate" \in StepsOf(kind) =>
              /\ {"retire", "marker"} \subseteq StepsOf(kind)
              /\ kind \in {"sync", "repair"} => "discard" \in StepsOf(kind)
              /\ kind \in {"install", "change", "sync", "repair"}
         /\ "retire" \in StepsOf(kind) =>
              "swap" \in StepsOf(kind) /\ (kind = "recover" => "converge" \in StepsOf(kind))
         /\ "swap" \in StepsOf(kind) =>
              IF kind = "recover" THEN "converge" \in StepsOf(kind) ELSE "activate" \in StepsOf(kind)
         /\ "discard" \in StepsOf(kind) => "marker" \in StepsOf(kind)
         /\ "clean" \in StepsOf(kind) =>
              /\ "cleaning" \in StepsOf(kind)
              /\ kind \in {"sync", "repair"} => "pending" \in StepsOf(kind)
              /\ "done" \in StepsOf(kind)
         /\ "converge" \in StepsOf(kind) => {"removing", "retire", "marker"} \subseteq StepsOf(kind)
BY DEF Commands, StepsOf, DriftSteps

----------------------------------------------------------------------------
(* Before the commit.                                                      *)

(* BeginPending announces a new operation and goes on to stage.            *)
LEMMA BeginPendingDoes ==
  ASSUME LifecycleInv, NEW c \in Client, BeginPending(c)
  PROVE  /\ command[c].step = "pending"
         /\ MovesOn(c) /\ SameTask(c) /\ SameGoal(c)
         /\ command'[c].step = "stage" /\ command'[c].todo = command[c].stages
         /\ command'[c].existed = {} /\ command'[c].hand = command[c].hand
         /\ command'[c].operation \in OperationId /\ FreshId(command'[c].operation)
         /\ LET op == command'[c].operation
                actions == command[c].stages \cup command[c].removals
            IN IF command[c].kind \in {"install", "change"}
                 THEN BeginPendingOperation(op, command[c].target, actions)
                 ELSE BeginPendingReconciliation(op, command[c].target, actions)
         /\ UNCHANGED <<fileVars, lockVars, failures, touched>>
<1> DEFINE cmd == command[c]
           actions == cmd.stages \cup cmd.removals
<1>1. /\ cmd.step = "pending" /\ UNCHANGED <<fileVars, lockVars, failures, touched>>
      /\ cmd \in Running /\ command \in CommandType
  BY BusyRuns DEF BeginPending, Held, At
<1>2. PICK op \in OperationId :
        /\ FreshId(op)
        /\ IF cmd.kind \in {"install", "change"}
             THEN BeginPendingOperation(op, cmd.target, actions)
             ELSE BeginPendingReconciliation(op, cmd.target, actions)
        /\ command' = [command EXCEPT ![c].operation = op, ![c].step = "stage",
                                      ![c].todo = cmd.stages, ![c].existed = {}]
  BY DEF BeginPending
<1> DEFINE new == [cmd EXCEPT !.operation = op, !.step = "stage",
                              !.todo = cmd.stages, !.existed = {}]
<1>3. /\ new \in Running /\ new.step = "stage" /\ new.operation = op
      /\ new.todo = cmd.stages /\ new.existed = {} /\ new.hand = cmd.hand
      /\ new.kind = cmd.kind /\ new.target = cmd.target /\ new.current = cmd.current
      /\ new.stages = cmd.stages /\ new.removals = cmd.removals
      /\ new.generation = cmd.generation /\ new.next = cmd.next
  BY <1>1 DEF Running, Steps
<1>4. command' = [command EXCEPT ![c] = new]
  BY <1>1, <1>2 DEF CommandType
<1> HIDE DEF new
<1>5. /\ MovesOn(c) /\ SameTask(c) /\ SameGoal(c)
      /\ command'[c].step = "stage" /\ command'[c].operation = op
      /\ command'[c].todo = cmd.stages /\ command'[c].existed = {} /\ command'[c].hand = cmd.hand
  BY <1>1, <1>3, <1>4, Replaced DEF MovesOn, SameTask, SameGoal
<1>. QED BY <1>1, <1>2, <1>5

(* NothingPending skips to the marker.                                     *)
LEMMA NothingPendingDoes ==
  ASSUME LifecycleInv, NEW c \in Client, NothingPending(c)
  PROVE  /\ command[c].step = "pending" /\ command[c].kind \notin {"install", "change"}
         /\ command[c].stages = {} /\ command[c].removals = {}
         /\ MovesOn(c) /\ SameTask(c) /\ SameGoal(c)
         /\ command'[c].step = "marker" /\ command'[c].hand = command[c].hand
         /\ UNCHANGED <<registryVars, fileVars, lockVars, failures, touched>>
<1>1. /\ command[c].step = "pending"
      /\ UNCHANGED <<registryVars, fileVars, lockVars, failures, touched>>
      /\ command[c] \in Running /\ command \in CommandType
  BY BusyRuns DEF NothingPending, Held, At
<1> DEFINE new == [command[c] EXCEPT !.operation = NoOperation, !.step = "marker"]
<1>2. /\ new \in Running /\ new.step = "marker" /\ new.hand = command[c].hand
      /\ new.kind = command[c].kind /\ new.target = command[c].target
      /\ new.current = command[c].current /\ new.stages = command[c].stages
      /\ new.removals = command[c].removals /\ new.generation = command[c].generation
      /\ new.next = command[c].next
  BY <1>1 DEF Running, Steps
<1>3. command' = [command EXCEPT ![c] = new]
  BY <1>1 DEF CommandType, NothingPending
<1> HIDE DEF new
<1>4. /\ MovesOn(c) /\ SameTask(c) /\ SameGoal(c)
      /\ command'[c].step = "marker" /\ command'[c].hand = command[c].hand
  BY <1>1, <1>2, <1>3, Replaced DEF MovesOn, SameTask, SameGoal
<1>. QED BY <1>1, <1>4 DEF NothingPending

(* StageProjection builds one container, of what the plan says.            *)
LEMMA StageProjectionDoes ==
  ASSUME LifecycleInv, NEW c \in Client, StageProjection(c)
  PROVE  \E n \in command[c].todo :
           /\ command[c].step = "stage"
           /\ MayStage(n, command[c].current)
           /\ StageContainer(command[c].operation, n, command[c].next[n])
           /\ MovesOn(c) /\ SameTask(c) /\ SameGoal(c)
           /\ command'[c].step = "manifest" /\ command'[c].todo = command[c].todo \ {n}
           /\ command'[c].hand = {n} /\ command'[c].operation = command[c].operation
           /\ command'[c].existed =
                IF Missing(n) THEN command[c].existed ELSE command[c].existed \cup {n}
           /\ UNCHANGED <<registryVars, live, marker, lockVars, failures, touched>>
<1> DEFINE cmd == command[c]
<1>1. /\ cmd.step = "stage"
      /\ UNCHANGED <<registryVars, live, marker, lockVars, failures, touched>>
      /\ cmd \in Running /\ command \in CommandType
  BY BusyRuns DEF StageProjection, Held, At
<1>2. PICK n \in cmd.todo :
        /\ MayStage(n, cmd.current)
        /\ StageContainer(cmd.operation, n, cmd.next[n])
        /\ command' = [command EXCEPT ![c].step = "manifest", ![c].todo = @ \ {n},
                        ![c].hand = {n},
                        ![c].existed = IF Missing(n) THEN @ ELSE @ \cup {n}]
  BY DEF StageProjection
<1> DEFINE existed == IF Missing(n) THEN cmd.existed ELSE cmd.existed \cup {n}
           new == [cmd EXCEPT !.step = "manifest", !.todo = cmd.todo \ {n},
                              !.hand = {n}, !.existed = existed]
<1>3. existed \in SUBSET Package /\ n \in Package
  BY <1>1 DEF Running
<1>4. command' = [command EXCEPT ![c] = new]
  BY <1>1, <1>2 DEF CommandType
<1> HIDE DEF existed
<1>5. /\ new \in Running /\ new.step = "manifest" /\ new.hand = {n}
      /\ new.todo = cmd.todo \ {n} /\ new.existed = existed /\ new.operation = cmd.operation
      /\ new.kind = cmd.kind /\ new.target = cmd.target
      /\ new.current = cmd.current /\ new.stages = cmd.stages
      /\ new.removals = cmd.removals /\ new.generation = cmd.generation
      /\ new.next = cmd.next
  BY <1>1, <1>3 DEF Running, Steps
<1> HIDE DEF new
<1>6. command'[c] = new /\ MovesOn(c)
  <2>1. new \in Running
    BY <1>5
  <2>. QED BY <1>1, <1>4, <2>1, Replaced DEF MovesOn
<1>7. /\ SameTask(c) /\ SameGoal(c)
      /\ command'[c].step = "manifest" /\ command'[c].todo = command[c].todo \ {n}
      /\ command'[c].hand = {n} /\ command'[c].operation = command[c].operation
      /\ command'[c].existed = existed
  BY <1>5, <1>6 DEF SameTask, SameGoal
<1>. QED BY <1>1, <1>2, <1>6, <1>7 DEF existed

(* CommitAcceptedState replaces the state of the target by the next one.   *)
LEMMA CommitDoes ==
  ASSUME LifecycleInv, NEW c \in Client, CommitAcceptedState(c)
  PROVE  /\ command[c].step = "commit"
         /\ CommitPermitted(c)
         /\ \/ command[c].kind = "change"
               /\ ReplaceTargetState(command[c].operation, command[c].target, command[c].next)
            \/ command[c].kind = "install"
               /\ ReplaceFreshTargetState(command[c].operation, command[c].target,
                                          TargetRoot, command[c].next)
         /\ generation'[command[c].target] = InsertedGeneration(command[c].target) + 1
         /\ resolvedPackages' = [resolvedPackages EXCEPT ![command[c].target] = command[c].next]
         /\ RegistryNext
         /\ MovesOn(c) /\ SameTask(c)
         /\ command'[c].next = command[c].next
         /\ command'[c].generation = generation'[command[c].target]
         /\ command'[c].step = "remove" /\ command'[c].todo = command[c].removals
         /\ command'[c].hand = command[c].hand /\ command'[c].existed = command[c].existed
         /\ command'[c].operation = command[c].operation
         /\ UNCHANGED <<fileVars, lockVars, failures, touched, pendingOperations>>
<1> DEFINE cmd == command[c]
<1>1. /\ cmd.step = "commit"
      /\ UNCHANGED <<fileVars, lockVars, failures, touched>>
      /\ cmd \in Running /\ command \in CommandType
      /\ CommitPermitted(c)
  BY BusyRuns DEF CommitAcceptedState, Held, At
<1>2. \/ cmd.kind = "change" /\ ReplaceTargetState(cmd.operation, cmd.target, cmd.next)
      \/ cmd.kind = "install"
         /\ ReplaceFreshTargetState(cmd.operation, cmd.target, TargetRoot, cmd.next)
  BY DEF CommitAcceptedState
<1>3. /\ cmd.target \in TargetId /\ cmd.next \in Content
      /\ cmd.operation \in OperationId \cup {NoOperation}
  BY <1>1 DEF Running
<1>4. RegistryNext
  BY <1>2, <1>3, TargetRootAssumption DEF RegistryNext
<1>5. \E locations, kept :
        ReplaceTargetRows(cmd.operation, cmd.target, cmd.next, locations, kept, {})
  BY <1>2 DEF ReplaceTargetState, ReplaceFreshTargetState
<1>6. /\ generation' = [generation EXCEPT ![cmd.target] = InsertedGeneration(cmd.target) + 1]
      /\ resolvedPackages' = [resolvedPackages EXCEPT ![cmd.target] = cmd.next]
      /\ UNCHANGED pendingOperations
  BY <1>5 DEF ReplaceTargetRows
<1>7. RegistryTypeOK
  BY DEF LifecycleInv, RegistryInv
<1>8. generation'[cmd.target] = InsertedGeneration(cmd.target) + 1
      /\ generation'[cmd.target] \in Nat
  BY <1>3, <1>6, <1>7 DEF RegistryTypeOK, InsertedGeneration
<1> DEFINE gen == generation'[cmd.target]
           new == [cmd EXCEPT !.step = "remove", !.todo = cmd.removals, !.generation = gen]
<1>9. command' = [command EXCEPT ![c] = new]
  BY <1>1 DEF CommitAcceptedState, CommandType
<1> HIDE DEF gen
<1>10. /\ new \in Running /\ new.step = "remove" /\ new.hand = cmd.hand
       /\ new.todo = cmd.removals /\ new.existed = cmd.existed /\ new.operation = cmd.operation
       /\ new.kind = cmd.kind /\ new.target = cmd.target
       /\ new.current = cmd.current /\ new.stages = cmd.stages
       /\ new.removals = cmd.removals /\ new.generation = gen
       /\ new.next = cmd.next
  BY <1>1, <1>8 DEF Running, Steps, gen
<1> HIDE DEF new
<1>11. command'[c] = new /\ MovesOn(c)
  <2>1. new \in Running
    BY <1>10
  <2>. QED BY <1>1, <1>9, <2>1, Replaced DEF MovesOn
<1>12. /\ SameTask(c)
       /\ command'[c].next = cmd.next /\ command'[c].generation = gen
       /\ command'[c].step = "remove" /\ command'[c].todo = cmd.removals
       /\ command'[c].hand = cmd.hand /\ command'[c].existed = cmd.existed
       /\ command'[c].operation = cmd.operation
  BY <1>10, <1>11 DEF SameTask
<1>. QED BY <1>1, <1>2, <1>4, <1>6, <1>8, <1>11, <1>12 DEF gen

(* ReadPending finds the pending row of the target, or none.               *)
LEMMA ReadPendingDoes ==
  ASSUME LifecycleInv, NEW c \in Client, ReadPending(c)
  PROVE  /\ command[c].step = "clean"
         /\ StillAccepted(c)
         /\ MovesOn(c) /\ SameTask(c) /\ SameGoal(c)
         /\ IF PendingOf(command[c].target) = {}
              THEN /\ command'[c].step = AfterClean(c) /\ command'[c].hand = {}
                   /\ command'[c].operation = command[c].operation
              ELSE \E row \in PendingOf(command[c].target) :
                     /\ command'[c].step = "cleaning" /\ command'[c].todo = row.actions
                     /\ command'[c].hand = command[c].hand
                     /\ command'[c].operation = row.operation
                     /\ row.operation \in OperationId
         /\ UNCHANGED <<registryVars, fileVars, lockVars, failures, touched>>
<1> DEFINE cmd == command[c]
<1>1. /\ cmd.step = "clean" /\ StillAccepted(c)
      /\ UNCHANGED <<registryVars, fileVars, lockVars, failures, touched>>
      /\ cmd \in Running /\ command \in CommandType /\ RegistryTypeOK
      /\ AfterClean(c) \in Steps
  <2>1. AfterClean(c) \in {"pending", "done"}
    BY DEF AfterClean
  <2>2. AfterClean(c) \in Steps
    BY <2>1 DEF Steps
  <2>. QED BY <2>2, BusyRuns DEF ReadPending, Held, At
<1>2. CASE PendingOf(cmd.target) = {}
  <2>1. GoTo(c, AfterClean(c), {})
    BY <1>2 DEF ReadPending
  <2>. QED BY <1>1, <1>2, <2>1, GoToMoves
<1>3. CASE PendingOf(cmd.target) # {}
  <2>1. PICK row \in PendingOf(cmd.target) :
          command' = [command EXCEPT ![c].step = "cleaning", ![c].todo = row.actions,
                                     ![c].operation = row.operation]
    BY <1>3 DEF ReadPending
  <2>2. row.operation \in OperationId /\ row.actions \in SUBSET Package
    BY <1>1 DEF PendingOf, RegistryTypeOK, PendingRow
  <2> DEFINE new == [cmd EXCEPT !.step = "cleaning", !.todo = row.actions,
                                !.operation = row.operation]
  <2>3. command' = [command EXCEPT ![c] = new]
    BY <1>1, <2>1 DEF CommandType
  <2>4. /\ new \in Running /\ new.step = "cleaning" /\ new.hand = cmd.hand
        /\ new.todo = row.actions /\ new.operation = row.operation
        /\ new.kind = cmd.kind /\ new.target = cmd.target
        /\ new.current = cmd.current /\ new.stages = cmd.stages
        /\ new.removals = cmd.removals /\ new.generation = cmd.generation
        /\ new.next = cmd.next
    BY <1>1, <2>2 DEF Running, Steps
  <2> HIDE DEF new
  <2>5. command'[c] = new /\ MovesOn(c)
    <3>1. new \in Running
      BY <2>4
    <3>. QED BY <1>1, <2>3, <3>1, Replaced DEF MovesOn
  <2>6. /\ SameTask(c) /\ SameGoal(c)
        /\ command'[c].step = "cleaning" /\ command'[c].todo = row.actions
        /\ command'[c].hand = cmd.hand /\ command'[c].operation = row.operation
    BY <2>4, <2>5 DEF SameTask, SameGoal
  <2>. QED BY <1>1, <1>3, <2>2, <2>5, <2>6
<1>. QED BY <1>2, <1>3

(* CleanPending removes a container, or the row after the last of them.    *)
LEMMA CleanPendingDoes ==
  ASSUME LifecycleInv, NEW c \in Client, CleanPending(c)
  PROVE  /\ command[c].step = "cleaning" /\ command[c].operation \in OperationId
         /\ MovesOn(c) /\ SameTask(c) /\ SameGoal(c)
         /\ command'[c].hand = command[c].hand
         /\ \/ \E n \in command[c].todo :
                 /\ RemoveContainer(command[c].operation, n)
                 /\ command'[c].step = "cleaning"
                 /\ command'[c].todo = command[c].todo \ {n}
                 /\ command'[c].operation = command[c].operation
                 /\ UNCHANGED registryVars
            \/ /\ command[c].todo = {}
               /\ CompletePendingOperation(command[c].operation)
               /\ command'[c].step = AfterClean(c)
               /\ command'[c].operation = NoOperation
               /\ UNCHANGED staging
         /\ UNCHANGED <<live, marker, lockVars, failures, touched>>
<1> DEFINE cmd == command[c]
<1>1. /\ cmd.step = "cleaning" /\ cmd.operation \in OperationId
      /\ UNCHANGED <<live, marker, lockVars, failures, touched>>
      /\ cmd \in Running /\ command \in CommandType
      /\ AfterClean(c) \in Steps
  BY BusyRuns DEF CleanPending, Held, At, AfterClean, Steps, Fits, OperationSteps
<1>2. CASE \E n \in cmd.todo :
             RemoveContainer(cmd.operation, n) /\ Ticked(c, n) /\ UNCHANGED registryVars
  <2>1. PICK n \in cmd.todo :
          RemoveContainer(cmd.operation, n) /\ Ticked(c, n) /\ UNCHANGED registryVars
    BY <1>2
  <2>. QED BY <1>1, <2>1, TickedMoves
<1>3. CASE /\ cmd.todo = {}
           /\ CompletePendingOperation(cmd.operation)
           /\ command' = [command EXCEPT ![c].step = AfterClean(c),
                                         ![c].operation = NoOperation]
           /\ UNCHANGED staging
  <2> DEFINE after == AfterClean(c)
             new == [cmd EXCEPT !.step = after, !.operation = NoOperation]
  <2>1. command' = [command EXCEPT ![c] = new]
    BY <1>1, <1>3 DEF CommandType
  <2> HIDE DEF after
  <2>2. /\ new \in Running /\ new.step = after /\ new.hand = cmd.hand
        /\ new.operation = NoOperation
        /\ new.kind = cmd.kind /\ new.target = cmd.target
        /\ new.current = cmd.current /\ new.stages = cmd.stages
        /\ new.removals = cmd.removals /\ new.generation = cmd.generation
        /\ new.next = cmd.next
    BY <1>1 DEF Running, after
  <2> HIDE DEF new
  <2>3. command'[c] = new /\ MovesOn(c)
    <3>1. new \in Running
      BY <2>2
    <3>. QED BY <1>1, <2>1, <3>1, Replaced DEF MovesOn
  <2>4. /\ SameTask(c) /\ SameGoal(c)
        /\ command'[c].step = after /\ command'[c].hand = cmd.hand
        /\ command'[c].operation = NoOperation
    BY <2>2, <2>3 DEF SameTask, SameGoal
  <2>. QED BY <1>1, <1>3, <2>3, <2>4 DEF after
<1>. QED BY <1>2, <1>3 DEF CleanPending

(* Observe plans from what the marker or the registry says is live.        *)
LEMMA ObserveDoes ==
  ASSUME LifecycleInv, NEW c \in Client, Observe(c)
  PROVE  LET t == command[c].target
             next == resolvedPackages[t]
             current == Baseline(t)
         IN /\ command[c].step = "observe" /\ command[c].kind \in {"sync", "repair"}
            /\ Owns(t) /\ BaselineIntact(current)
            /\ MovesOn(c)
            /\ command'[c].kind = command[c].kind /\ command'[c].target = t
            /\ command'[c].step = "clean" /\ command'[c].generation = generation[t]
            /\ generation[t] >= 1
            /\ command'[c].next = next /\ command'[c].current = current
            /\ command'[c].stages = StagesOf(current, next)
            /\ command'[c].removals = RemovalsOf(current, next)
            /\ command'[c].hand = command[c].hand
            /\ UNCHANGED <<registryVars, fileVars, lockVars, failures, touched>>
<1> DEFINE cmd == command[c]
           t == cmd.target
           next == resolvedPackages[t]
           current == Baseline(t)
           stages == StagesOf(current, next)
           removals == RemovalsOf(current, next)
<1>1. /\ cmd.step = "observe" /\ BaselineIntact(current)
      /\ UNCHANGED <<registryVars, fileVars, lockVars, failures, touched>>
      /\ cmd \in Running /\ command \in CommandType /\ Fits(cmd)
      /\ RegistryInv /\ RegistryTypeOK /\ FilesTypeOK /\ t \in TargetId
  BY BusyRuns DEF Observe, Held, At
<1>2. cmd.kind \in {"sync", "repair"} /\ Owns(t)
  BY <1>1, BusyRuns DEF Fits, StepsOf, Commands, DriftSteps
<1>3. generation[t] >= 1 /\ generation[t] \in Nat
  BY <1>1, <1>2 DEF RegistryInv, RegistryTypeOK, ReferencesResolve, Owns, LocationsOf, Accepted, NoRow
<1>4. next \in Content /\ current \in Content /\ stages \in SUBSET Package /\ removals \in SUBSET Package
  <2>1. next \in Content
    BY <1>1 DEF RegistryTypeOK
  <2>2. current \in Content
    BY <1>1, <2>1 DEF Baseline, Lags, FilesTypeOK, Marker
  <2>. QED BY <2>1, <2>2 DEF StagesOf, RemovalsOf
<1> DEFINE gen == generation[t]
           new == [cmd EXCEPT !.step = "clean", !.next = next, !.current = current,
                    !.generation = gen, !.operation = NoOperation,
                    !.stages = stages, !.removals = removals]
<1>5. command' = [command EXCEPT ![c] = new]
  BY <1>1 DEF Observe, CommandType
<1> HIDE DEF next, current, stages, removals, gen, t
<1>6. /\ new \in Running /\ new.step = "clean"
      /\ new.kind = cmd.kind /\ new.target = cmd.target
      /\ new.current = current /\ new.stages = stages
      /\ new.removals = removals /\ new.generation = gen
      /\ new.next = next /\ new.hand = cmd.hand
  BY <1>1, <1>3, <1>4 DEF Running, Steps, gen
<1> HIDE DEF new
<1>7. command'[c] = new /\ MovesOn(c)
  <2>1. new \in Running
    BY <1>6
  <2>. QED BY <1>1, <1>5, <2>1, Replaced DEF MovesOn
<1>8. /\ command'[c].kind = cmd.kind /\ command'[c].target = cmd.target
      /\ command'[c].step = "clean" /\ command'[c].generation = gen
      /\ command'[c].next = next /\ command'[c].current = current
      /\ command'[c].stages = stages /\ command'[c].removals = removals
      /\ command'[c].hand = cmd.hand
  BY <1>6, <1>7
<1>. QED BY <1>1, <1>2, <1>3, <1>7, <1>8 DEF gen, next, current, stages, removals, t

(* RepairDrift stages the accepted projection for a name that drifted, or  *)
(* passes over it.                                                         *)
LEMMA RepairDriftDoes ==
  ASSUME LifecycleInv, NEW c \in Client, RepairDrift(c)
  PROVE  \E n \in command[c].todo :
           /\ command[c].step = "drift"
           /\ MovesOn(c) /\ SameTask(c) /\ SameGoal(c)
           /\ IF Drifted(n, command[c].next)
                THEN /\ command'[c].step = "driftRetire" /\ command'[c].hand = {n}
                     /\ command'[c].operation \in OperationId
                     /\ FreshId(command'[c].operation)
                     /\ StageContainer(command'[c].operation, n, command[c].next[n])
                ELSE /\ command'[c].step = "drift" /\ command'[c].hand = command[c].hand
                     /\ command'[c].operation = command[c].operation
                     /\ UNCHANGED staging
           /\ UNCHANGED <<registryVars, live, marker, lockVars, failures, touched>>
<1> DEFINE cmd == command[c]
<1>1. /\ cmd.step = "drift"
      /\ UNCHANGED <<registryVars, live, marker, lockVars, failures, touched>>
      /\ cmd \in Running /\ command \in CommandType
  BY BusyRuns DEF RepairDrift, Held, At
<1>2. PICK n \in cmd.todo :
        IF Drifted(n, cmd.next)
          THEN \E op \in OperationId :
                 /\ FreshId(op)
                 /\ StageContainer(op, n, cmd.next[n])
                 /\ command' = [command EXCEPT ![c].step = "driftRetire", ![c].hand = {n},
                                  ![c].todo = @ \ {n}, ![c].operation = op]
          ELSE Ticked(c, n) /\ UNCHANGED staging
  BY DEF RepairDrift
<1>3. CASE ~Drifted(n, cmd.next)
  BY <1>1, <1>2, <1>3, TickedMoves
<1>4. CASE Drifted(n, cmd.next)
  <2>1. PICK op \in OperationId :
          /\ FreshId(op)
          /\ StageContainer(op, n, cmd.next[n])
          /\ command' = [command EXCEPT ![c].step = "driftRetire", ![c].hand = {n},
                           ![c].todo = @ \ {n}, ![c].operation = op]
    BY <1>2, <1>4
  <2> DEFINE new == [cmd EXCEPT !.step = "driftRetire", !.hand = {n},
                                !.todo = cmd.todo \ {n}, !.operation = op]
  <2>2. command' = [command EXCEPT ![c] = new]
    BY <1>1, <2>1 DEF CommandType
  <2>3. n \in Package
    BY <1>1 DEF Running
  <2>4. /\ new \in Running /\ new.step = "driftRetire" /\ new.hand = {n}
        /\ new.operation = op
        /\ new.kind = cmd.kind /\ new.target = cmd.target
        /\ new.current = cmd.current /\ new.stages = cmd.stages
        /\ new.removals = cmd.removals /\ new.generation = cmd.generation
        /\ new.next = cmd.next
    BY <1>1, <2>3 DEF Running, Steps
  <2> HIDE DEF new
  <2>5. command'[c] = new /\ MovesOn(c)
    <3>1. new \in Running
      BY <2>4
    <3>. QED BY <1>1, <2>2, <3>1, Replaced DEF MovesOn
  <2>6. /\ SameTask(c) /\ SameGoal(c)
        /\ command'[c].step = "driftRetire" /\ command'[c].hand = {n}
        /\ command'[c].operation = op
    BY <2>4, <2>5 DEF SameTask, SameGoal
  <2>. QED BY <1>1, <1>4, <2>1, <2>5, <2>6
<1>. QED BY <1>3, <1>4

(* The two renames of a drift repair only move the command one step on.    *)
LEMMA DriftStepMoves ==
  ASSUME command \in CommandType, NEW c \in Client, command[c] \in Running,
         NEW step \in Steps, command' = [command EXCEPT ![c].step = step]
  PROVE  /\ MovesOn(c) /\ SameTask(c) /\ SameGoal(c)
         /\ command'[c].step = step /\ command'[c].hand = command[c].hand
         /\ command'[c].todo = command[c].todo
         /\ command'[c].operation = command[c].operation
<1> DEFINE new == [command[c] EXCEPT !.step = step]
<1>1. command' = [command EXCEPT ![c] = new]
  BY DEF CommandType
<1>2. /\ new \in Running
      /\ new.step = step /\ new.todo = command[c].todo /\ new.hand = command[c].hand
      /\ new.kind = command[c].kind /\ new.target = command[c].target
      /\ new.current = command[c].current /\ new.stages = command[c].stages
      /\ new.removals = command[c].removals /\ new.next = command[c].next
      /\ new.generation = command[c].generation /\ new.operation = command[c].operation
  BY DEF Running
<1> HIDE DEF new
<1>3. /\ command' \in CommandType /\ command'[c] = new
      /\ \A d \in Client \ {c} : command'[d] = command[d]
  BY <1>1, <1>2, Replaced
<1>. QED BY <1>2, <1>3 DEF MovesOn, SameTask, SameGoal

(* DriftDiscard drops the container and goes on with the next name.        *)
LEMMA DriftDiscardDoes ==
  ASSUME LifecycleInv, NEW c \in Client, DriftDiscard(c)
  PROVE  /\ command[c].step = "driftDiscard" /\ command[c].operation \in OperationId
         /\ \E n \in command[c].hand : RemoveContainer(command[c].operation, n)
         /\ MovesOn(c) /\ SameTask(c) /\ SameGoal(c)
         /\ command'[c].step = "drift" /\ command'[c].hand = {}
         /\ UNCHANGED <<registryVars, live, marker, lockVars, failures, touched>>
<1> DEFINE cmd == command[c]
<1>1. /\ cmd.step = "driftDiscard" /\ cmd.operation \in OperationId
      /\ \E n \in cmd.hand : RemoveContainer(cmd.operation, n)
      /\ UNCHANGED <<registryVars, live, marker, lockVars, failures, touched>>
      /\ cmd \in Running /\ command \in CommandType
  BY BusyRuns DEF DriftDiscard, At, Fits, OperationSteps
<1> DEFINE new == [cmd EXCEPT !.step = "drift", !.operation = NoOperation, !.hand = {}]
<1>2. command' = [command EXCEPT ![c] = new]
  BY <1>1 DEF DriftDiscard, CommandType
<1>3. /\ new \in Running /\ new.step = "drift" /\ new.hand = {}
      /\ new.kind = cmd.kind /\ new.target = cmd.target
      /\ new.current = cmd.current /\ new.stages = cmd.stages
      /\ new.removals = cmd.removals /\ new.generation = cmd.generation
      /\ new.next = cmd.next
  BY <1>1 DEF Running, Steps
<1> HIDE DEF new
<1>4. command'[c] = new /\ MovesOn(c)
  <2>1. new \in Running
    BY <1>3
  <2>. QED BY <1>1, <1>2, <2>1, Replaced DEF MovesOn
<1>5. SameTask(c) /\ SameGoal(c) /\ command'[c].step = "drift" /\ command'[c].hand = {}
  BY <1>3, <1>4 DEF SameTask, SameGoal
<1>. QED BY <1>1, <1>4, <1>5

(* ObserveLocation records the generation of the marker it wrote.          *)
LEMMA ObserveLocationDoes ==
  ASSUME LifecycleInv, NEW c \in Client, ObserveLocation(c)
  PROVE  /\ command[c].step = "location" /\ command[c].kind = "sync"
         /\ ObserveTargetLocation(command[c].target, TargetRoot, command[c].generation)
         /\ MovesOn(c) /\ SameTask(c)
         /\ command'[c].generation = command[c].generation
         /\ command'[c].next = resolvedPackages[command[c].target]
         /\ command'[c].step = "observations" /\ command'[c].hand = command[c].hand
         /\ UNCHANGED <<fileVars, lockVars, failures, touched>>
<1> DEFINE cmd == command[c]
           next == resolvedPackages[cmd.target]
<1>1. /\ cmd.step = "location" /\ cmd.kind = "sync"
      /\ UNCHANGED <<fileVars, lockVars, failures, touched>>
      /\ cmd \in Running /\ command \in CommandType
      /\ next \in Content
  BY BusyRuns DEF ObserveLocation, Held, At, Fits, StepsOf, Commands, DriftSteps, RegistryTypeOK
<1> DEFINE new == [cmd EXCEPT !.step = "observations", !.next = next]
<1>2. command' = [command EXCEPT ![c] = new]
  BY <1>1 DEF ObserveLocation, CommandType
<1> HIDE DEF next
<1>3. /\ new \in Running /\ new.step = "observations" /\ new.hand = cmd.hand
      /\ new.kind = cmd.kind /\ new.target = cmd.target
      /\ new.current = cmd.current /\ new.stages = cmd.stages
      /\ new.removals = cmd.removals /\ new.generation = cmd.generation
      /\ new.next = next
  BY <1>1 DEF Running, Steps
<1> HIDE DEF new
<1>4. command'[c] = new /\ MovesOn(c)
  <2>1. new \in Running
    BY <1>3
  <2>. QED BY <1>1, <1>2, <2>1, Replaced DEF MovesOn
<1>5. /\ SameTask(c) /\ command'[c].generation = cmd.generation /\ command'[c].next = next
      /\ command'[c].step = "observations" /\ command'[c].hand = cmd.hand
  BY <1>3, <1>4 DEF SameTask
<1>. QED BY <1>1, <1>4, <1>5 DEF ObserveLocation, next

----------------------------------------------------------------------------
(* How commands start.                                                     *)

(* Start takes the command up, and changes nothing else.                   *)
LEMMA StartDoes ==
  ASSUME LifecycleInv, NEW c \in Client, NEW new \in Running, Start(c, new)
  PROVE  /\ command[c] = Idle /\ command'[c] = new
         /\ MovesOn(c) /\ touched' = {}
         /\ UNCHANGED <<registryVars, fileVars, lockVars, failures>>
<1>1. command \in CommandType
  BY DEF LifecycleInv, TypeOK, CommandsTypeOK, CommandType
<1>. QED BY <1>1, Replaced DEF Start, MovesOn

(* What the fields of a new command are, if they are not given.            *)
LEMMA IdleFields ==
  /\ Idle = [kind |-> "none", step |-> "none", target |-> NoOperation,
             operation |-> NoOperation, generation |-> 0, next |-> NoContent,
             current |-> NoContent, stages |-> {}, removals |-> {}, todo |-> {},
             hand |-> {}, existed |-> {}]
  /\ NoContent \in Content
BY DEF Idle, NoContent, Content

(* An install starts for a target nobody has, in a directory nobody has.   *)
LEMMA StartInstallDoes ==
  ASSUME LifecycleInv, NEW c \in Client, StartInstall(c)
  PROVE  \E t \in TargetId, next \in Content :
           /\ \A owner \in TargetId : ~Owns(owner)
           /\ generation[t] = NoRow
           /\ MovesOn(c)
           /\ command'[c].kind = "install" /\ command'[c].step = "pending"
           /\ command'[c].target = t /\ command'[c].next = next
           /\ command'[c].current = NoContent
           /\ command'[c].stages = StagesOf(NoContent, next)
           /\ command'[c].removals = {} /\ command'[c].generation = 0
           /\ command'[c].hand = {}
           /\ command[c] = Idle /\ touched' = {}
           /\ UNCHANGED <<registryVars, fileVars, lockVars, failures>>
<1>1. PICK t \in TargetId, next \in Content :
        /\ \A owner \in TargetId : ~Owns(owner)
        /\ generation[t] = NoRow
        /\ Start(c, [Idle EXCEPT !.kind = "install", !.step = "pending", !.target = t,
                             !.next = next, !.stages = StagesOf(NoContent, next)])
  BY DEF StartInstall
<1> DEFINE stages == StagesOf(NoContent, next)
           new == [Idle EXCEPT !.kind = "install", !.step = "pending", !.target = t,
                               !.next = next, !.stages = stages]
<1>2. stages \in SUBSET Package
  BY DEF StagesOf
<1>3. Start(c, new)
  BY <1>1
<1> HIDE DEF stages
<1>4. /\ new \in Running /\ new.kind = "install" /\ new.step = "pending"
      /\ new.target = t /\ new.next = next /\ new.current = NoContent
      /\ new.stages = stages /\ new.removals = {} /\ new.generation = 0 /\ new.hand = {}
  BY <1>2, IdleFields DEF Running, Commands, Steps
<1> HIDE DEF new
<1>5. /\ command[c] = Idle /\ command'[c] = new
      /\ MovesOn(c) /\ touched' = {}
      /\ UNCHANGED <<registryVars, fileVars, lockVars, failures>>
  <2>1. new \in Running
    BY <1>4
  <2>. QED BY <1>3, <2>1, StartDoes
<1>6. /\ command'[c].kind = "install" /\ command'[c].step = "pending"
      /\ command'[c].target = t /\ command'[c].next = next
      /\ command'[c].current = NoContent
      /\ command'[c].stages = stages
      /\ command'[c].removals = {} /\ command'[c].generation = 0
      /\ command'[c].hand = {}
  BY <1>4, <1>5
<1>. QED BY <1>1, <1>5, <1>6 DEF stages

(* A change starts from the accepted state of the target.                  *)
LEMMA StartChangeDoes ==
  ASSUME LifecycleInv, NEW c \in Client, StartChange(c)
  PROVE  \E t \in TargetId, next \in Content :
           /\ Owns(t) /\ MayReplace(resolvedPackages[t], next)
           /\ MovesOn(c)
           /\ command'[c].kind = "change" /\ command'[c].step = "pending"
           /\ command'[c].target = t /\ command'[c].next = next
           /\ command'[c].current = resolvedPackages[t]
           /\ command'[c].stages = StagesOf(resolvedPackages[t], next)
           /\ command'[c].removals = RemovalsOf(resolvedPackages[t], next)
           /\ command'[c].generation = 0 /\ command'[c].hand = {}
           /\ command[c] = Idle /\ touched' = {}
           /\ UNCHANGED <<registryVars, fileVars, lockVars, failures>>
<1>1. PICK t \in TargetId, next \in Content :
        /\ Owns(t) /\ MayReplace(resolvedPackages[t], next)
        /\ Start(c, [Idle EXCEPT !.kind = "change", !.step = "pending", !.target = t,
                             !.next = next, !.current = resolvedPackages[t],
                             !.stages = StagesOf(resolvedPackages[t], next),
                             !.removals = RemovalsOf(resolvedPackages[t], next)])
  BY DEF StartChange
<1> DEFINE current == resolvedPackages[t]
           stages == StagesOf(current, next)
           removals == RemovalsOf(current, next)
           new == [Idle EXCEPT !.kind = "change", !.step = "pending", !.target = t,
                               !.next = next, !.current = current,
                               !.stages = stages, !.removals = removals]
<1>2. stages \in SUBSET Package /\ removals \in SUBSET Package /\ current \in Content
  BY DEF StagesOf, RemovalsOf, LifecycleInv, TypeOK, RegistryTypeOK
<1>3. Start(c, new)
  BY <1>1
<1> HIDE DEF stages, removals, current
<1>4. /\ new \in Running /\ new.kind = "change" /\ new.step = "pending"
      /\ new.target = t /\ new.next = next /\ new.current = current
      /\ new.stages = stages /\ new.removals = removals /\ new.generation = 0 /\ new.hand = {}
  <2>1. "change" \in Commands /\ "pending" \in Steps
    BY DEF Commands, Steps
  <2>. QED BY <1>2, <2>1, IdleFields DEF Running
<1> HIDE DEF new
<1>5. /\ command[c] = Idle /\ command'[c] = new
      /\ MovesOn(c) /\ touched' = {}
      /\ UNCHANGED <<registryVars, fileVars, lockVars, failures>>
  <2>1. new \in Running
    BY <1>4
  <2>. QED BY <1>3, <2>1, StartDoes
<1>6. /\ command'[c].kind = "change" /\ command'[c].step = "pending"
      /\ command'[c].target = t /\ command'[c].next = next
      /\ command'[c].current = current
      /\ command'[c].stages = stages
      /\ command'[c].removals = removals /\ command'[c].generation = 0
      /\ command'[c].hand = {}
  BY <1>4, <1>5
<1>. QED BY <1>1, <1>5, <1>6 DEF stages, removals, current

(* A recovery starts for a pending row: before its commit to clean up,     *)
(* after it to converge.                                                   *)
LEMMA StartRecoverDoes ==
  ASSUME LifecycleInv, NEW c \in Client, StartRecover(c)
  PROVE  \E row \in pendingOperations :
           /\ row.target \in TargetId /\ row.operation \in OperationId
           /\ MovesOn(c)
           /\ command'[c].kind = "recover" /\ command'[c].target = row.target
           /\ command'[c].removals = {} /\ command'[c].stages = {} /\ command'[c].hand = {}
           /\ command'[c].existed = {}
           /\ IF generation[row.target] = row.base
                THEN command'[c].step = "clean" /\ command'[c].generation = 0
                ELSE /\ generation[row.target] = row.next /\ generation[row.target] >= 1
                     /\ Owns(row.target) /\ Recoverable(row.target, row)
                     /\ command'[c].step = "converge"
                     /\ command'[c].operation = row.operation
                     /\ command'[c].generation = generation[row.target]
                     /\ command'[c].next = resolvedPackages[row.target]
                     /\ command'[c].todo = row.actions
           /\ command[c] = Idle /\ touched' = {}
           /\ UNCHANGED <<registryVars, fileVars, lockVars, failures>>
<1>1. PICK row \in pendingOperations :
        /\ RecoveryApplies(row)
        /\ IF generation[row.target] = row.base
             THEN Start(c, [Idle EXCEPT !.kind = "recover", !.step = "clean",
                                        !.target = row.target])
             ELSE Start(c, [Idle EXCEPT !.kind = "recover", !.step = "converge",
                                    !.target = row.target,
                                    !.operation = row.operation,
                                    !.generation = generation[row.target],
                                    !.next = resolvedPackages[row.target],
                                    !.todo = row.actions])
  BY DEF StartRecover
<1>2. /\ row.target \in TargetId /\ row.operation \in OperationId
      /\ row.actions \in SUBSET Package /\ row.base \in Nat /\ row.next = row.base + 1
      /\ resolvedPackages[row.target] \in Content
  BY DEF LifecycleInv, TypeOK, RegistryTypeOK, PendingRow, RegistryInv, PendingClassifies
<1>3. CASE generation[row.target] = row.base
  <2> DEFINE new == [Idle EXCEPT !.kind = "recover", !.step = "clean", !.target = row.target]
  <2>1. Start(c, new)
    BY <1>1, <1>3
  <2>2. /\ new \in Running /\ new.kind = "recover" /\ new.step = "clean"
        /\ new.target = row.target /\ new.generation = 0 /\ new.existed = {}
        /\ new.stages = {} /\ new.removals = {} /\ new.hand = {}
    BY <1>2, IdleFields DEF Running, Commands, Steps
  <2> HIDE DEF new
  <2>3. /\ command[c] = Idle /\ command'[c] = new
        /\ MovesOn(c) /\ touched' = {}
        /\ UNCHANGED <<registryVars, fileVars, lockVars, failures>>
    <3>1. new \in Running
      BY <2>2
    <3>. QED BY <2>1, <3>1, StartDoes
  <2>. QED BY <1>2, <1>3, <2>2, <2>3
<1>4. CASE generation[row.target] # row.base
  <2> DEFINE gen == generation[row.target]
             next == resolvedPackages[row.target]
             new == [Idle EXCEPT !.kind = "recover", !.step = "converge",
                                    !.target = row.target,
                                    !.operation = row.operation,
                                    !.generation = gen,
                                    !.next = next,
                                    !.todo = row.actions]
  <2>1. Start(c, new)
    BY <1>1, <1>4
  <2>2. /\ gen = row.next /\ gen >= 1 /\ gen \in Nat
        /\ Owns(row.target) /\ Recoverable(row.target, row)
    BY <1>1, <1>2, <1>4 DEF RecoveryApplies
  <2>3. next \in Content
    BY <1>2
  <2> HIDE DEF gen, next
  <2>4. /\ new \in Running /\ new.kind = "recover" /\ new.step = "converge"
        /\ new.target = row.target /\ new.generation = gen /\ new.next = next
        /\ new.operation = row.operation /\ new.todo = row.actions /\ new.existed = {}
        /\ new.stages = {} /\ new.removals = {} /\ new.hand = {}
    <3>1. "recover" \in Commands /\ "converge" \in Steps
      BY DEF Commands, Steps
    <3>. QED BY <1>2, <2>2, <2>3, <3>1, IdleFields DEF Running
  <2> HIDE DEF new
  <2>5. /\ command[c] = Idle /\ command'[c] = new
        /\ MovesOn(c) /\ touched' = {}
        /\ UNCHANGED <<registryVars, fileVars, lockVars, failures>>
    <3>1. new \in Running
      BY <2>4
    <3>. QED BY <2>1, <3>1, StartDoes
  <2>6. /\ command'[c].kind = "recover" /\ command'[c].step = "converge"
        /\ command'[c].target = row.target /\ command'[c].generation = gen
        /\ command'[c].next = next
        /\ command'[c].operation = row.operation /\ command'[c].todo = row.actions
        /\ command'[c].existed = {} /\ command'[c].stages = {}
        /\ command'[c].removals = {} /\ command'[c].hand = {}
    BY <2>4, <2>5
  <2>. QED BY <1>2, <1>4, <2>2, <2>5, <2>6 DEF gen, next
<1>. QED BY <1>3, <1>4

(* Sync starts by observing, repair by looking for drift, each for the     *)
(* target that has the directory.                                          *)
LEMMA StartSyncDoes ==
  ASSUME LifecycleInv, NEW c \in Client, StartSync(c) \/ StartRepair(c)
  PROVE  \E t \in TargetId :
           /\ Owns(t) /\ MovesOn(c)
           /\ command'[c].target = t
           /\ command'[c].stages = {} /\ command'[c].removals = {} /\ command'[c].hand = {}
           /\ command'[c].existed = {} /\ command'[c].generation = 0
           /\ \/ command'[c].kind = "sync" /\ command'[c].step = "observe"
              \/ /\ command'[c].kind = "repair" /\ command'[c].step = "drift"
                 /\ command'[c].next = resolvedPackages[t]
           /\ command[c] = Idle /\ touched' = {}
           /\ UNCHANGED <<registryVars, fileVars, lockVars, failures>>
<1>1. CASE StartSync(c)
  <2>1. PICK t \in TargetId :
          /\ Owns(t)
          /\ Start(c, [Idle EXCEPT !.kind = "sync", !.step = "observe", !.target = t])
    BY <1>1 DEF StartSync
  <2> DEFINE new == [Idle EXCEPT !.kind = "sync", !.step = "observe", !.target = t]
  <2>2. Start(c, new)
    BY <2>1
  <2>3. /\ new \in Running /\ new.kind = "sync" /\ new.step = "observe"
        /\ new.target = t /\ new.generation = 0 /\ new.existed = {}
        /\ new.stages = {} /\ new.removals = {} /\ new.hand = {}
    BY IdleFields DEF Running, Commands, Steps
  <2> HIDE DEF new
  <2>4. /\ command[c] = Idle /\ command'[c] = new
        /\ MovesOn(c) /\ touched' = {}
        /\ UNCHANGED <<registryVars, fileVars, lockVars, failures>>
    <3>1. new \in Running
      BY <2>3
    <3>. QED BY <2>2, <3>1, StartDoes
  <2>. QED BY <2>1, <2>3, <2>4
<1>2. CASE StartRepair(c)
  <2>1. PICK t \in TargetId :
          /\ Owns(t)
          /\ Start(c, [Idle EXCEPT !.kind = "repair", !.step = "drift", !.target = t,
                             !.next = resolvedPackages[t],
                             !.todo = {n \in Package : resolvedPackages[t][n] # NoDigest}])
    BY <1>2 DEF StartRepair
  <2> DEFINE next == resolvedPackages[t]
             todo == {n \in Package : next[n] # NoDigest}
             new == [Idle EXCEPT !.kind = "repair", !.step = "drift", !.target = t,
                                 !.next = next, !.todo = todo]
  <2>2. next \in Content /\ todo \in SUBSET Package
    BY DEF LifecycleInv, TypeOK, RegistryTypeOK
  <2>3. Start(c, new)
    BY <2>1
  <2> HIDE DEF next, todo
  <2>4. /\ new \in Running /\ new.kind = "repair" /\ new.step = "drift"
        /\ new.target = t /\ new.generation = 0 /\ new.existed = {} /\ new.next = next
        /\ new.stages = {} /\ new.removals = {} /\ new.hand = {}
    BY <2>2, IdleFields DEF Running, Commands, Steps
  <2> HIDE DEF new
  <2>5. /\ command[c] = Idle /\ command'[c] = new
        /\ MovesOn(c) /\ touched' = {}
        /\ UNCHANGED <<registryVars, fileVars, lockVars, failures>>
    <3>1. new \in Running
      BY <2>4
    <3>. QED BY <2>3, <3>1, StartDoes
  <2>. QED BY <2>1, <2>4, <2>5 DEF next
<1>. QED BY <1>1, <1>2

----------------------------------------------------------------------------
(* Every step of a command preserves the first invariant.                  *)

(* Steps that only give the command up.                                    *)
LEMMA GivingUpFits ==
  ASSUME LifecycleInv, NEW c \in Client,
         \/ PendingConflict(c) \/ LiveConflict(c) \/ AcceptedStateMismatch(c)
         \/ RemovalRefused(c) \/ RetireFails(c)
         \/ ObserveFails(c) \/ RecoverConflict(c) \/ Done(c) \/ LockIsLost(c) \/ Stop(c)
  PROVE  /\ Preserves(c) /\ command'[c] = Idle
         /\ UNCHANGED <<registryVars, fileVars, touched>>
<1>1. /\ Return(c) /\ UNCHANGED <<registryVars, fileVars, touched>>
      /\ UNCHANGED failures \/ (failures < MaxFailures /\ failures' = failures + 1)
  BY DEF PendingConflict, LiveConflict, AcceptedStateMismatch, RemovalRefused, RetireFails,
         ObserveFails, RecoverConflict, Done, LockIsLost, Stop
<1>2. /\ FilesTypeOK /\ failures \in 0..MaxFailures /\ touched \subseteq Package
      /\ command \in CommandType /\ LockTypeOK
  BY DEF LifecycleInv, TypeOK, CommandsTypeOK, CommandType
<1>3. FilesTypeOK' /\ touched' \subseteq Package /\ failures' \in 0..MaxFailures
  BY <1>1, <1>2, FilesRest, MaxFailuresAssumption
<1>. QED BY <1>1, <1>2, <1>3, RegistryRests, ReturnFits, ReturnMoves

(* Steps that only move on to the next loop.                               *)
LEMMA LoopStepFits ==
  ASSUME LifecycleInv, NEW c \in Client,
         \/ StagingFails(c) \/ StagingDone(c) \/ RemovalManifestsDone(c) \/ CommitRefused(c)
         \/ RemovalsDone(c) \/ ActivationsDone(c) \/ Converged(c) \/ DriftRepaired(c)
  PROVE  Preserves(c)
<1>1. /\ command[c].step # "none"
      /\ UNCHANGED <<registryVars, fileVars, lockVars, touched>>
      /\ UNCHANGED failures \/ (failures < MaxFailures /\ failures' = failures + 1)
  BY DEF StagingFails, StagingDone, RemovalManifestsDone, CommitRefused, RemovalsDone,
         ActivationsDone, Converged, DriftRepaired, Held, At
<1>2. /\ command[c] \in Running /\ command \in CommandType /\ Fits(command[c])
      /\ command[c].kind \in Commands
      /\ command[c].stages \in SUBSET Package /\ command[c].removals \in SUBSET Package
      /\ Containers(command[c].operation) \in SUBSET Package
      /\ command[c].stages \cup command[c].removals \in SUBSET Package
      /\ {} \in SUBSET Package
  BY <1>1, BusyRuns DEF Running, Containers
<1>3. /\ FilesTypeOK' /\ LockTypeOK' /\ touched' \subseteq Package
      /\ failures' \in 0..MaxFailures /\ RegistrySteps
  BY <1>1, BusyRuns, FilesRest, LockRests, RegistryRests, MaxFailuresAssumption
<1>4. ASSUME NEW step \in Steps, NEW todo \in SUBSET Package, GoTo(c, step, todo),
             step \in StepsOf(command[c].kind), command[c].step # "observe",
             step \in OperationSteps => command[c].step \in OperationSteps
      PROVE  Preserves(c)
  <2>1. /\ MovesOn(c) /\ SameTask(c) /\ SameGoal(c)
        /\ command'[c].step = step /\ command'[c].operation = command[c].operation
    BY <1>2, <1>4, GoToMoves
  <2>. QED BY <1>1, <1>3, <1>4, <2>1, GoesOnQuietly
<1>5. CASE StagingFails(c) \/ StagingDone(c)
  <2>1. /\ command[c].step = "stage"
        /\ GoTo(c, "undo", Containers(command[c].operation))
             \/ GoTo(c, "removals", command[c].removals)
    BY <1>5 DEF StagingFails, StagingDone, Held, At
  <2>2. {"undo", "removals"} \subseteq StepsOf(command[c].kind)
    BY <1>2, <2>1, StepOrder DEF Fits
  <2>. QED BY <1>2, <1>4, <2>1, <2>2 DEF Steps, OperationSteps
<1>6. CASE RemovalManifestsDone(c) \/ CommitRefused(c)
  <2>1. \/ /\ command[c].step = "removals"
           /\ \/ command[c].kind \in {"install", "change"} /\ GoTo(c, "commit", {})
              \/ GoTo(c, "remove", command[c].removals)
        \/ /\ command[c].step = "commit"
           /\ GoTo(c, "undo", Containers(command[c].operation))
    BY <1>6 DEF RemovalManifestsDone, CommitRefused, Held, At
  <2>2. /\ command[c].step = "removals" =>
             /\ command[c].kind \in {"install", "change"} => "commit" \in StepsOf(command[c].kind)
             /\ "remove" \in StepsOf(command[c].kind)
        /\ command[c].step = "commit" => "undo" \in StepsOf(command[c].kind)
    BY <1>2, StepOrder DEF Fits
  <2>. QED BY <1>2, <1>4, <2>1, <2>2 DEF Steps, OperationSteps
<1>7. CASE RemovalsDone(c) \/ ActivationsDone(c)
  <2>1. \/ /\ command[c].step = "remove" /\ GoTo(c, "activate", command[c].stages)
        \/ /\ command[c].step = "activate"
           /\ IF command[c].kind \in {"install", "change"}
                THEN GoTo(c, "marker", {})
                ELSE GoTo(c, "discard", command[c].stages \cup command[c].removals)
    BY <1>7 DEF RemovalsDone, ActivationsDone, Held, At
  <2>2. /\ command[c].step = "remove" => "activate" \in StepsOf(command[c].kind)
        /\ command[c].step = "activate" =>
             /\ "marker" \in StepsOf(command[c].kind)
             /\ command[c].kind \notin {"install", "change"} => "discard" \in StepsOf(command[c].kind)
    BY <1>2, StepOrder DEF Fits
  <2>. QED BY <1>2, <1>4, <2>1, <2>2 DEF Steps, OperationSteps
<1>8. CASE Converged(c) \/ DriftRepaired(c)
  <2>1. \/ command[c].step = "converge" /\ GoTo(c, "marker", {})
        \/ command[c].step = "drift" /\ GoTo(c, "observe", {})
    BY <1>8 DEF Converged, DriftRepaired, Held, At
  <2>2. /\ command[c].step = "converge" => "marker" \in StepsOf(command[c].kind)
        /\ command[c].step = "drift" => "observe" \in StepsOf(command[c].kind)
    BY <1>2 DEF Fits, StepsOf, Commands, DriftSteps
  <2>. QED BY <1>2, <1>4, <2>1, <2>2 DEF Steps, OperationSteps
<1>. QED BY <1>5, <1>6, <1>7, <1>8

(* Announcing and planning.                                                *)
LEMMA PlanningFits ==
  ASSUME LifecycleInv, NEW c \in Client,
         BeginPending(c) \/ NothingPending(c) \/ Observe(c) \/ ReadPending(c)
  PROVE  Preserves(c)
<1>0. command[c].step # "none" /\ UNCHANGED <<fileVars, lockVars, failures, touched>>
  BY DEF BeginPending, NothingPending, Observe, ReadPending, Held, At
<1>1. /\ command[c] \in Running /\ command[c].kind \in Commands /\ Fits(command[c])
      /\ FilesTypeOK' /\ LockTypeOK' /\ touched' \subseteq Package
      /\ failures' \in 0..MaxFailures
  BY <1>0, BusyRuns, FilesRest, LockRests
<1>2. CASE BeginPending(c)
  <2>1. RegistrySteps
    <3>1. /\ command[c].target \in TargetId /\ command'[c].operation \in OperationId
          /\ command[c].stages \cup command[c].removals \in SUBSET Package
      BY <1>1, <1>2, BeginPendingDoes DEF Running
    <3>2. \/ BeginPendingOperation(command'[c].operation, command[c].target,
                                   command[c].stages \cup command[c].removals)
          \/ BeginPendingReconciliation(command'[c].operation, command[c].target,
                                   command[c].stages \cup command[c].removals)
      BY <1>2, BeginPendingDoes
    <3>3. RegistryNext
      BY <3>1, <3>2 DEF RegistryNext
    <3>4. UNCHANGED targetLocations
      BY <3>2 DEF BeginPendingOperation, BeginPendingReconciliation, InsertPending
    <3>. QED BY <3>3, <3>4 DEF RegistrySteps, Owns
  <2>2. /\ command[c].step = "pending" /\ MovesOn(c) /\ SameTask(c) /\ SameGoal(c)
        /\ command'[c].step = "stage" /\ command'[c].operation \in OperationId
    BY <1>2, BeginPendingDoes
  <2>3. "stage" \in StepsOf(command[c].kind)
    BY <1>1, <2>2, StepOrder DEF Fits
  <2>4. command[c].kind = "sync" => command'[c].generation >= 1
    BY <1>1, <2>2 DEF Fits, SameGoal
  <2>. QED BY <1>0, <1>1, <2>1, <2>2, <2>3, <2>4, GoesOn
<1>3. CASE NothingPending(c)
  <2>1. /\ command[c].step = "pending" /\ MovesOn(c) /\ SameTask(c) /\ SameGoal(c)
        /\ command'[c].step = "marker" /\ RegistrySteps
    BY <1>3, NothingPendingDoes, RegistryRests
  <2>2. "marker" \in StepsOf(command[c].kind)
    BY <1>1, <2>1, StepOrder DEF Fits
  <2>3. command[c].kind = "sync" => command'[c].generation >= 1
    BY <1>1, <2>1 DEF Fits, SameGoal
  <2>. QED BY <1>0, <1>1, <2>1, <2>2, <2>3, GoesOn DEF OperationSteps
<1>4. CASE Observe(c)
  <2>1. /\ command[c].kind \in {"sync", "repair"} /\ Owns(command[c].target)
        /\ MovesOn(c)
        /\ command'[c].kind = command[c].kind /\ command'[c].target = command[c].target
        /\ command'[c].step = "clean" /\ command'[c].generation >= 1
        /\ UNCHANGED registryVars
    BY <1>4, ObserveDoes
  <2>2. "clean" \in StepsOf(command[c].kind) /\ "clean" \notin OperationSteps
    BY <2>1 DEF StepsOf, OperationSteps
  <2>3. Owns(command[c].target)'
    BY <2>1 DEF Owns, registryVars
  <2>4. Fits(command[c])'
    BY <2>1, <2>2, <2>3 DEF Fits
  <2>. QED BY <1>1, <2>1, <2>4, RegistryRests DEF Preserves, MovesOn, OthersWait
<1>5. CASE ReadPending(c)
  <2>1. /\ command[c].step = "clean" /\ MovesOn(c) /\ SameTask(c) /\ SameGoal(c)
        /\ UNCHANGED registryVars
        /\ \/ command'[c].step = AfterClean(c)
           \/ command'[c].step = "cleaning" /\ command'[c].operation \in OperationId
    BY <1>5, ReadPendingDoes
  <2>2. {"cleaning", AfterClean(c)} \subseteq StepsOf(command[c].kind)
        /\ AfterClean(c) \notin OperationSteps
    BY <1>1, <2>1, StepOrder DEF Fits, AfterClean, OperationSteps
  <2>3. command[c].kind = "sync" => command'[c].generation >= 1
    BY <1>1, <2>1 DEF Fits, SameGoal
  <2>. QED BY <1>0, <1>1, <2>1, <2>2, <2>3, GoesOn, RegistryRests
<1>. QED BY <1>2, <1>3, <1>4, <1>5

(* Staging, and the manifests.                                             *)
LEMMA StagingFits ==
  ASSUME LifecycleInv, NEW c \in Client,
         StageProjection(c) \/ WriteStageManifest(c) \/ WriteRemovalManifest(c)
  PROVE  Preserves(c)
<1> DEFINE cmd == command[c]
<1>1. /\ cmd.step \in {"stage", "manifest", "removals"}
      /\ UNCHANGED <<registryVars, live, marker, lockVars, failures, touched>>
  BY DEF StageProjection, WriteStageManifest, WriteRemovalManifest, Held, At
<1>2. /\ cmd \in Running /\ command \in CommandType /\ Fits(cmd) /\ cmd.kind \in Commands
      /\ FilesTypeOK /\ cmd.operation \in OperationId
      /\ LockTypeOK' /\ touched' \subseteq Package
      /\ failures' \in 0..MaxFailures /\ RegistrySteps
  BY <1>1, BusyRuns, LockRests, RegistryRests DEF Fits, OperationSteps
<1>3. /\ \A n \in Package : /\ cmd.next[n] \in Digest \cup {NoDigest}
                            /\ cmd.current[n] \in Digest \cup {NoDigest}
      /\ cmd.todo \subseteq Package /\ cmd.hand \subseteq Package
  BY <1>2 DEF Running, Content
<1>4. CASE StageProjection(c)
  <2>1. PICK n \in cmd.todo :
          /\ cmd.step = "stage"
          /\ StageContainer(cmd.operation, n, cmd.next[n])
          /\ MovesOn(c) /\ SameTask(c) /\ SameGoal(c)
          /\ command'[c].step = "manifest" /\ command'[c].operation = cmd.operation
    BY <1>4, StageProjectionDoes
  <2>2. FilesTypeOK'
    BY <1>1, <1>2, <1>3, <2>1, StageContainerStages
  <2>3. "manifest" \in StepsOf(cmd.kind)
    BY <1>2, <2>1, StepOrder DEF Fits
  <2>. QED BY <1>1, <1>2, <2>1, <2>2, <2>3, GoesOnQuietly DEF OperationSteps
<1>5. CASE WriteStageManifest(c)
  <2>1. /\ cmd.step = "manifest"
        /\ \E n \in cmd.hand : WriteManifest(cmd.operation, n, "stage", cmd.current[n])
        /\ GoTo(c, "stage", cmd.todo)
    BY <1>5 DEF WriteStageManifest, At
  <2>2. FilesTypeOK'
    BY <1>1, <1>2, <1>3, <2>1, WriteManifestKeeps
  <2>3. /\ MovesOn(c) /\ SameTask(c) /\ SameGoal(c)
        /\ command'[c].step = "stage" /\ command'[c].operation = cmd.operation
    BY <1>2, <1>3, <2>1, GoToMoves DEF Steps
  <2>4. "stage" \in StepsOf(cmd.kind)
    BY <1>2, <2>1, StepOrder DEF Fits
  <2>. QED BY <1>1, <1>2, <2>1, <2>2, <2>3, <2>4, GoesOnQuietly DEF OperationSteps
<1>6. CASE WriteRemovalManifest(c)
  <2>1. PICK n \in cmd.todo : /\ cmd.step = "removals"
                              /\ WriteManifest(cmd.operation, n, "remove", cmd.current[n])
                              /\ Ticked(c, n)
    BY <1>6 DEF WriteRemovalManifest, Held, At
  <2>2. FilesTypeOK'
    BY <1>1, <1>2, <1>3, <2>1, WriteManifestKeeps
  <2>3. /\ MovesOn(c) /\ SameTask(c) /\ SameGoal(c)
        /\ command'[c].step = cmd.step /\ command'[c].operation = cmd.operation
    BY <1>2, <2>1, TickedMoves
  <2>. QED BY <1>1, <1>2, <2>1, <2>2, <2>3, GoesOnQuietly DEF Fits
<1>. QED BY <1>4, <1>5, <1>6

(* The commit.                                                             *)
LEMMA CommitFits ==
  ASSUME LifecycleInv, NEW c \in Client, CommitAcceptedState(c)
  PROVE  Preserves(c)
<1> DEFINE cmd == command[c]
<1>1. /\ cmd.step = "commit"
      /\ CommitPermitted(c)
      /\ \/ cmd.kind = "change"
            /\ ReplaceTargetState(cmd.operation, cmd.target, cmd.next)
         \/ cmd.kind = "install"
            /\ ReplaceFreshTargetState(cmd.operation, cmd.target, TargetRoot, cmd.next)
      /\ RegistryNext
      /\ MovesOn(c) /\ SameTask(c)
      /\ command'[c].step = "remove" /\ command'[c].operation = cmd.operation
      /\ UNCHANGED <<fileVars, lockVars, failures, touched>>
  BY CommitDoes
<1>2. /\ Fits(cmd) /\ cmd.kind \in Commands /\ RegistryTypeOK /\ cmd.target \in TargetId
      /\ FilesTypeOK' /\ LockTypeOK' /\ touched' \subseteq Package
      /\ failures' \in 0..MaxFailures
  BY <1>1, BusyRuns, FilesRest, LockRests
<1>3. ASSUME NEW t \in TargetId, Owns(t)
      PROVE  Owns(t)'
  <2>1. PICK row \in targetLocations : row.path = TargetRoot /\ row.target = t
    BY <1>3 DEF Owns
  <2>2. t = cmd.target
    BY <1>1, <2>1 DEF CommitPermitted
  <2>3. CASE cmd.kind = "change"
    BY <1>1, <2>1, <2>2, <2>3
       DEF ReplaceTargetState, ReplaceTargetRows, LocationsOf, Owns
  <2>4. CASE cmd.kind = "install"
    <3>1. ReplaceFreshTargetState(cmd.operation, cmd.target, TargetRoot, cmd.next)
      BY <1>1, <2>4
    <3>2. FreshLocation(cmd.target, TargetRoot) \subseteq targetLocations'
      BY <3>1 DEF ReplaceFreshTargetState, ReplaceTargetRows
    <3>. QED BY <2>2, <3>2 DEF FreshLocation, Owns
  <2>. QED BY <1>1, <2>3, <2>4
<1>4. RegistrySteps
  BY <1>1, <1>3 DEF RegistrySteps
<1>5. "remove" \in StepsOf(cmd.kind) /\ cmd.operation \in OperationId
  BY <1>1, <1>2, StepOrder DEF Fits, OperationSteps
<1>. QED BY <1>1, <1>2, <1>4, <1>5, GoesOn

(* Removing a container, or completing the operation.                      *)
LEMMA CleaningFits ==
  ASSUME LifecycleInv, NEW c \in Client,
         UndoStaging(c) \/ DiscardStaging(c) \/ CleanPending(c)
  PROVE  Preserves(c)
<1> DEFINE cmd == command[c]
<1>1. /\ cmd.step \in {"undo", "discard", "cleaning"}
      /\ UNCHANGED <<live, marker, failures, touched>>
  BY DEF UndoStaging, DiscardStaging, CleanPending, Held, At
<1>2. /\ cmd \in Running /\ command \in CommandType /\ Fits(cmd) /\ cmd.kind \in Commands
      /\ FilesTypeOK /\ cmd.operation \in OperationId /\ touched' \subseteq Package
      /\ failures' \in 0..MaxFailures /\ cmd.todo \subseteq Package /\ LockTypeOK
  BY <1>1, BusyRuns DEF Fits, OperationSteps, Running
<1>3. /\ UNCHANGED staging => FilesTypeOK'
      /\ \A n \in cmd.todo : RemoveContainer(cmd.operation, n) => FilesTypeOK'
  <2>1. UNCHANGED staging => FilesTypeOK'
    BY <1>1, <1>2 DEF FilesTypeOK
  <2>2. ASSUME NEW n \in cmd.todo, RemoveContainer(cmd.operation, n)
        PROVE  FilesTypeOK'
    BY <1>1, <1>2, <2>2, RemoveContainerRemoves DEF FilesTypeOK
  <2>. QED BY <2>1, <2>2
<1>4. CompletePendingOperation(cmd.operation) => RegistrySteps
  BY <1>2 DEF RegistrySteps, RegistryNext, CompletePendingOperation, Owns
<1>5. UNCHANGED registryVars => RegistrySteps
  BY RegistryRests
<1>6. CASE UndoStaging(c)
  <2>1. CASE \E n \in cmd.todo : /\ RemoveContainer(cmd.operation, n)
                                 /\ Ticked(c, n)
                                 /\ UNCHANGED <<registryVars, lockVars>>
    <3>1. PICK n \in cmd.todo : /\ RemoveContainer(cmd.operation, n)
                                /\ Ticked(c, n)
                                /\ UNCHANGED <<registryVars, lockVars>>
      BY <2>1
    <3>2. MovesOn(c) /\ SameTask(c) /\ SameGoal(c) /\ command'[c].operation = cmd.operation
          /\ command'[c].step = cmd.step
      BY <1>2, <3>1, TickedMoves
    <3>. QED BY <1>1, <1>2, <1>3, <1>5, <3>1, <3>2, LockRests, GoesOnQuietly DEF Fits
  <2>2. CASE /\ CompletePendingOperation(cmd.operation)
             /\ Return(c)
             /\ UNCHANGED staging
    BY <1>2, <1>3, <1>4, <2>2, ReturnFits
  <2>. QED BY <1>6, <2>1, <2>2 DEF UndoStaging
<1>7. CASE DiscardStaging(c)
  <2>1. CASE \E n \in cmd.todo : /\ RemoveContainer(cmd.operation, n)
                                 /\ Ticked(c, n)
                                 /\ UNCHANGED registryVars
    <3>1. PICK n \in cmd.todo : /\ RemoveContainer(cmd.operation, n)
                                /\ Ticked(c, n)
                                /\ UNCHANGED registryVars
      BY <2>1
    <3>2. MovesOn(c) /\ SameTask(c) /\ SameGoal(c) /\ command'[c].operation = cmd.operation
          /\ command'[c].step = cmd.step
      BY <1>2, <3>1, TickedMoves
    <3>3. LockTypeOK'
      BY <1>2, <1>7, LockRests DEF DiscardStaging
    <3>. QED BY <1>1, <1>2, <1>3, <1>5, <3>1, <3>2, <3>3, GoesOnQuietly DEF Fits
  <2>2. CASE /\ CompletePendingOperation(cmd.operation)
             /\ GoTo(c, "marker", {})
             /\ UNCHANGED staging
    <3>1. MovesOn(c) /\ SameTask(c) /\ SameGoal(c) /\ command'[c].operation = cmd.operation
          /\ command'[c].step = "marker"
      BY <1>2, <2>2, GoToMoves DEF Steps
    <3>2. "marker" \in StepsOf(cmd.kind)
      BY <1>2, <1>7, StepOrder DEF Fits, DiscardStaging, Held, At
    <3>3. LockTypeOK'
      BY <1>2, <1>7, LockRests DEF DiscardStaging
    <3>. QED BY <1>1, <1>2, <1>3, <1>4, <2>2, <3>1, <3>2, <3>3, GoesOnQuietly DEF OperationSteps
  <2>. QED BY <1>7, <2>1, <2>2 DEF DiscardStaging
<1>8. CASE CleanPending(c)
  <2>1. /\ cmd.step = "cleaning"
        /\ MovesOn(c) /\ SameTask(c) /\ SameGoal(c) /\ UNCHANGED lockVars
        /\ \/ /\ \E n \in cmd.todo : RemoveContainer(cmd.operation, n)
              /\ command'[c].step = "cleaning"
              /\ command'[c].operation = cmd.operation
              /\ UNCHANGED registryVars
           \/ /\ CompletePendingOperation(cmd.operation)
              /\ command'[c].step = AfterClean(c)
              /\ UNCHANGED staging
    BY <1>8, CleanPendingDoes
  <2>2. FilesTypeOK' /\ RegistrySteps /\ LockTypeOK'
    BY <1>2, <1>3, <1>4, <1>5, <2>1, LockRests
  <2>3. AfterClean(c) \in StepsOf(cmd.kind) /\ AfterClean(c) \notin OperationSteps
    BY <1>2, <2>1 DEF Fits, AfterClean, OperationSteps, StepsOf, Commands, DriftSteps
  <2>4. cmd.kind = "sync" => command'[c].generation >= 1
    BY <1>2, <2>1 DEF Fits, SameGoal
  <2>5. command'[c].step \in StepsOf(cmd.kind)
        /\ (command'[c].step \in OperationSteps => command'[c].operation \in OperationId)
    BY <1>2, <2>1, <2>3 DEF Fits
  <2>. QED BY <1>2, <2>1, <2>2, <2>4, <2>5, GoesOn
<1>. QED BY <1>6, <1>7, <1>8

(* Removing and activating.                                                *)
LEMMA LiveStepFits ==
  ASSUME LifecycleInv, NEW c \in Client,
         \/ VerifyRemoval(c) \/ RecoverRemoval(c) \/ RecoverActivated(c)
         \/ VerifyCurrent(c) \/ RecoverActivation(c)
         \/ RemoveProjection(c) \/ ActivateNew(c) \/ RetireCurrent(c) \/ ActivateAtOnce(c)
         \/ ActivateRetired(c) \/ ActivationFails(c)
  PROVE  Preserves(c)
<1> DEFINE cmd == command[c]
<1>1. /\ cmd.step \in {"remove", "removing", "activate", "converge", "retire", "swap"}
      /\ UNCHANGED <<registryVars, marker, touched>>
  BY DEF VerifyRemoval, RecoverRemoval, RecoverActivated, VerifyCurrent, RecoverActivation,
         RemoveProjection, ActivateNew, RetireCurrent, ActivateAtOnce, ActivateRetired,
         ActivationFails, Held, At, MayRetire, MaySwap, fileVars
<1>2. /\ cmd \in Running /\ command \in CommandType /\ Fits(cmd) /\ cmd.kind \in Commands
      /\ FilesTypeOK /\ cmd.operation \in OperationId /\ touched' \subseteq Package
      /\ failures \in 0..MaxFailures /\ cmd.todo \subseteq Package /\ cmd.hand \subseteq Package
      /\ LockTypeOK /\ RegistrySteps
  BY <1>1, BusyRuns, RegistryRests DEF Fits, OperationSteps, Running
<1>3. ASSUME NEW n, Ticked(c, n), FilesTypeOK', UNCHANGED <<lockVars, failures>>
      PROVE  Preserves(c)
  <2>1. MovesOn(c) /\ SameTask(c) /\ SameGoal(c) /\ command'[c].operation = cmd.operation
        /\ command'[c].step = cmd.step
    BY <1>2, <1>3, TickedMoves
  <2>. QED BY <1>1, <1>2, <1>3, <2>1, LockRests, GoesOnQuietly DEF Fits
<1>4. ASSUME NEW step \in {"removing", "retire"}, step \in StepsOf(cmd.kind),
             NEW n \in Package, Half(c, step, n), FilesTypeOK', UNCHANGED <<lockVars, failures>>
      PROVE  Preserves(c)
  <2>1. MovesOn(c) /\ SameTask(c) /\ SameGoal(c) /\ command'[c].operation = cmd.operation
        /\ command'[c].step = step
    BY <1>2, <1>4, HalfMoves DEF Steps
  <2>. QED BY <1>1, <1>2, <1>4, <2>1, LockRests, GoesOnQuietly DEF OperationSteps
<1>5. ASSUME NEW step \in {"remove", "converge", "activate"}, step \in StepsOf(cmd.kind),
             GoTo(c, step, cmd.todo), FilesTypeOK', UNCHANGED <<lockVars, failures>>
      PROVE  Preserves(c)
  <2>1. MovesOn(c) /\ SameTask(c) /\ SameGoal(c) /\ command'[c].operation = cmd.operation
        /\ command'[c].step = step
    BY <1>2, <1>5, GoToMoves DEF Steps
  <2>. QED BY <1>1, <1>2, <1>5, <2>1, LockRests, GoesOnQuietly DEF OperationSteps
<1>6. CASE VerifyRemoval(c) \/ RecoverRemoval(c)
  <2>1. PICK n \in cmd.todo : IF Missing(n) THEN Ticked(c, n) ELSE Half(c, "removing", n)
    BY <1>6 DEF VerifyRemoval, RecoverRemoval
  <2>2. UNCHANGED <<fileVars, lockVars, failures>> /\ n \in Package
    BY <1>2, <1>6 DEF VerifyRemoval, RecoverRemoval
  <2>3. "removing" \in StepsOf(cmd.kind)
    BY <1>2, <1>6, StepOrder DEF VerifyRemoval, RecoverRemoval, Held, At, Fits
  <2>. QED BY <1>2, <1>3, <1>4, <2>1, <2>2, <2>3, FilesRest
<1>7. CASE VerifyCurrent(c) \/ RecoverActivation(c)
  <2>1. PICK n \in cmd.todo : Half(c, "retire", n)
    BY <1>7 DEF VerifyCurrent, RecoverActivation
  <2>2. UNCHANGED <<fileVars, lockVars, failures>> /\ n \in Package
    BY <1>2, <1>7 DEF VerifyCurrent, RecoverActivation
  <2>3. "retire" \in StepsOf(cmd.kind)
    BY <1>2, <1>7, StepOrder DEF VerifyCurrent, RecoverActivation, Held, At, Fits
  <2>. QED BY <1>2, <1>4, <2>1, <2>2, <2>3, FilesRest
<1>8. CASE RecoverActivated(c)
  BY <1>2, <1>3, <1>8, FilesRest DEF RecoverActivated
<1>9. CASE RemoveProjection(c)
  <2>1. PICK n \in cmd.hand : live' = [live EXCEPT ![n] = NoDigest]
    BY <1>9 DEF RemoveProjection
  <2>2. /\ cmd.step = "removing" /\ GoTo(c, AfterRemoving(c), cmd.todo)
        /\ UNCHANGED <<staging, lockVars, failures>>
    BY <1>9 DEF RemoveProjection, At
  <2>3. FilesTypeOK'
    BY <1>1, <1>2, <2>1, <2>2 DEF FilesTypeOK, LiveContent
  <2>4. AfterRemoving(c) \in {"remove", "converge"} /\ AfterRemoving(c) \in StepsOf(cmd.kind)
    BY <1>2, <2>2, StepOrder DEF AfterRemoving, Fits
  <2>. QED BY <1>5, <2>2, <2>3, <2>4
<1>12. CASE ActivateNew(c)
  <2>1. PICK n \in cmd.todo : Activate(cmd.operation, n) /\ Ticked(c, n)
    BY <1>12 DEF ActivateNew
  <2>2. FilesTypeOK'
    BY <1>1, <1>2, <2>1, ActivateShows
  <2>. QED BY <1>3, <1>12, <2>1, <2>2 DEF ActivateNew
<1>13. CASE RetireCurrent(c)
  <2>1. PICK n \in cmd.hand : Retire(cmd.operation, n)
    BY <1>13 DEF RetireCurrent
  <2>2. /\ cmd.step = "retire" /\ UNCHANGED <<lockVars, failures>>
        /\ command' = [command EXCEPT ![c].step = "swap"]
    BY <1>13 DEF RetireCurrent, MayRetire, At
  <2>3. FilesTypeOK'
    BY <1>1, <1>2, <2>1, RetireKeeps
  <2>4. "swap" \in StepsOf(cmd.kind)
    BY <1>2, <2>2, StepOrder DEF Fits
  <2>5. MovesOn(c) /\ SameTask(c) /\ SameGoal(c) /\ command'[c].operation = cmd.operation
        /\ command'[c].step = "swap"
    BY <1>2, <2>2, SwapFollows
  <2>. QED BY <1>1, <1>2, <2>2, <2>3, <2>4, <2>5, LockRests, GoesOnQuietly DEF OperationSteps
<1>14. CASE ActivateAtOnce(c)
  <2>1. PICK n \in cmd.hand : Activate(cmd.operation, n)
    BY <1>14 DEF ActivateAtOnce
  <2>2. /\ cmd.step = "retire" /\ cmd.kind = "recover" /\ UNCHANGED <<lockVars, failures>>
        /\ GoTo(c, "converge", cmd.todo)
    BY <1>14 DEF ActivateAtOnce, MayRetire, At
  <2>3. FilesTypeOK'
    BY <1>1, <1>2, <2>1, ActivateShows
  <2>4. "converge" \in StepsOf(cmd.kind)
    BY <1>2, <2>2, StepOrder DEF Fits
  <2>. QED BY <1>5, <2>2, <2>3, <2>4
<1>10. CASE ActivateRetired(c)
  <2> DEFINE step == IF cmd.kind = "recover" THEN "converge" ELSE "activate"
  <2>1. /\ cmd.step = "swap"
        /\ \E n \in cmd.hand : Activate(cmd.operation, n)
        /\ GoTo(c, step, cmd.todo)
        /\ UNCHANGED <<lockVars, failures>>
    BY <1>10 DEF ActivateRetired, MaySwap, At
  <2>2. FilesTypeOK'
    BY <1>1, <1>2, <2>1, ActivateShows
  <2>3. step \in Steps /\ step \in StepsOf(cmd.kind)
    BY <1>2, <2>1, StepOrder DEF Fits, Steps
  <2> HIDE DEF step
  <2>4. MovesOn(c) /\ SameTask(c) /\ SameGoal(c) /\ command'[c].operation = cmd.operation
        /\ command'[c].step = step
    BY <1>2, <2>1, <2>3, GoToMoves
  <2>. QED BY <1>1, <1>2, <2>1, <2>2, <2>3, <2>4, LockRests, GoesOnQuietly DEF OperationSteps
<1>11. CASE ActivationFails(c)
  <2>1. PICK n \in cmd.hand :
          /\ IF Holds(cmd.operation, n) /\ Missing(n)
               THEN failures < MaxFailures /\ failures' = failures + 1
               ELSE UNCHANGED failures
          /\ IF staging[cmd.operation][n] # NoContainer /\ Missing(n)
               THEN Reinstate(cmd.operation, n)
               ELSE UNCHANGED <<live, staging>>
    BY <1>11 DEF ActivationFails
  <2>2. FilesTypeOK'
    BY <1>1, <1>2, <2>1, ReinstatePutsBack, FilesRest DEF fileVars
  <2>3. failures' \in 0..MaxFailures
    BY <1>2, <2>1, MaxFailuresAssumption
  <2>4. Return(c)
    BY <1>11 DEF ActivationFails
  <2>. QED BY <1>2, <2>2, <2>3, <2>4, ReturnFits
<1>. QED BY <1>6, <1>7, <1>8, <1>9, <1>10, <1>11, <1>12, <1>13, <1>14

(* Repairing drift.                                                        *)
LEMMA DriftStepFits ==
  ASSUME LifecycleInv, NEW c \in Client,
         \/ RepairDrift(c) \/ DriftRetire(c) \/ DriftSwap(c) \/ DriftSwapFails(c)
         \/ DriftDiscard(c)
  PROVE  Preserves(c)
<1> DEFINE cmd == command[c]
<1>1. /\ cmd.step \in DriftSteps
      /\ UNCHANGED <<registryVars, marker, touched>>
  BY DEF RepairDrift, DriftRetire, DriftSwap, DriftSwapFails, DriftDiscard, Held, At, DriftSteps
<1>2. /\ cmd \in Running /\ command \in CommandType /\ Fits(cmd) /\ cmd.kind = "repair"
      /\ FilesTypeOK /\ touched' \subseteq Package
      /\ cmd.step # "drift" => cmd.operation \in OperationId
      /\ failures \in 0..MaxFailures /\ cmd.todo \subseteq Package /\ cmd.hand \subseteq Package
      /\ LockTypeOK /\ RegistrySteps
      /\ DriftSteps \subseteq StepsOf(cmd.kind)
      /\ \A n \in Package : cmd.next[n] \in Digest \cup {NoDigest}
  BY <1>1, BusyRuns, RegistryRests
     DEF Fits, OperationSteps, Running, StepsOf, DriftSteps, Commands, Content
<1>3. ASSUME NEW step \in DriftSteps, command' = [command EXCEPT ![c].step = step],
             cmd.operation \in OperationId, FilesTypeOK', UNCHANGED <<lockVars, failures>>
      PROVE  Preserves(c)
  <2>1. step \in Steps
    BY DEF DriftSteps, Steps
  <2>2. MovesOn(c) /\ SameTask(c) /\ SameGoal(c) /\ command'[c].operation = cmd.operation
        /\ command'[c].step = step
    BY <1>2, <1>3, <2>1, DriftStepMoves
  <2>. QED BY <1>1, <1>2, <1>3, <2>2, LockRests, GoesOn DEF DriftSteps
<1>4. CASE RepairDrift(c)
  <2>1. PICK n \in cmd.todo :
           /\ MovesOn(c) /\ SameTask(c)
           /\ \/ /\ command'[c].step = "driftRetire"
                 /\ command'[c].operation \in OperationId
                 /\ StageContainer(command'[c].operation, n, cmd.next[n])
              \/ command'[c].step = "drift" /\ UNCHANGED staging
           /\ UNCHANGED <<live, marker, lockVars, failures>>
    BY <1>4, RepairDriftDoes
  <2>2. FilesTypeOK'
    BY <1>2, <2>1, StageContainerStages, FilesRest DEF fileVars
  <2>. QED BY <1>1, <1>2, <2>1, <2>2, LockRests, GoesOn DEF OperationSteps, DriftSteps
<1>5. CASE DriftRetire(c)
  <2>1. PICK n \in cmd.hand :
          \/ RemoveContainer(cmd.operation, n) /\ Return(c) /\ UNCHANGED live
          \/ /\ Retire(cmd.operation, n)
             /\ command' = [command EXCEPT ![c].step = "driftSwap"]
             /\ UNCHANGED lockVars
    BY <1>5 DEF DriftRetire
  <2>2. /\ cmd.step = "driftRetire" /\ n \in Package /\ UNCHANGED <<marker, failures>>
        /\ cmd.operation \in OperationId
    BY <1>2, <1>5 DEF DriftRetire, At
  <2>3. FilesTypeOK'
    BY <1>2, <2>1, <2>2, RetireKeeps, RemoveContainerRemoves DEF FilesTypeOK
  <2>. QED BY <1>2, <1>3, <2>1, <2>2, <2>3, ReturnFits DEF DriftSteps
<1>6. CASE DriftSwap(c)
  <2>1. /\ \E n \in cmd.hand : Activate(cmd.operation, n)
        /\ command' = [command EXCEPT ![c].step = "driftDiscard"]
        /\ cmd.step = "driftSwap" /\ UNCHANGED <<marker, lockVars, failures>>
    BY <1>6 DEF DriftSwap, At
  <2>2. FilesTypeOK'
    BY <1>2, <2>1, ActivateShows
  <2>. QED BY <1>2, <1>3, <2>1, <2>2 DEF DriftSteps
<1>7. CASE DriftSwapFails(c)
  <2>1. /\ cmd.step = "driftSwap" /\ UNCHANGED marker /\ Return(c)
    BY <1>7 DEF DriftSwapFails, At
  <2>2. CASE UNCHANGED <<failures, live, staging>>
    BY <1>2, <2>1, <2>2, FilesRest, ReturnFits DEF fileVars
  <2>3. CASE /\ failures < MaxFailures /\ failures' = failures + 1
             /\ \E n \in {m \in cmd.hand : Missing(m) /\ staging[cmd.operation][m] # NoContainer} :
                  /\ live' = [live EXCEPT ![n] = staging[cmd.operation][n].retired]
                  /\ RemoveContainer(cmd.operation, n)
    <3>1. PICK n \in cmd.hand :
            /\ staging[cmd.operation][n] # NoContainer
            /\ live' = [live EXCEPT ![n] = staging[cmd.operation][n].retired]
            /\ RemoveContainer(cmd.operation, n)
      BY <2>3
    <3>2. staging[cmd.operation][n] \in Container /\ n \in Package
      BY <1>2, <2>1, <3>1 DEF FilesTypeOK
    <3>3. staging[cmd.operation][n].retired \in LiveContent
      BY <3>2 DEF Container
    <3>4. staging' \in [OperationId -> [Package -> Container \cup {NoContainer}]]
      BY <1>2, <2>1, <3>1, <3>2, RemoveContainerRemoves
    <3>5. FilesTypeOK'
      BY <1>2, <2>1, <3>1, <3>3, <3>4 DEF FilesTypeOK
    <3>6. failures' \in 0..MaxFailures
      BY <1>2, <2>3, MaxFailuresAssumption
    <3>. QED BY <1>2, <2>1, <3>5, <3>6, ReturnFits
  <2>. QED BY <1>7, <2>2, <2>3 DEF DriftSwapFails
<1>8. CASE DriftDiscard(c)
  <2>1. /\ MovesOn(c) /\ SameTask(c)
        /\ cmd.operation \in OperationId
        /\ \E n \in cmd.hand : RemoveContainer(cmd.operation, n)
        /\ command'[c].step = "drift"
        /\ UNCHANGED <<live, marker, lockVars, failures>>
    BY <1>8, DriftDiscardDoes
  <2>2. FilesTypeOK'
    BY <1>2, <2>1, RemoveContainerRemoves DEF FilesTypeOK
  <2>. QED BY <1>1, <1>2, <2>1, <2>2, LockRests, GoesOn DEF OperationSteps, DriftSteps
<1>. QED BY <1>4, <1>5, <1>6, <1>7, <1>8

(* The marker and what sync records after it.                              *)
LEMMA MarkerStepFits ==
  ASSUME LifecycleInv, NEW c \in Client,
         SyncMarker(c) \/ ObserveLocation(c) \/ RefreshObservations(c)
  PROVE  Preserves(c)
<1> DEFINE cmd == command[c]
<1>1. /\ cmd.step \in {"marker", "location", "observations"}
      /\ UNCHANGED <<live, staging, failures, touched>>
  BY DEF SyncMarker, MayWriteMarker, ObserveLocation, RefreshObservations, Held, At, fileVars
<1>2. /\ cmd \in Running /\ command \in CommandType /\ Fits(cmd) /\ cmd.kind \in Commands
      /\ FilesTypeOK /\ touched' \subseteq Package /\ cmd.target \in TargetId
      /\ cmd.next \in Content /\ cmd.generation \in Nat
      /\ failures' \in 0..MaxFailures /\ LockTypeOK /\ RegistryInv /\ RegistryTypeOK
  BY <1>1, BusyRuns DEF Running
<1>3. CASE SyncMarker(c)
  <2> DEFINE step == CASE cmd.kind = "sync" -> "location"
                       [] cmd.kind = "repair" -> "done"
                       [] OTHER -> "clean"
  <2>1. /\ cmd.step = "marker" /\ WriteMarker(cmd.target, cmd.generation, cmd.next)
        /\ GoTo(c, step, {}) /\ UNCHANGED <<registryVars, lockVars>>
    BY <1>3 DEF SyncMarker, MayWriteMarker, At
  <2>2. FilesTypeOK'
    BY <1>1, <1>2, <2>1 DEF FilesTypeOK, WriteMarker, Marker
  <2>3. step \in StepsOf(cmd.kind) /\ step \notin OperationSteps /\ step \in Steps
    BY <1>2 DEF StepsOf, DriftSteps, OperationSteps, Steps, Commands
  <2> HIDE DEF step
  <2>4. MovesOn(c) /\ SameTask(c) /\ SameGoal(c) /\ command'[c].operation = cmd.operation
        /\ command'[c].step = step
    BY <1>2, <2>1, <2>3, GoToMoves
  <2>. QED BY <1>1, <1>2, <2>1, <2>2, <2>3, <2>4, LockRests, RegistryRests, GoesOnQuietly
<1>4. CASE ObserveLocation(c)
  <2>1. /\ cmd.step = "location" /\ cmd.kind = "sync"
        /\ ObserveTargetLocation(cmd.target, TargetRoot, cmd.generation)
        /\ MovesOn(c) /\ SameTask(c)
        /\ command'[c].generation = cmd.generation
        /\ command'[c].step = "observations"
        /\ UNCHANGED <<fileVars, lockVars>>
    BY <1>4, ObserveLocationDoes
  <2>2. cmd.generation >= 1
    BY <1>2, <2>1 DEF Fits
  <2>3. RegistryNext
    <3>1. generation[cmd.target] \in Nat /\ cmd.generation <= generation[cmd.target]
      BY <1>2, <2>1 DEF ObserveTargetLocation, RegistryTypeOK, NoRow
    <3>2. cmd.generation \in 1..generation[cmd.target] /\ Accepted(cmd.target)
      BY <1>2, <2>2, <3>1 DEF Accepted
    <3>. QED BY <1>2, <2>1, <3>2, TargetRootAssumption DEF RegistryNext
  <2>4. ASSUME NEW t \in TargetId, Owns(t) PROVE Owns(t)'
    <3> DEFINE seen == [path |-> TargetRoot, target |-> cmd.target, observed |-> cmd.generation]
    <3>1. t = cmd.target
      BY <2>1, <2>4 DEF ObserveTargetLocation, Owns
    <3>2. seen \in targetLocations' /\ seen.path = TargetRoot /\ seen.target = cmd.target
      BY <2>1 DEF ObserveTargetLocation
    <3> HIDE DEF seen
    <3>. QED BY <3>1, <3>2 DEF Owns
  <2>5. "observations" \in StepsOf(cmd.kind) /\ "observations" \notin OperationSteps
    BY <2>1 DEF StepsOf, OperationSteps
  <2>. QED BY <1>1, <1>2, <2>1, <2>2, <2>3, <2>4, <2>5, FilesRest, LockRests, GoesOn
           DEF RegistrySteps
<1>5. CASE RefreshObservations(c)
  <2>1. /\ cmd.step = "observations" /\ UNCHANGED fileVars
        /\ \/ /\ ReplaceDependencyObservations(cmd.target, "software", cmd.next)
              /\ GoTo(c, "done", {})
              /\ UNCHANGED lockVars
           \/ Return(c) /\ UNCHANGED registryVars
    BY <1>5 DEF RefreshObservations, Held, At
  <2>2. FilesTypeOK'
    BY <1>2, <2>1, FilesRest
  <2>3. CASE Return(c) /\ UNCHANGED registryVars
    BY <1>2, <2>2, <2>3, ReturnFits, RegistryRests
  <2>4. CASE /\ ReplaceDependencyObservations(cmd.target, "software", cmd.next)
             /\ GoTo(c, "done", {})
             /\ UNCHANGED lockVars
    <3>1. RegistryNext
      BY <1>2, <2>4, KindAssumption DEF RegistryNext
    <3>2. \A t \in TargetId : Owns(t) => Owns(t)'
      BY <2>4 DEF ReplaceDependencyObservations, Owns
    <3>3. MovesOn(c) /\ SameTask(c) /\ SameGoal(c) /\ command'[c].operation = cmd.operation
          /\ command'[c].step = "done"
      BY <1>2, <2>4, GoToMoves DEF Steps
    <3>4. "done" \in StepsOf(cmd.kind) /\ "done" \notin OperationSteps
      BY <1>2 DEF StepsOf, OperationSteps, Commands
    <3>. QED BY <1>1, <1>2, <2>2, <2>4, <3>1, <3>2, <3>3, <3>4, LockRests, GoesOnQuietly
             DEF RegistrySteps
  <2>. QED BY <2>1, <2>3, <2>4
<1>. QED BY <1>3, <1>4, <1>5

(* Starting a command.                                                     *)
LEMMA StartFits ==
  ASSUME LifecycleInv, NEW c \in Client, StartStep(c)
  PROVE  Preserves(c)
<1>1. /\ MovesOn(c) /\ touched' = {} /\ UNCHANGED <<registryVars, fileVars, lockVars, failures>>
      /\ command'[c].step \in StepsOf(command'[c].kind)
      /\ command'[c].step \in OperationSteps => command'[c].operation \in OperationId
      /\ command'[c].kind \in {"change", "sync", "repair"} => Owns(command'[c].target)
      /\ command'[c].kind = "sync" => command'[c].step = "observe"
  <2>1. CASE StartInstall(c)
    BY <2>1, StartInstallDoes DEF StepsOf, OperationSteps
  <2>2. CASE StartChange(c)
    BY <2>2, StartChangeDoes DEF StepsOf, OperationSteps
  <2>3. CASE StartRecover(c)
    BY <2>3, StartRecoverDoes DEF StepsOf, OperationSteps
  <2>4. CASE StartSync(c) \/ StartRepair(c)
    BY <2>4, StartSyncDoes DEF StepsOf, DriftSteps, OperationSteps
  <2>. QED BY <2>1, <2>2, <2>3, <2>4 DEF StartStep
<1>2. /\ FilesTypeOK /\ LockTypeOK /\ failures \in 0..MaxFailures
  BY DEF LifecycleInv, TypeOK, CommandsTypeOK
<1>3. Owns(command'[c].target) => Owns(command[c].target)'
  BY <1>1 DEF Owns, registryVars
<1>4. Fits(command[c])'
  BY <1>1, <1>3 DEF Fits
<1>. QED BY <1>1, <1>2, <1>4, FilesRest, LockRests, RegistryRests
         DEF Preserves, MovesOn, OthersWait

(* Every step of a command.                                                *)
LEMMA CommandStepFits ==
  ASSUME LifecycleInv, NEW c \in Client, CommandStep(c) \/ StartStep(c)
  PROVE  Preserves(c)
<1>1. CASE ReconcileStep(c)
  BY <1>1, GivingUpFits, LoopStepFits, PlanningFits, StagingFits, CommitFits, CleaningFits,
     LiveStepFits DEF ReconcileStep
<1>2. CASE CommandStep(c) /\ ~ReconcileStep(c)
  BY <1>2, GivingUpFits, LoopStepFits, PlanningFits, LiveStepFits, DriftStepFits,
     MarkerStepFits DEF CommandStep
<1>. QED BY <1>1, <1>2, StartFits

(* A step that preserves the command of one client preserves the whole     *)
(* invariant.                                                              *)
LEMMA PreservesAll ==
  ASSUME LifecycleInv, NEW c \in Client, Preserves(c),
         edits' \in 0..MaxEdits, overrun' \in [Client -> 0..2], slipped' \in BOOLEAN
  PROVE  LifecycleInv'
<1>1. RegistryInv' /\ RegistryTypeOK'
  BY RegistryStep DEF LifecycleInv, Preserves, RegistrySteps, RegistryInv
<1>2. TypeOK'
  BY <1>1 DEF Preserves, TypeOK, CommandsTypeOK, CommandType
<1>3. CommandsFit'
  <2> SUFFICES ASSUME NEW d \in Client, Busy(d)'
               PROVE  Fits(command[d])'
    BY DEF CommandsFit
  <2>1. CASE d = c
    BY <2>1 DEF Preserves
  <2>2. CASE d # c
    <3>1. command'[d] = command[d]
      BY <2>2 DEF Preserves, OthersWait
    <3>2. Fits(command[d]) /\ command[d] \in Running
      BY <3>1 DEF LifecycleInv, CommandsFit, Busy, TypeOK, CommandsTypeOK
    <3>3. command[d].target \in TargetId
      BY <3>2 DEF Running
    <3>. QED BY <3>1, <3>2, <3>3 DEF Fits, Preserves, RegistrySteps
  <2>. QED BY <2>1, <2>2
<1>. QED BY <1>1, <1>2, <1>3 DEF LifecycleInv

(* A step of the lock alone.                                               *)
LEMMA LockStepFits ==
  ASSUME LifecycleInv, NEW c \in Client, LockStep(c), UNCHANGED <<registryVars, fileVars, command, touched>>
  PROVE  Preserves(c)
<1>1. LockTypeOK' /\ failures' \in 0..MaxFailures
  <2>1. LockTypeOK /\ failures \in 0..MaxFailures
    BY DEF LifecycleInv, TypeOK, CommandsTypeOK
  <2>2. failures' \in 0..MaxFailures
    BY <2>1, MaxFailuresAssumption DEF LockStep, LockFails
  <2>3. LockTypeOK'
    BY <2>1 DEF LockStep, LockFails, GiveUp, Grant, Open, HelperEnds, NoticeLoss, Free,
                GrantToDead, Close, LockTypeOK
  <2>. QED BY <2>2, <2>3
<1>2. FilesTypeOK' /\ touched' \subseteq Package /\ command' \in CommandType
  BY FilesRest DEF LifecycleInv, TypeOK, CommandsTypeOK, CommandType
<1>3. Busy(c)' => Fits(command[c])'
  BY DEF LifecycleInv, CommandsFit, Busy, Fits, Owns, registryVars
<1>. QED BY <1>1, <1>2, <1>3, RegistryRests DEF Preserves, OthersWait

(* The first invariant is inductive.                                       *)
LEMMA LifecycleInvStep ==
  ASSUME LifecycleInv, [Next]_vars
  PROVE  LifecycleInv' /\ [RegistryNext]_registryVars
<1>1. edits \in 0..MaxEdits /\ overrun \in [Client -> 0..2] /\ slipped \in BOOLEAN
  BY DEF LifecycleInv, TypeOK
<1>2. ASSUME NEW c \in Client, Work(c)
      PROVE  LifecycleInv' /\ [RegistryNext]_registryVars
  <2>1. Preserves(c)
    BY <1>2, CommandStepFits DEF Work
  <2>2. edits' \in 0..MaxEdits /\ overrun' \in [Client -> 0..2] /\ slipped' \in BOOLEAN
    BY <1>1, <1>2, BoundAssumption DEF Work, WithinOverrun, RecordSlip
  <2>. QED BY <2>1, <2>2, PreservesAll DEF Preserves, RegistrySteps
<1>3. ASSUME NEW c \in Client, LockIsLost(c) \/ Stop(c),
             overrun' = [overrun EXCEPT ![c] = 0], UNCHANGED <<edits, slipped>>
      PROVE  LifecycleInv' /\ [RegistryNext]_registryVars
  <2>1. Preserves(c)
    BY <1>3, GivingUpFits
  <2>2. edits' \in 0..MaxEdits /\ overrun' \in [Client -> 0..2] /\ slipped' \in BOOLEAN
    BY <1>1, <1>3, BoundAssumption
  <2>. QED BY <2>1, <2>2, PreservesAll DEF Preserves, RegistrySteps
<1>4. ASSUME NEW c \in Client, LockStep(c),
             overrun' = [overrun EXCEPT ![c] = IF session'[c] = "held" THEN @ ELSE 0],
             UNCHANGED <<registryVars, fileVars, command, touched, edits, slipped>>
      PROVE  LifecycleInv' /\ [RegistryNext]_registryVars
  <2>1. Preserves(c)
    BY <1>4, LockStepFits
  <2>2. edits' \in 0..MaxEdits /\ overrun' \in [Client -> 0..2] /\ slipped' \in BOOLEAN
    BY <1>1, <1>4, BoundAssumption
  <2>. QED BY <2>1, <2>2, PreservesAll DEF Preserves, RegistrySteps
<1>5. CASE UserEdit
  <2>1. edits' \in 0..MaxEdits
    BY <1>1, <1>5, BoundAssumption DEF UserEdit
  <2>2. FilesTypeOK' /\ touched' \subseteq Package
    BY <1>5 DEF UserEdit, LifecycleInv, TypeOK, FilesTypeOK, CommandsTypeOK, LiveContent
  <2>3. UNCHANGED <<registryVars, lockVars, command, failures, overrun, slipped>>
    BY <1>5 DEF UserEdit
  <2>4. TypeOK'
    BY <2>1, <2>2, <2>3 DEF LifecycleInv, TypeOK, CommandsTypeOK, LockTypeOK, lockVars,
                            RegistryTypeOK, registryVars
  <2>5. RegistryInv'
    BY <2>3, RegistryStep DEF LifecycleInv
  <2>6. CommandsFit'
    BY <2>3 DEF LifecycleInv, CommandsFit, Busy, Fits, Owns, registryVars
  <2>. QED BY <2>3, <2>4, <2>5, <2>6 DEF LifecycleInv
<1>6. CASE UNCHANGED vars
  <2>1. UNCHANGED <<registryVars, fileVars, lockVars, command, failures, touched, edits, overrun,
                    slipped>>
    BY <1>6 DEF vars, reconcileVars
  <2>2. TypeOK'
    BY <2>1, FilesRest, LockRests
       DEF LifecycleInv, TypeOK, CommandsTypeOK, RegistryTypeOK, registryVars
  <2>3. RegistryInv'
    BY <2>1, RegistryStep DEF LifecycleInv
  <2>4. CommandsFit'
    BY <2>1 DEF LifecycleInv, CommandsFit, Busy, Fits, Owns, registryVars
  <2>. QED BY <2>1, <2>2, <2>3, <2>4 DEF LifecycleInv
<1>. QED BY <1>2, <1>3, <1>4, <1>5, <1>6 DEF Next

----------------------------------------------------------------------------

(* It holds at the start.                                                  *)
LEMMA LifecycleStarts == Init => LifecycleInv
<1> SUFFICES ASSUME Init PROVE LifecycleInv
  OBVIOUS
<1>1. RegistryInv /\ RegistryTypeOK
  BY RegistryStarts DEF Init, ReconcileInit, RegistryInv
<1>2. FilesTypeOK /\ LockTypeOK
  BY DEF Init, ReconcileInit, FilesInit, FilesTypeOK, LiveContent, LockInit, LockTypeOK
<1>3. CommandsTypeOK
  BY MaxFailuresAssumption DEF Init, ReconcileInit, CommandsTypeOK
<1>4. edits \in 0..MaxEdits /\ overrun \in [Client -> 0..2]
  BY BoundAssumption DEF Init
<1>6. slipped \in BOOLEAN
  BY Zenon DEF Init
<1>5. CommandsFit
  BY DEF Init, ReconcileInit, CommandsFit, Busy
<1>. QED BY <1>1, <1>2, <1>3, <1>4, <1>5, <1>6 DEF LifecycleInv, TypeOK

(* Whatever the commands of any number of clients do, and whoever holds    *)
(* the lock: the variables have their types, and every command is at a     *)
(* step of its kind, with its operation and its target.                    *)
THEOREM LifecycleInvariant == Spec => []LifecycleInv
<1>1. LifecycleInv /\ [Next]_vars => LifecycleInv'
  BY LifecycleInvStep
<1>. QED BY <1>1, LifecycleStarts, PTL DEF Spec

(* All that commands, failures and overlapping clients do to the registry  *)
(* are transactions in some order: what is proved of the registry alone    *)
(* holds while the lifecycle runs.                                         *)
THEOREM LifecycleUsesRegistry == Spec => RegistrySpec
<1>1. Init => RegistryInit
  BY DEF Init, ReconcileInit
<1>2. LifecycleInv /\ [Next]_vars => [RegistryNext]_registryVars
  BY LifecycleInvStep
<1>. QED BY <1>1, <1>2, LifecycleInvariant, PTL DEF Spec, RegistrySpec

(* In particular, the tables stay sound, pending rows stay classifiable    *)
(* and no accepted state is lost, even if two commands overlap because a   *)
(* helper has died and its command has not been told.                      *)
THEOREM OverlapHarmsNoRegistry ==
  Spec => []PendingSound /\ []TablesConsistent /\ AcceptedNeverLost
BY LifecycleUsesRegistry, PendingStaysSound, TablesStayConsistent,
   AcceptedStatesArePermanent, PTL

----------------------------------------------------------------------------
(* One command at a time.  The lock is there to grant this; it fails only  *)
(* while a command goes on whose helper has died (HelpersLast, below).     *)
OneAtATime == \A c, d \in Client : Busy(c) /\ Busy(d) => c = d

BeforeCommit == {"pending", "stage", "manifest", "removals", "commit"}
AfterCommit == {"remove", "removing", "activate", "retire", "swap", "marker", "clean", "cleaning", "done"}

(* The command brings the directory to the accepted state: a change does   *)
(* from its commit on, a recovery if it found a committed operation.       *)
Settles(cmd) ==
  \/ cmd.kind \in {"install", "change"} /\ cmd.step \in AfterCommit
  \/ cmd.kind \in {"sync", "repair"} /\ cmd.step # "observe"
  \/ cmd.kind = "recover" /\ cmd.generation # 0

(* A change still replaces the accepted state it was planned from, and     *)
(* what settles goes for the accepted state of the target that has the     *)
(* directory.                                                              *)
AimsRight(cmd) ==
  /\ cmd.kind \in {"install", "change"} /\ cmd.step \in BeforeCommit =>
       cmd.current = resolvedPackages[cmd.target]
  /\ Settles(cmd) => Owns(cmd.target) /\ cmd.next = resolvedPackages[cmd.target]
  /\ Settles(cmd) /\ cmd.step \notin DriftSteps => cmd.generation = generation[cmd.target]
  /\ cmd.kind = "recover" /\ cmd.step \notin {"clean", "cleaning", "done"} =>
       cmd.generation # 0

BeforeStaging(cmd) ==
  \/ cmd.step \in {"pending", "stage"}
  \/ cmd.kind \in {"sync", "repair"} /\ cmd.step \in {"clean", "cleaning"}

(* Names are worked off from the plan: what is removed has no place in the *)
(* next state, what is replaced is another projection than its successor.  *)
PlanFits(cmd) ==
  /\ \A n \in cmd.removals : cmd.next[n] = NoDigest
  /\ \A n \in cmd.stages : cmd.next[n] # NoDigest
  /\ cmd.step \in {"removals", "remove"} => cmd.todo \subseteq cmd.removals
  /\ cmd.step = "removing" =>
       /\ \A n \in cmd.hand : cmd.next[n] = NoDigest
       /\ cmd.kind # "recover" => cmd.todo \subseteq cmd.removals
  /\ cmd.step \in {"stage", "activate"} => cmd.todo \subseteq cmd.stages
  /\ cmd.step \in {"manifest", "retire", "swap"} /\ cmd.kind # "recover" =>
       cmd.todo \cup cmd.hand \subseteq cmd.stages
  /\ (BeforeStaging(cmd) \/ cmd.step = "manifest") =>
       \A n \in cmd.stages : cmd.current[n] = cmd.next[n] => ~Shows(n, cmd.current)
  /\ cmd.kind # "recover"
       /\ cmd.step \in {"stage", "manifest", "removals", "commit", "remove", "removing", "activate",
                        "retire", "swap"} =>
       \A n \in cmd.existed : cmd.current[n] # cmd.next[n]
  /\ cmd.step \in {"retire", "driftRetire"} =>
       \A n \in cmd.hand : cmd.next[n] # NoDigest /\ ~Shows(n, cmd.next)
  /\ \A a, b \in cmd.hand : a = b

(* The containers of its operation hold what it is to activate.            *)
StagingSteps == {"stage", "manifest", "removals", "commit", "remove", "removing", "activate",
                 "retire", "swap", "driftRetire", "driftSwap", "driftDiscard"}

StagedFits(cmd) ==
  cmd.step \in StagingSteps =>
    \A n \in Package :
      /\ Holds(cmd.operation, n)
      /\ cmd.kind = "recover" => cmd.step # "removing" /\ n \in cmd.hand
      =>
        staging[cmd.operation][n].projection = cmd.next[n]

(* The names that may still have to get their projection.                  *)
Left(cmd) ==
  IF cmd.step \in {"activate", "converge"} \/ (cmd.kind = "recover" /\ cmd.step = "removing")
    THEN cmd.todo
  ELSE IF cmd.step \in {"retire", "swap"} THEN cmd.todo \cup cmd.hand
  ELSE IF BeforeStaging(cmd)
          \/ cmd.step \in {"manifest", "removals", "commit", "remove", "removing"}
         THEN cmd.stages
  ELSE IF cmd.step \in {"observe", "undo"} \cup DriftSteps
          \/ (cmd.kind = "recover" /\ cmd.generation = 0)
         THEN Package
  ELSE {}

(* All others, as far as the user left them alone, show the next state.    *)
Behind(cmd) ==
  \A n \in Package \ touched :
    cmd.next[n] # NoDigest /\ ~Shows(n, cmd.next) => n \in Left(cmd)

(* From the step that writes it to the end, the marker says what is        *)
(* settled.                                                                *)
MarkerWritten(cmd) ==
  \/ cmd.kind \in {"install", "change"} /\ cmd.step \in {"clean", "cleaning", "done"}
  \/ cmd.kind \in {"sync", "repair"} /\ cmd.step \in {"location", "observations", "done"}
  \/ cmd.kind = "recover" /\ cmd.generation # 0 /\ cmd.step \in {"clean", "cleaning", "done"}

Marked(cmd) ==
  MarkerWritten(cmd) =>
    marker = [target |-> cmd.target, generation |-> cmd.generation, packages |-> cmd.next]

(* The pending row of the target is the command's own, or there is none.   *)
RowsFit(cmd) ==
  /\ cmd.step = "done" => PendingOf(cmd.target) = {}
  /\ cmd.kind \in {"sync", "repair"} =>
       /\ cmd.step \in {"pending", "marker", "location", "observations"} =>
            PendingOf(cmd.target) = {}
       /\ cmd.step \in {"stage", "manifest", "removals", "remove", "removing", "activate", "retire",
                        "swap", "discard"} =>
            \A row \in PendingOf(cmd.target) : row.operation = cmd.operation
  /\ cmd.step = "cleaning" => \A row \in PendingOf(cmd.target) : row.operation = cmd.operation

RunsRight(cmd) ==
  AimsRight(cmd) /\ PlanFits(cmd) /\ StagedFits(cmd) /\ Behind(cmd) /\ Marked(cmd) /\ RowsFit(cmd)

CommandsRunRight == \A c \in Client : Busy(c) => RunsRight(command[c])


RightInv == LifecycleInv /\ CommandsRunRight

----------------------------------------------------------------------------
(* What the invariant says of the command of c, when it is at work.        *)
LEMMA RightRuns ==
  ASSUME RightInv, NEW c \in Client, command[c].step # "none"
  PROVE  /\ LifecycleInv
         /\ AimsRight(command[c]) /\ PlanFits(command[c]) /\ StagedFits(command[c])
         /\ Behind(command[c]) /\ Marked(command[c]) /\ RowsFit(command[c])
         /\ Fits(command[c]) /\ command[c].kind \in Commands
         /\ command[c].next \in Content /\ command[c].current \in Content
         /\ command[c].target \in TargetId
         /\ command[c].todo \subseteq Package /\ command[c].hand \subseteq Package
         /\ command[c].stages \subseteq Package /\ command[c].removals \subseteq Package
<1>1. command[c] \in Running /\ Busy(c) /\ command[c].kind \in Commands /\ Fits(command[c])
      /\ LifecycleInv
  BY BusyRuns DEF RightInv
<1>. QED BY <1>1 DEF RightInv, CommandsRunRight, RunsRight, Running

(* Registry, files and the user's marks stay as they are.                  *)
Stands == UNCHANGED <<registryVars, fileVars, touched>>

Turns(c) == Stands /\ SameTask(c) /\ SameGoal(c)

(* From one loop to the next: nothing but the command moves.               *)
LEMMA LoopStepRight ==
  ASSUME RightInv, NEW c \in Client,
         \/ StagingFails(c) \/ StagingDone(c) \/ RemovalManifestsDone(c) \/ CommitRefused(c)
         \/ RemovalsDone(c) \/ ActivationsDone(c) \/ Converged(c) \/ DriftRepaired(c)
  PROVE  RunsRight(command[c])'
<1> DEFINE cmd == command[c]
<1>1. /\ cmd.step # "none" /\ Stands
      /\ \/ /\ cmd.step = "stage" /\ GoTo(c, "undo", Containers(cmd.operation))
         \/ /\ cmd.step = "stage" /\ GoTo(c, "removals", cmd.removals)
         \/ /\ cmd.step = "removals" /\ cmd.kind \in {"install", "change"}
            /\ GoTo(c, "commit", {})
         \/ /\ cmd.step = "removals" /\ cmd.kind \notin {"install", "change"}
            /\ GoTo(c, "remove", cmd.removals)
         \/ /\ cmd.step = "commit" /\ GoTo(c, "undo", Containers(cmd.operation))
         \/ /\ cmd.step = "remove" /\ GoTo(c, "activate", cmd.stages)
         \/ /\ cmd.step = "activate" /\ cmd.todo = {} /\ cmd.kind \in {"install", "change"}
            /\ GoTo(c, "marker", {})
         \/ /\ cmd.step = "activate" /\ cmd.todo = {} /\ cmd.kind \notin {"install", "change"}
            /\ GoTo(c, "discard", cmd.stages \cup cmd.removals)
         \/ /\ cmd.step = "converge" /\ cmd.todo = {} /\ GoTo(c, "marker", {})
         \/ /\ cmd.step = "drift" /\ GoTo(c, "observe", {})
  BY DEF StagingFails, StagingDone, RemovalManifestsDone, CommitRefused, RemovalsDone,
         ActivationsDone, Converged, DriftRepaired, Held, At, Stands
<1>2. /\ AimsRight(cmd) /\ PlanFits(cmd) /\ StagedFits(cmd) /\ Behind(cmd) /\ Marked(cmd)
      /\ RowsFit(cmd) /\ cmd.step \in StepsOf(cmd.kind) /\ cmd.kind \in Commands
      /\ command \in CommandType /\ cmd \in Running
      /\ cmd.stages \in SUBSET Package /\ cmd.removals \in SUBSET Package
      /\ Containers(cmd.operation) \in SUBSET Package
      /\ cmd.stages \cup cmd.removals \in SUBSET Package
      /\ {} \in SUBSET Package
  BY <1>1, RightRuns, BusyRuns DEF Fits, Containers
<1>3. PICK step \in Steps, todo \in SUBSET Package :
        /\ GoTo(c, step, todo)
        /\ \/ cmd.step \in {"stage", "commit"} /\ step = "undo"
           \/ cmd.step = "stage" /\ step = "removals" /\ todo = cmd.removals
           \/ cmd.step = "removals" /\ step = "commit" /\ cmd.kind \in {"install", "change"}
           \/ /\ cmd.step = "removals" /\ step = "remove" /\ todo = cmd.removals
              /\ cmd.kind \notin {"install", "change"}
           \/ cmd.step = "remove" /\ step = "activate" /\ todo = cmd.stages
           \/ /\ cmd.step = "activate" /\ step = "marker" /\ cmd.todo = {}
              /\ cmd.kind \in {"install", "change"}
           \/ /\ cmd.step = "activate" /\ step = "discard" /\ cmd.todo = {}
              /\ cmd.kind \notin {"install", "change"}
           \/ cmd.step = "converge" /\ step = "marker" /\ cmd.todo = {}
           \/ cmd.step = "drift" /\ step = "observe"
  BY <1>1, <1>2 DEF Steps
<1>4. /\ Turns(c) /\ command'[c].step = step /\ command'[c].todo = todo
      /\ command'[c].hand = {} /\ command'[c].operation = cmd.operation
      /\ command'[c].existed = cmd.existed
  BY <1>1, <1>2, <1>3, GoToMoves DEF Turns
<1>5. AimsRight(command[c])'
  BY <1>2, <1>3, <1>4 DEF AimsRight, Settles, BeforeCommit, AfterCommit, StepsOf, DriftSteps,
     Commands, Turns, SameTask, SameGoal, Stands, registryVars, Owns
<1>6. PlanFits(command[c])'
  BY <1>2, <1>3, <1>4 DEF PlanFits, BeforeStaging, Turns, SameTask, SameGoal, Stands, fileVars, Shows
<1>7. StagedFits(command[c])'
  BY <1>2, <1>3, <1>4 DEF StagedFits, StagingSteps, Turns, SameTask, SameGoal, Stands, fileVars, Holds
<1>8. Behind(command[c])'
  BY <1>2, <1>3, <1>4 DEF Behind, Left, BeforeStaging, StepsOf, DriftSteps, Commands,
     Turns, SameTask, SameGoal, Stands, fileVars, Shows
<1>9. Marked(command[c])'
  BY <1>2, <1>3, <1>4 DEF Marked, MarkerWritten, Turns, SameTask, SameGoal, Stands, fileVars
<1>10. RowsFit(command[c])'
  BY <1>2, <1>3, <1>4 DEF RowsFit, StepsOf, DriftSteps, Commands, Turns, SameTask, SameGoal,
     Stands, registryVars, PendingOf
<1>. QED BY <1>5, <1>6, <1>7, <1>8, <1>9, <1>10 DEF RunsRight

(* An announced operation is the one that its target has pending.          *)
LEMMA AnnouncedRow ==
  ASSUME NEW op, NEW t, NEW base, NEW actions, InsertPending(op, t, base, actions)
  PROVE  /\ \A row \in pendingOperations' : row.target = t => row.operation = op
         /\ UNCHANGED <<resolvedPackages, targetLocations>>
<1> DEFINE new == [operation |-> op, target |-> t, base |-> base, next |-> base + 1,
                   actions |-> actions]
<1>1. pendingOperations' = pendingOperations \cup {new} /\ PendingOf(t) = {}
  BY DEF InsertPending
<1>2. new.operation = op
  OBVIOUS
<1> HIDE DEF new
<1>. QED BY <1>1, <1>2 DEF PendingOf, InsertPending

(* Announcing an operation, or finding nothing to announce.                *)
LEMMA AnnouncingRight ==
  ASSUME RightInv, NEW c \in Client, BeginPending(c) \/ NothingPending(c)
  PROVE  RunsRight(command[c])'
<1> DEFINE cmd == command[c]
<1>0. cmd.step = "pending" /\ cmd.step # "none"
  BY DEF BeginPending, NothingPending, Held, At
<1>1. /\ AimsRight(cmd) /\ PlanFits(cmd) /\ StagedFits(cmd) /\ Behind(cmd) /\ Marked(cmd)
      /\ RowsFit(cmd) /\ cmd.step \in StepsOf(cmd.kind) /\ cmd.kind \in Commands
      /\ cmd.stages \subseteq Package /\ LifecycleInv
  BY <1>0, RightRuns DEF Fits
<1>2. CASE BeginPending(c)
  <2> DEFINE op == command'[c].operation
  <2>1. /\ SameTask(c) /\ SameGoal(c)
        /\ command'[c].step = "stage" /\ command'[c].todo = cmd.stages
        /\ command'[c].existed = {} /\ command'[c].hand = cmd.hand
        /\ op \in OperationId /\ FreshId(op)
        /\ UNCHANGED <<fileVars, touched>>
    BY <1>1, <1>2, BeginPendingDoes
  <2>2. /\ \A row \in pendingOperations' : row.target = cmd.target => row.operation = op
        /\ UNCHANGED <<resolvedPackages, targetLocations>>
        /\ cmd.kind \notin {"install", "change"} => UNCHANGED generation
    <3>1. IF cmd.kind \in {"install", "change"}
            THEN BeginPendingOperation(op, cmd.target, cmd.stages \cup cmd.removals)
            ELSE BeginPendingReconciliation(op, cmd.target, cmd.stages \cup cmd.removals)
      BY <1>1, <1>2, BeginPendingDoes
    <3>. QED BY <3>1, AnnouncedRow DEF BeginPendingOperation, BeginPendingReconciliation
  <2> HIDE DEF op
  <2>3. AimsRight(command[c])'
    BY <1>0, <1>1, <2>1, <2>2 DEF AimsRight, Settles, BeforeCommit, AfterCommit, StepsOf,
       DriftSteps, Commands, SameTask, SameGoal, Owns
  <2>4. PlanFits(command[c])'
    BY <1>0, <1>1, <2>1 DEF PlanFits, BeforeStaging, SameTask, SameGoal, fileVars, Shows
  <2>5. StagedFits(command[c])'
    BY <1>0, <1>1, <2>1 DEF StagedFits, fileVars, Holds, FreshId, op
  <2>6. Behind(command[c])'
    BY <1>0, <1>1, <2>1 DEF Behind, Left, BeforeStaging, DriftSteps, StepsOf,
       SameTask, SameGoal, fileVars, Shows
  <2>7. Marked(command[c])'
    BY <2>1 DEF Marked, MarkerWritten
  <2>8. RowsFit(command[c])'
    BY <1>0, <1>1, <2>1, <2>2 DEF RowsFit, PendingOf, SameTask, op
  <2>. QED BY <2>3, <2>4, <2>5, <2>6, <2>7, <2>8 DEF RunsRight
<1>3. CASE NothingPending(c)
  <2>1. /\ Turns(c) /\ cmd.kind \notin {"install", "change"}
        /\ cmd.stages = {} /\ cmd.removals = {}
        /\ command'[c].step = "marker" /\ command'[c].hand = cmd.hand
    BY <1>1, <1>3, NothingPendingDoes DEF Turns, Stands
  <2>2. cmd.kind \in {"sync", "repair"}
    BY <1>0, <1>1, <2>1 DEF StepsOf, Commands
  <2>3. AimsRight(command[c])'
    BY <1>0, <1>1, <2>1, <2>2 DEF AimsRight, Settles, DriftSteps, Turns, SameTask, SameGoal,
       Stands, registryVars, Owns
  <2>4. PlanFits(command[c])'
    BY <1>0, <1>1, <2>1, <2>2 DEF PlanFits, BeforeStaging, Turns, SameTask, SameGoal, Stands,
       fileVars, Shows
  <2>5. StagedFits(command[c])'
    BY <2>1 DEF StagedFits, StagingSteps
  <2>6. Behind(command[c])'
    BY <1>0, <1>1, <2>1, <2>2 DEF Behind, Left, BeforeStaging, DriftSteps, Turns, SameTask,
       SameGoal, Stands, fileVars, Shows
  <2>7. Marked(command[c])'
    BY <2>1, <2>2 DEF Marked, MarkerWritten, Turns, SameTask
  <2>8. RowsFit(command[c])'
    BY <1>0, <1>1, <2>1, <2>2 DEF RowsFit, PendingOf, Turns, SameTask, Stands, registryVars
  <2>. QED BY <2>3, <2>4, <2>5, <2>6, <2>7, <2>8 DEF RunsRight
<1>. QED BY <1>2, <1>3

(* Sync and repair look again at what is accepted and what is there.       *)
LEMMA ObserveRight ==
  ASSUME RightInv, NEW c \in Client, Observe(c)
  PROVE  RunsRight(command[c])'
<1> DEFINE cmd == command[c]
           next == resolvedPackages[cmd.target]
           current == Baseline(cmd.target)
<1>0. cmd.step = "observe" /\ cmd.step # "none"
  BY DEF Observe, Held, At
<1>1. /\ PlanFits(cmd) /\ LifecycleInv
  BY <1>0, RightRuns
<1>2. /\ cmd.kind \in {"sync", "repair"} /\ Owns(cmd.target)
      /\ command'[c].kind = cmd.kind /\ command'[c].target = cmd.target
      /\ command'[c].step = "clean" /\ command'[c].generation = generation[cmd.target]
      /\ command'[c].next = next /\ command'[c].current = current
      /\ command'[c].stages = StagesOf(current, next)
      /\ command'[c].removals = RemovalsOf(current, next)
      /\ command'[c].hand = cmd.hand /\ Stands
  BY <1>1, ObserveDoes DEF Stands
<1> HIDE DEF current
<1>3. AimsRight(command[c])'
  BY <1>2 DEF AimsRight, Settles, DriftSteps, Stands, registryVars, Owns
<1>4. PlanFits(command[c])'
  BY <1>1, <1>2 DEF PlanFits, BeforeStaging, Stands, fileVars, Shows, StagesOf, RemovalsOf
<1>5. StagedFits(command[c])' /\ Marked(command[c])' /\ RowsFit(command[c])'
  BY <1>2 DEF StagedFits, StagingSteps, Marked, MarkerWritten, RowsFit
<1>6. Behind(command[c])'
  BY <1>2 DEF Behind, Left, BeforeStaging, Stands, fileVars, Shows, StagesOf
<1>. QED BY <1>3, <1>4, <1>5, <1>6 DEF RunsRight

(* A command that looks for the pending row of its target.                 *)
LEMMA ReadPendingRight ==
  ASSUME RightInv, NEW c \in Client, ReadPending(c)
  PROVE  RunsRight(command[c])'
<1> DEFINE cmd == command[c]
<1>0. cmd.step = "clean" /\ cmd.step # "none"
  BY DEF ReadPending, Held, At
<1>1. /\ AimsRight(cmd) /\ PlanFits(cmd) /\ Behind(cmd) /\ Marked(cmd)
      /\ cmd.step \in StepsOf(cmd.kind) /\ cmd.kind \in Commands /\ LifecycleInv
  BY <1>0, RightRuns DEF Fits
<1>2. /\ Turns(c)
      /\ command'[c].hand \in {{}, cmd.hand}
      /\ \/ command'[c].step = AfterClean(c) /\ PendingOf(cmd.target) = {}
         \/ /\ command'[c].step = "cleaning"
            /\ \E row \in PendingOf(cmd.target) : command'[c].operation = row.operation
  BY <1>1, ReadPendingDoes DEF Turns, Stands
<1>3. \A row \in PendingOf(cmd.target), other \in PendingOf(cmd.target) : row = other
  BY <1>1 DEF LifecycleInv, RegistryInv, PendingSound, AtMostOnePending, PendingOf
<1>4. AimsRight(command[c])'
  BY <1>0, <1>1, <1>2 DEF AimsRight, Settles, BeforeCommit, AfterCommit, AfterClean, DriftSteps,
     StepsOf, Commands, Turns, SameTask, SameGoal, Stands, registryVars, Owns
<1>5. PlanFits(command[c])'
  BY <1>0, <1>1, <1>2 DEF PlanFits, BeforeStaging, AfterClean, Turns, SameTask, SameGoal,
     Stands, fileVars, Shows
<1>6. StagedFits(command[c])'
  BY <1>2 DEF StagedFits, StagingSteps, AfterClean
<1>7. Behind(command[c])'
  BY <1>0, <1>1, <1>2 DEF Behind, Left, BeforeStaging, AfterClean, DriftSteps, StepsOf, Commands,
     Turns, SameTask, SameGoal, Stands, fileVars, Shows
<1>8. Marked(command[c])'
  BY <1>0, <1>1, <1>2 DEF Marked, MarkerWritten, AfterClean, Turns, SameTask, SameGoal, Stands,
     fileVars
<1>9. RowsFit(command[c])'
  BY <1>0, <1>2, <1>3 DEF RowsFit, AfterClean, PendingOf, Turns, SameTask, Stands, registryVars
<1>. QED BY <1>4, <1>5, <1>6, <1>7, <1>8, <1>9 DEF RunsRight

(* Staging one projection, and writing manifests.                          *)
LEMMA StagingRight ==
  ASSUME RightInv, NEW c \in Client,
         StageProjection(c) \/ WriteStageManifest(c) \/ WriteRemovalManifest(c)
  PROVE  RunsRight(command[c])'
<1> DEFINE cmd == command[c]
           op == cmd.operation
<1>1. /\ cmd.step \in {"stage", "manifest", "removals"} /\ cmd.step # "none"
      /\ UNCHANGED <<registryVars, live, marker, touched>>
  BY DEF StageProjection, WriteStageManifest, WriteRemovalManifest, Held, At
<1>2. /\ AimsRight(cmd) /\ PlanFits(cmd) /\ StagedFits(cmd) /\ Behind(cmd) /\ Marked(cmd)
      /\ RowsFit(cmd) /\ cmd.step \in StepsOf(cmd.kind) /\ cmd.kind \in Commands
      /\ cmd.stages \subseteq Package /\ LifecycleInv /\ FilesTypeOK
      /\ cmd.todo \subseteq Package /\ cmd.hand \subseteq Package
      /\ cmd.operation \in OperationId /\ cmd \in Running /\ command \in CommandType
      /\ \A n \in Package : /\ cmd.next[n] \in Digest \cup {NoDigest}
                            /\ cmd.current[n] \in Digest \cup {NoDigest}
  BY <1>1, RightRuns, BusyRuns DEF Fits, OperationSteps, Content
<1>3. cmd.kind # "recover"
  BY <1>1, <1>2 DEF StepsOf
<1>4. /\ SameTask(c) /\ SameGoal(c) /\ command'[c].operation = op
      /\ \E n \in Package :
           /\ StagingOnlyAt(op, n)
           /\ \/ /\ cmd.step = "stage" /\ command'[c].step = "manifest"
                 /\ n \in cmd.todo /\ MayStage(n, cmd.current)
                 /\ command'[c].todo = cmd.todo \ {n} /\ command'[c].hand = {n}
                 /\ command'[c].existed = IF Missing(n) THEN cmd.existed ELSE cmd.existed \cup {n}
                 /\ staging'[op][n].projection = cmd.next[n]
              \/ /\ cmd.step = "manifest" /\ command'[c].step = "stage"
                 /\ command'[c].todo = cmd.todo /\ command'[c].hand = {}
                 /\ command'[c].existed = cmd.existed
                 /\ \/ staging'[op][n].projection = NoDigest
                    \/ Holds(op, n) /\ staging'[op][n].projection = staging[op][n].projection
              \/ /\ cmd.step = "removals" /\ command'[c].step = "removals"
                 /\ command'[c].todo \subseteq cmd.todo /\ command'[c].hand = cmd.hand
                 /\ command'[c].existed = cmd.existed
                 /\ \/ staging'[op][n].projection = NoDigest
                    \/ Holds(op, n) /\ staging'[op][n].projection = staging[op][n].projection
  <2>1. CASE StageProjection(c)
    <3>1. PICK n \in cmd.todo :
            /\ cmd.step = "stage" /\ MayStage(n, cmd.current)
            /\ StageContainer(op, n, cmd.next[n])
            /\ SameTask(c) /\ SameGoal(c)
            /\ command'[c].step = "manifest" /\ command'[c].todo = cmd.todo \ {n}
            /\ command'[c].hand = {n} /\ command'[c].operation = op
            /\ command'[c].existed = IF Missing(n) THEN cmd.existed ELSE cmd.existed \cup {n}
      BY <1>2, <2>1, StageProjectionDoes
    <3>2. StagingOnlyAt(op, n) /\ staging'[op][n].projection = cmd.next[n]
      BY <1>1, <1>2, <3>1, StageContainerStages
    <3>. QED BY <1>2, <3>1, <3>2
  <2>2. CASE WriteStageManifest(c)
    <3>1. /\ cmd.step = "manifest"
          /\ \E n \in cmd.hand : WriteManifest(op, n, "stage", cmd.current[n])
          /\ GoTo(c, "stage", cmd.todo)
      BY <2>2 DEF WriteStageManifest, At
    <3>2. /\ SameTask(c) /\ SameGoal(c) /\ command'[c].operation = op
          /\ command'[c].step = "stage" /\ command'[c].todo = cmd.todo
          /\ command'[c].hand = {} /\ command'[c].existed = cmd.existed
      BY <1>2, <3>1, GoToMoves DEF Steps
    <3>3. PICK n \in cmd.hand : WriteManifest(op, n, "stage", cmd.current[n])
      BY <3>1
    <3>4. /\ StagingOnlyAt(op, n)
          /\ \/ staging'[op][n].projection = NoDigest
             \/ Holds(op, n) /\ staging'[op][n].projection = staging[op][n].projection
      BY <1>1, <1>2, <3>3, WriteManifestKeeps DEF Holds
    <3>. QED BY <1>2, <3>1, <3>2, <3>4
  <2>3. CASE WriteRemovalManifest(c)
    <3>1. PICK n \in cmd.todo : /\ cmd.step = "removals"
                                /\ WriteManifest(op, n, "remove", cmd.current[n])
                                /\ Ticked(c, n)
      BY <2>3 DEF WriteRemovalManifest, Held, At
    <3>2. /\ SameTask(c) /\ SameGoal(c) /\ command'[c].operation = op
          /\ command'[c].step = cmd.step /\ command'[c].todo = cmd.todo \ {n}
          /\ command'[c].hand = cmd.hand /\ command'[c].existed = cmd.existed
      BY <1>2, <3>1, TickedMoves
    <3>3. /\ StagingOnlyAt(op, n)
          /\ \/ staging'[op][n].projection = NoDigest
             \/ Holds(op, n) /\ staging'[op][n].projection = staging[op][n].projection
      BY <1>1, <1>2, <3>1, WriteManifestKeeps DEF Holds
    <3>. QED BY <1>2, <3>1, <3>2, <3>3
  <2>. QED BY <2>1, <2>2, <2>3
<1> HIDE DEF op
<1>5. AimsRight(command[c])'
  BY <1>1, <1>2, <1>3, <1>4 DEF AimsRight, Settles, BeforeCommit, AfterCommit, DriftSteps,
     SameTask, SameGoal, registryVars, Owns
<1>6. PlanFits(command[c])'
  <2>1. /\ SameTask(c) /\ SameGoal(c) /\ live' = live
        /\ PlanFits(cmd) /\ cmd.kind # "recover"
    BY <1>1, <1>2, <1>3, <1>4
  <2>2. PICK n \in Package :
          \/ /\ cmd.step = "stage" /\ command'[c].step = "manifest"
             /\ n \in cmd.todo /\ MayStage(n, cmd.current)
             /\ command'[c].todo = cmd.todo \ {n} /\ command'[c].hand = {n}
             /\ command'[c].existed = IF Missing(n) THEN cmd.existed ELSE cmd.existed \cup {n}
          \/ /\ cmd.step = "manifest" /\ command'[c].step = "stage"
             /\ command'[c].todo = cmd.todo /\ command'[c].hand = {}
             /\ command'[c].existed = cmd.existed
          \/ /\ cmd.step = "removals" /\ command'[c].step = "removals"
             /\ command'[c].todo \subseteq cmd.todo /\ command'[c].hand = cmd.hand
             /\ command'[c].existed = cmd.existed
    BY <1>4
  <2>3. CASE cmd.step = "stage"
    BY <2>1, <2>2, <2>3
       DEF PlanFits, BeforeStaging, SameTask, SameGoal, Shows, MayStage, Missing
  <2>4. CASE cmd.step = "manifest"
    BY <2>1, <2>2, <2>4 DEF PlanFits, BeforeStaging, SameTask, SameGoal, Shows
  <2>5. CASE cmd.step = "removals"
    BY <2>1, <2>2, <2>5 DEF PlanFits, BeforeStaging, SameTask, SameGoal, Shows
  <2>. QED BY <1>1, <2>3, <2>4, <2>5
<1>7. StagedFits(command[c])'
  <2> SUFFICES ASSUME NEW m \in Package, Holds(op, m)'
               PROVE  staging'[op][m].projection = cmd.next[m]
    BY <1>2, <1>3, <1>4 DEF StagedFits, SameTask, SameGoal, op
  <2>1. op' = op /\ op \in OperationId
    BY <1>2, <1>4 DEF op
  <2>2. staging'[op][m] # NoContainer /\ staging'[op][m].projection # NoDigest
    BY <2>1 DEF Holds
  <2>3. Holds(op, m) => staging[op][m].projection = cmd.next[m]
    BY <1>1, <1>2, <1>3 DEF StagedFits, StagingSteps, op
  <2>4. \/ staging'[op][m] = staging[op][m]
        \/ staging'[op][m].projection = cmd.next[m]
        \/ staging'[op][m].projection = NoDigest
        \/ Holds(op, m) /\ staging'[op][m].projection = staging[op][m].projection
    BY <1>4, <2>1 DEF StagingOnlyAt
  <2>. QED BY <2>2, <2>3, <2>4 DEF Holds
<1>8. Behind(command[c])'
  BY <1>1, <1>2, <1>3, <1>4 DEF Behind, Left, BeforeStaging, SameTask, SameGoal, Shows, DriftSteps
<1>9. Marked(command[c])'
  BY <1>4 DEF Marked, MarkerWritten
<1>10. RowsFit(command[c])'
  BY <1>1, <1>2, <1>4 DEF RowsFit, SameTask, PendingOf, registryVars, op
<1>. QED BY <1>5, <1>6, <1>7, <1>8, <1>9, <1>10 DEF RunsRight

(* The commit: from now on the next state is the accepted one.             *)
LEMMA CommitRight ==
  ASSUME RightInv, NEW c \in Client, CommitAcceptedState(c)
  PROVE  RunsRight(command[c])'
<1> DEFINE cmd == command[c]
<1>0. cmd.step = "commit" /\ cmd.step # "none"
  BY DEF CommitAcceptedState, Held, At
<1>1. /\ PlanFits(cmd) /\ StagedFits(cmd) /\ Behind(cmd)
      /\ Fits(cmd) /\ LifecycleInv /\ cmd.target \in TargetId /\ RegistryTypeOK
  BY <1>0, RightRuns, BusyRuns
<1>2. /\ cmd.kind \in {"install", "change"}
      /\ cmd.kind = "install" =>
           ReplaceFreshTargetState(cmd.operation, cmd.target, TargetRoot, cmd.next)
      /\ resolvedPackages' = [resolvedPackages EXCEPT ![cmd.target] = cmd.next]
      /\ SameTask(c) /\ command'[c].next = cmd.next
      /\ command'[c].generation = generation'[cmd.target]
      /\ command'[c].step = "remove" /\ command'[c].todo = cmd.removals
      /\ command'[c].hand = cmd.hand /\ command'[c].existed = cmd.existed
      /\ command'[c].operation = cmd.operation
      /\ UNCHANGED <<fileVars, touched>>
  BY <1>1, CommitDoes
<1>3. \E row \in targetLocations' : row.path = TargetRoot /\ row.target = cmd.target
  <2>1. CASE cmd.kind = "change"
    BY <1>1, <2>1, CommitFits DEF Fits, Preserves, RegistrySteps, Owns
  <2>2. CASE cmd.kind = "install"
    <3> DEFINE row == [path |-> TargetRoot, target |-> cmd.target, observed |-> NotObserved]
    <3>1. row \in targetLocations' /\ row.path = TargetRoot /\ row.target = cmd.target
      BY <1>2, <2>2 DEF ReplaceFreshTargetState, ReplaceTargetRows, FreshLocation
    <3>. QED BY <3>1
  <2>. QED BY <1>2, <2>1, <2>2
<1>4. AimsRight(command[c])'
  <2>1. resolvedPackages'[cmd.target] = cmd.next
    BY <1>1, <1>2 DEF RegistryTypeOK
  <2>. QED BY <1>2, <1>3, <2>1 DEF AimsRight, BeforeCommit, SameTask, Owns
<1>5. PlanFits(command[c])'
  BY <1>0, <1>1, <1>2 DEF PlanFits, BeforeStaging, SameTask, fileVars, Shows
<1>6. StagedFits(command[c])'
  BY <1>0, <1>1, <1>2 DEF StagedFits, StagingSteps, SameTask, fileVars, Holds
<1>7. Behind(command[c])'
  BY <1>0, <1>1, <1>2 DEF Behind, Left, BeforeStaging, DriftSteps, SameTask, fileVars, Shows
<1>8. Marked(command[c])' /\ RowsFit(command[c])'
  BY <1>2 DEF Marked, MarkerWritten, RowsFit, SameTask
<1>. QED BY <1>4, <1>5, <1>6, <1>7, <1>8 DEF RunsRight

(* A completed operation is no longer pending, and the target that has the *)
(* directory is not touched by it.                                         *)
LEMMA CompletionKeeps ==
  ASSUME RegistryInv, NEW op, CompletePendingOperation(op)
  PROVE  /\ \A row \in pendingOperations' : row \in pendingOperations /\ row.operation # op
         /\ UNCHANGED <<resolvedPackages, targetLocations>>
         /\ \A t \in TargetId : Owns(t) => generation'[t] = generation[t]
<1>1. \A t \in TargetId : Owns(t) => LocationsOf(t) # {}
  BY DEF Owns, LocationsOf
<1>. QED BY <1>1 DEF CompletePendingOperation

(* Taking staging back, discarding it or cleaning it up.                   *)
LEMMA CleaningRight ==
  ASSUME RightInv, NEW c \in Client,
         UndoStaging(c) \/ DiscardStaging(c) \/ CleanPending(c)
  PROVE  Busy(c)' => RunsRight(command[c])'
<1> DEFINE cmd == command[c]
<1>1. /\ cmd.step \in {"undo", "discard", "cleaning"} /\ cmd.step # "none"
      /\ UNCHANGED <<live, marker, touched>>
  BY DEF UndoStaging, DiscardStaging, CleanPending, Held, At
<1>2. /\ AimsRight(cmd) /\ PlanFits(cmd) /\ Behind(cmd) /\ Marked(cmd)
      /\ RowsFit(cmd) /\ cmd.step \in StepsOf(cmd.kind) /\ cmd.kind \in Commands
      /\ LifecycleInv /\ RegistryInv /\ cmd \in Running /\ command \in CommandType
      /\ cmd.target \in TargetId
  BY <1>1, RightRuns, BusyRuns DEF Fits
<1>3. SUFFICES ASSUME command'[c] # Idle
               PROVE  RunsRight(command[c])'
  BY DEF Busy
<1>4. /\ SameTask(c) /\ SameGoal(c) /\ command'[c].hand \in {{}, cmd.hand}
      /\ \/ /\ command'[c].step = cmd.step /\ command'[c].operation = cmd.operation
            /\ UNCHANGED registryVars
         \/ /\ cmd.step \in {"discard", "cleaning"}
            /\ command'[c].step = IF cmd.step = "discard" THEN "marker" ELSE AfterClean(c)
            /\ CompletePendingOperation(cmd.operation)
  <2>1. CASE UndoStaging(c)
    <3>1. PICK n \in cmd.todo : Ticked(c, n) /\ UNCHANGED registryVars
      BY <1>2, <1>3, <2>1, ReturnMoves DEF UndoStaging, LifecycleInv, TypeOK
    <3>. QED BY <1>2, <3>1, TickedMoves
  <2>2. CASE DiscardStaging(c)
    <3>1. cmd.step = "discard"
      BY <2>2 DEF DiscardStaging, Held, At
    <3>2. CASE \E n \in cmd.todo : Ticked(c, n) /\ UNCHANGED registryVars
      BY <1>2, <3>2, TickedMoves
    <3>3. CASE CompletePendingOperation(cmd.operation) /\ GoTo(c, "marker", {})
      BY <1>2, <3>1, <3>3, GoToMoves DEF Steps
    <3>. QED BY <2>2, <3>2, <3>3 DEF DiscardStaging
  <2>3. CASE CleanPending(c)
    BY <1>2, <2>3, CleanPendingDoes
  <2>. QED BY <2>1, <2>2, <2>3
<1>5. CompletePendingOperation(cmd.operation) =>
        /\ \A row \in pendingOperations' : row \in pendingOperations /\ row.operation # cmd.operation
        /\ UNCHANGED <<resolvedPackages, targetLocations>>
        /\ Owns(cmd.target) => generation'[cmd.target] = generation[cmd.target]
  BY <1>2, CompletionKeeps
<1>6. AimsRight(command[c])'
  BY <1>1, <1>2, <1>4, <1>5 DEF AimsRight, Settles, BeforeCommit, AfterCommit, AfterClean,
     DriftSteps, StepsOf, Commands, SameTask, SameGoal, registryVars, Owns
<1>7. PlanFits(command[c])'
  BY <1>1, <1>2, <1>4 DEF PlanFits, BeforeStaging, AfterClean, SameTask, SameGoal, Shows
<1>8. StagedFits(command[c])'
  BY <1>1, <1>4 DEF StagedFits, StagingSteps, AfterClean
<1>9. Behind(command[c])'
  BY <1>1, <1>2, <1>4 DEF Behind, Left, BeforeStaging, AfterClean, DriftSteps, StepsOf, Commands,
     SameTask, SameGoal, Shows
<1>10. Marked(command[c])'
  BY <1>1, <1>2, <1>4 DEF Marked, MarkerWritten, AfterClean, StepsOf, Commands, DriftSteps,
     SameTask, SameGoal
<1>11. RowsFit(command[c])'
  BY <1>1, <1>2, <1>4, <1>5 DEF RowsFit, AfterClean, PendingOf, SameTask, registryVars,
     StepsOf, Commands, DriftSteps
<1>. QED BY <1>6, <1>7, <1>8, <1>9, <1>10, <1>11 DEF RunsRight

----------------------------------------------------------------------------
(* What a step may do to the directory, seen from the command at work.     *)

(* The name that c has verified and is about to free.                      *)
Looked(c) == IF command[c].step \in {"removing", "retire"} THEN command[c].hand ELSE {}

(* A command looks at one name at a time, and goes on only if it finds     *)
(* nothing of the user's there.                                            *)
Looks(c) ==
  \/ Looked(c)' \subseteq Looked(c)
  \/ /\ UNCHANGED <<live, staging>>
     /\ \E n \in Package : live[n] # Foreign /\ Looked(c)' = {n} /\ Looked(c) = {}

(* Nothing new is kept aside, but perhaps what was live under n.           *)
AsideBut(n) ==
  \A o \in OperationId, m \in Package :
    staging'[o][m] # NoContainer =>
      \/ staging'[o][m].retired = NoDigest
      \/ m = n /\ staging'[o][m].retired = live[m]
      \/ staging[o][m] # NoContainer /\ staging'[o][m].retired = staging[o][m].retired

NothingAside ==
  \A o \in OperationId, m \in Package :
    staging'[o][m] # NoContainer =>
      \/ staging'[o][m].retired = NoDigest
      \/ staging[o][m] # NoContainer /\ staging'[o][m].retired = staging[o][m].retired

(* The state that the command of c brings about appears, ...               *)
ShowsNext(c, n) ==
  /\ live[n] = NoDigest /\ command[c].next[n] # NoDigest
  /\ live'[n] = command[c].next[n]
  /\ NothingAside

(* ... what is not part of it is taken away, ...                           *)
TakesAway(c, n) ==
  /\ live[n] # NoDigest /\ live[n] # command[c].next[n] /\ live'[n] = NoDigest
  /\ live[n] = Foreign => command[c].kind = "repair" \/ n \in Looked(c)
  /\ AsideBut(n)

(* ... or what was taken away comes back.                                  *)
PutsBack(n) ==
  /\ live[n] = NoDigest
  /\ \E op \in OperationId : staging[op][n] # NoContainer /\ live'[n] = staging[op][n].retired
  /\ NothingAside

LiveMoves(c) ==
  \/ UNCHANGED live /\ NothingAside
  \/ /\ Settles(command[c])
     /\ \E n \in Package :
          LiveOnlyAt(n) /\ (ShowsNext(c, n) \/ TakesAway(c, n) \/ PutsBack(n))

(* Containers that stay keep what they hold.                               *)
LEMMA StagingStays ==
  ASSUME UNCHANGED staging
  PROVE  NothingAside
BY DEF NothingAside

(* Looking at a name before it is freed, or at what counts as done.        *)
LEMMA VerifyingRight ==
  ASSUME RightInv, NEW c \in Client,
         \/ VerifyRemoval(c) \/ RecoverRemoval(c) \/ RecoverActivated(c)
         \/ VerifyCurrent(c) \/ RecoverActivation(c)
  PROVE  RunsRight(command[c])' /\ LiveMoves(c) /\ Looks(c) /\ UNCHANGED <<registryVars, marker>>
<1> DEFINE cmd == command[c]
<1>1. /\ cmd.step \in {"remove", "activate", "converge"} /\ cmd.step # "none"
      /\ UNCHANGED <<registryVars, live, staging, marker, touched>>
  BY DEF VerifyRemoval, RecoverRemoval, RecoverActivated, VerifyCurrent, RecoverActivation,
         Held, At, fileVars
<1>2. /\ AimsRight(cmd) /\ PlanFits(cmd) /\ StagedFits(cmd) /\ Behind(cmd)
      /\ RowsFit(cmd) /\ cmd.step \in StepsOf(cmd.kind) /\ cmd.kind \in Commands
      /\ cmd.todo \subseteq Package /\ cmd.stages \subseteq Package
      /\ LifecycleInv /\ FilesTypeOK /\ cmd \in Running /\ command \in CommandType
      /\ cmd.operation \in OperationId
      /\ \A n \in Package : /\ cmd.next[n] \in Digest \cup {NoDigest}
                            /\ cmd.current[n] \in Digest \cup {NoDigest}
  BY <1>1, RightRuns, BusyRuns DEF Fits, OperationSteps, Content
<1>3. cmd.kind = "recover" <=> cmd.step = "converge"
  BY <1>1, <1>2 DEF StepsOf, Commands, DriftSteps
<1> DEFINE op == cmd.operation
<1>4. \E n \in cmd.todo :
        \/ /\ Ticked(c, n)
           /\ \/ cmd.next[n] = NoDigest
              \/ Shows(n, cmd.next) /\ cmd.step = "converge"
           /\ cmd.step \in {"remove", "converge"}
        \/ /\ Half(c, "removing", n) /\ cmd.next[n] = NoDigest /\ live[n] # Foreign
           /\ cmd.step \in {"remove", "converge"}
        \/ /\ Half(c, "retire", n) /\ live[n] # Foreign
           /\ cmd.next[n] # NoDigest /\ ~Shows(n, cmd.next)
           /\ cmd.step \in {"activate", "converge"}
           /\ cmd.step = "converge" => staging[op][n].projection = cmd.next[n]
  <2>1. CASE VerifyRemoval(c)
    <3>1. PICK n \in cmd.todo : /\ Missing(n) \/ Shows(n, cmd.current)
                                /\ IF Missing(n) THEN Ticked(c, n) ELSE Half(c, "removing", n)
      BY <2>1 DEF VerifyRemoval
    <3>2. cmd.step = "remove"
      BY <2>1 DEF VerifyRemoval, Held, At
    <3>3. cmd.next[n] = NoDigest /\ live[n] # Foreign
      BY <1>2, <3>1, <3>2, ForeignAssumption DEF PlanFits, Shows, Missing
    <3>. QED BY <3>1, <3>2, <3>3
  <2>2. CASE RecoverRemoval(c)
    <3>1. PICK n \in cmd.todo : /\ cmd.next[n] = NoDigest /\ Proven(c, n)
                                /\ Manifest(c, n) # NoContainer
                                /\ IF Missing(n) THEN Ticked(c, n) ELSE Half(c, "removing", n)
      BY <2>2 DEF RecoverRemoval
    <3>2. cmd.step = "converge"
      BY <2>2 DEF RecoverRemoval, Held, At
    <3>3. Manifest(c, n) \in Container
      BY <1>2, <3>1 DEF Manifest, FilesTypeOK
    <3>4. live[n] # Foreign
      BY <3>1, <3>3, ForeignAssumption DEF Proven, Missing, Container
    <3>. QED BY <3>1, <3>2, <3>4
  <2>3. CASE RecoverActivated(c)
    BY <2>3 DEF RecoverActivated, Held, At
  <2>4. CASE VerifyCurrent(c)
    <3>1. PICK n \in cmd.todo \cap cmd.existed : Shows(n, cmd.current) /\ Half(c, "retire", n)
      BY <2>4 DEF VerifyCurrent
    <3>2. cmd.step = "activate"
      BY <2>4 DEF VerifyCurrent, Held, At
    <3>3. cmd.current[n] # cmd.next[n] /\ n \in cmd.stages
      BY <1>2, <1>3, <3>1, <3>2 DEF PlanFits
    <3>4. cmd.next[n] # NoDigest
      BY <1>2, <3>3 DEF PlanFits
    <3>5. live[n] # Foreign /\ ~Shows(n, cmd.next)
      BY <1>2, <3>1, <3>3, ForeignAssumption DEF Shows
    <3>. QED BY <3>1, <3>2, <3>4, <3>5
  <2>5. CASE RecoverActivation(c)
    <3>1. PICK n \in cmd.todo : Activatable(c, n) /\ Half(c, "retire", n)
      BY <2>5 DEF RecoverActivation
    <3>2. cmd.step = "converge"
      BY <2>5 DEF RecoverActivation, Held, At
    <3>3. Manifest(c, n) \in Container /\ Manifest(c, n) = staging[op][n]
      BY <1>2, <3>1 DEF Activatable, Manifest, FilesTypeOK
    <3>4. live[n] # Foreign
      BY <3>1, <3>3, ForeignAssumption DEF Activatable, Proven, Missing, Container
    <3>. QED BY <3>1, <3>2, <3>3, <3>4 DEF Activatable
  <2>. QED BY <2>1, <2>2, <2>3, <2>4, <2>5
<1>5. LiveMoves(c)
  BY <1>1, StagingStays DEF LiveMoves
<1>6. CASE \E n \in cmd.todo :
             /\ Ticked(c, n)
             /\ \/ cmd.next[n] = NoDigest
                \/ Shows(n, cmd.next) /\ cmd.step = "converge"
             /\ cmd.step \in {"remove", "converge"}
  <2>1. PICK n \in cmd.todo : /\ Ticked(c, n)
                              /\ cmd.next[n] = NoDigest \/ Shows(n, cmd.next)
                              /\ cmd.step \in {"remove", "converge"}
    BY <1>6
  <2>2. /\ SameTask(c) /\ SameGoal(c) /\ command'[c].step = cmd.step
        /\ command'[c].todo = cmd.todo \ {n} /\ command'[c].hand = cmd.hand
        /\ command'[c].operation = cmd.operation /\ command'[c].existed = cmd.existed
    BY <1>2, <2>1, TickedMoves
  <2>3. AimsRight(command[c])'
    BY <1>1, <1>2, <2>2 DEF AimsRight, Settles, SameTask, SameGoal, registryVars, Owns
  <2>4. PlanFits(command[c])'
    BY <1>1, <1>2, <2>1, <2>2 DEF PlanFits, BeforeStaging, SameTask, SameGoal
  <2>5. StagedFits(command[c])'
    BY <1>1, <1>2, <2>2 DEF StagedFits, SameTask, SameGoal, Holds
  <2>6. Behind(command[c])'
    BY <1>1, <1>2, <2>1, <2>2 DEF Behind, Left, BeforeStaging, DriftSteps, SameTask, SameGoal, Shows
  <2>7. Marked(command[c])' /\ RowsFit(command[c])'
    BY <1>1, <1>2, <2>1, <2>2 DEF Marked, MarkerWritten, RowsFit, SameTask, PendingOf, registryVars
  <2>8. Looks(c)
    BY <2>1, <2>2 DEF Looks, Looked
  <2>. QED BY <1>1, <1>5, <2>3, <2>4, <2>5, <2>6, <2>7, <2>8 DEF RunsRight
<1>7. CASE \E n \in cmd.todo :
             /\ Half(c, "removing", n) /\ cmd.next[n] = NoDigest /\ live[n] # Foreign
             /\ cmd.step \in {"remove", "converge"}
  <2>1. PICK n \in cmd.todo : /\ Half(c, "removing", n)
                              /\ cmd.next[n] = NoDigest /\ live[n] # Foreign
                              /\ cmd.step \in {"remove", "converge"}
    BY <1>7
  <2>2. /\ SameTask(c) /\ SameGoal(c) /\ command'[c].step = "removing"
        /\ command'[c].todo = cmd.todo \ {n} /\ command'[c].hand = {n}
        /\ command'[c].operation = cmd.operation /\ command'[c].existed = cmd.existed
    BY <1>2, <2>1, HalfMoves DEF Steps
  <2>3. AimsRight(command[c])'
    BY <1>1, <1>2, <1>3, <2>1, <2>2 DEF AimsRight, Settles, BeforeCommit, AfterCommit, DriftSteps,
       SameTask, SameGoal, registryVars, Owns
  <2>4. PlanFits(command[c])'
    BY <1>1, <1>2, <1>3, <2>1, <2>2 DEF PlanFits, BeforeStaging, SameTask, SameGoal
  <2>5. StagedFits(command[c])'
    BY <1>1, <1>2, <1>3, <2>1, <2>2 DEF StagedFits, StagingSteps, SameTask, SameGoal, Holds
  <2>6. Behind(command[c])'
    BY <1>1, <1>2, <1>3, <2>1, <2>2
       DEF Behind, Left, BeforeStaging, DriftSteps, SameTask, SameGoal, Shows
  <2>7. Marked(command[c])' /\ RowsFit(command[c])'
    BY <1>1, <1>2, <1>3, <2>1, <2>2
       DEF Marked, MarkerWritten, RowsFit, SameTask, PendingOf, registryVars
  <2>8. Looks(c)
    BY <1>1, <1>2, <2>1, <2>2 DEF Looks, Looked
  <2>. QED BY <1>1, <1>5, <2>3, <2>4, <2>5, <2>6, <2>7, <2>8 DEF RunsRight
<1>8. CASE \E n \in cmd.todo :
             /\ Half(c, "retire", n) /\ live[n] # Foreign
             /\ cmd.next[n] # NoDigest /\ ~Shows(n, cmd.next)
             /\ cmd.step \in {"activate", "converge"}
             /\ cmd.step = "converge" => staging[op][n].projection = cmd.next[n]
  <2>1. PICK n \in cmd.todo : /\ Half(c, "retire", n) /\ live[n] # Foreign
                              /\ cmd.next[n] # NoDigest /\ ~Shows(n, cmd.next)
                              /\ cmd.step \in {"activate", "converge"}
                              /\ cmd.step = "converge" => staging[op][n].projection = cmd.next[n]
    BY <1>8
  <2>2. /\ SameTask(c) /\ SameGoal(c) /\ command'[c].step = "retire"
        /\ command'[c].todo = cmd.todo \ {n} /\ command'[c].hand = {n}
        /\ command'[c].operation = cmd.operation /\ command'[c].existed = cmd.existed
    BY <1>2, <2>1, HalfMoves DEF Steps
  <2>3. AimsRight(command[c])'
    BY <1>1, <1>2, <1>3, <2>1, <2>2 DEF AimsRight, Settles, BeforeCommit, AfterCommit, DriftSteps,
       SameTask, SameGoal, registryVars, Owns
  <2>4. PlanFits(command[c])'
    BY <1>1, <1>2, <1>3, <2>1, <2>2 DEF PlanFits, BeforeStaging, SameTask, SameGoal, Shows
  <2>5. StagedFits(command[c])'
    BY <1>1, <1>2, <1>3, <2>1, <2>2 DEF StagedFits, StagingSteps, SameTask, SameGoal, Holds
  <2>6. Behind(command[c])'
    BY <1>1, <1>2, <1>3, <2>1, <2>2
       DEF Behind, Left, BeforeStaging, DriftSteps, SameTask, SameGoal, Shows
  <2>7. Marked(command[c])' /\ RowsFit(command[c])'
    BY <1>1, <1>2, <1>3, <2>1, <2>2
       DEF Marked, MarkerWritten, RowsFit, SameTask, PendingOf, registryVars
  <2>8. Looks(c)
    BY <1>1, <1>2, <2>1, <2>2 DEF Looks, Looked
  <2>. QED BY <1>1, <1>5, <2>3, <2>4, <2>5, <2>6, <2>7, <2>8 DEF RunsRight
<1>. QED BY <1>4, <1>6, <1>7, <1>8

(* Removing what has no place in the next state.                           *)
LEMMA RemovalRight ==
  ASSUME RightInv, NEW c \in Client, RemoveProjection(c)
  PROVE  RunsRight(command[c])' /\ LiveMoves(c) /\ UNCHANGED <<registryVars, marker>>
<1> DEFINE cmd == command[c]
<1>1. /\ cmd.step = "removing" /\ cmd.step # "none"
      /\ GoTo(c, AfterRemoving(c), cmd.todo)
      /\ UNCHANGED <<registryVars, staging, marker, touched>>
  BY DEF RemoveProjection, At
<1>2. /\ AimsRight(cmd) /\ PlanFits(cmd) /\ StagedFits(cmd) /\ Behind(cmd)
      /\ RowsFit(cmd) /\ cmd.step \in StepsOf(cmd.kind) /\ cmd.kind \in Commands
      /\ cmd.todo \in SUBSET Package /\ cmd.stages \subseteq Package /\ cmd.hand \subseteq Package
      /\ LifecycleInv /\ FilesTypeOK /\ cmd \in Running /\ command \in CommandType
      /\ \A n \in Package : cmd.next[n] \in Digest \cup {NoDigest}
  BY <1>1, RightRuns, BusyRuns DEF Fits, Content
<1>3. PICK n \in cmd.hand : live' = [live EXCEPT ![n] = NoDigest]
  BY DEF RemoveProjection
<1>4. /\ n \in Package /\ cmd.next[n] = NoDigest /\ LiveOnlyAt(n) /\ live'[n] = NoDigest
      /\ n \in Looked(c)
  BY <1>1, <1>2, <1>3 DEF PlanFits, FilesTypeOK, LiveOnlyAt, Looked
<1>5. AfterRemoving(c) = (IF cmd.kind = "recover" THEN "converge" ELSE "remove")
      /\ AfterRemoving(c) \in Steps
  BY DEF AfterRemoving, Steps
<1>6. /\ SameTask(c) /\ SameGoal(c)
      /\ command'[c].step = IF cmd.kind = "recover" THEN "converge" ELSE "remove"
      /\ command'[c].todo = cmd.todo /\ command'[c].hand = {}
      /\ command'[c].operation = cmd.operation /\ command'[c].existed = cmd.existed
  BY <1>1, <1>2, <1>5, GoToMoves
<1>7. AimsRight(command[c])' /\ Settles(cmd)
  BY <1>1, <1>2, <1>6 DEF AimsRight, Settles, BeforeCommit, AfterCommit, StepsOf, Commands,
     DriftSteps, SameTask, SameGoal, registryVars, Owns
<1>8. PlanFits(command[c])'
  BY <1>1, <1>2, <1>6 DEF PlanFits, BeforeStaging, SameTask, SameGoal
<1>9. StagedFits(command[c])'
  BY <1>1, <1>2, <1>6 DEF StagedFits, StagingSteps, SameTask, SameGoal, Holds
<1>10. Behind(command[c])'
  <2>1. \A m \in Package \ touched :
          cmd.next[m] # NoDigest /\ ~Shows(m, cmd.next)' => ~Shows(m, cmd.next) /\ m # n
    BY <1>2, <1>4, <1>6 DEF LiveOnlyAt, Shows, SameGoal
  <2>. QED BY <1>1, <1>2, <1>6, <2>1 DEF Behind, Left, BeforeStaging, DriftSteps,
           SameTask, SameGoal, Shows
<1>11. Marked(command[c])' /\ RowsFit(command[c])'
  BY <1>1, <1>2, <1>6 DEF Marked, MarkerWritten, RowsFit, SameTask, PendingOf, registryVars
<1>12. LiveMoves(c)
  <2>1. CASE live[n] = NoDigest
    <3>1. UNCHANGED live
      BY <1>2, <1>3, <2>1 DEF FilesTypeOK
    <3>. QED BY <1>1, <3>1, StagingStays DEF LiveMoves
  <2>2. CASE live[n] # NoDigest
    BY <1>1, <1>4, <1>7, <2>2, StagingStays DEF LiveMoves, TakesAway, NothingAside, AsideBut
  <2>. QED BY <2>1, <2>2
<1>. QED BY <1>1, <1>7, <1>8, <1>9, <1>10, <1>11, <1>12 DEF RunsRight

(* Activating: what was staged for the next state appears.                 *)
LEMMA ActivationRight ==
  ASSUME RightInv, NEW c \in Client,
         ActivateNew(c) \/ ActivateRetired(c) \/ ActivateAtOnce(c)
  PROVE  RunsRight(command[c])' /\ LiveMoves(c) /\ UNCHANGED <<registryVars, marker>>
<1> DEFINE cmd == command[c]
           op == cmd.operation
<1>1. /\ cmd.step \in {"activate", "swap", "retire"} /\ cmd.step # "none"
      /\ UNCHANGED <<registryVars, marker, touched>>
  BY DEF ActivateNew, ActivateRetired, ActivateAtOnce, Held, At, MayRetire, MaySwap
<1>2. /\ AimsRight(cmd) /\ PlanFits(cmd) /\ StagedFits(cmd) /\ Behind(cmd)
      /\ RowsFit(cmd) /\ cmd.step \in StepsOf(cmd.kind) /\ cmd.kind \in Commands
      /\ cmd.todo \subseteq Package /\ cmd.hand \subseteq Package
      /\ LifecycleInv /\ FilesTypeOK /\ cmd \in Running /\ command \in CommandType
      /\ op \in OperationId
      /\ \A n \in Package : cmd.next[n] \in Digest \cup {NoDigest}
  BY <1>1, RightRuns, BusyRuns DEF Fits, OperationSteps, Content
<1>3. \E n \in Package :
        /\ Activate(op, n) /\ staging[op][n].projection = cmd.next[n]
        /\ command'[c].hand \in {{}, cmd.hand}
        /\ SameTask(c) /\ SameGoal(c) /\ command'[c].existed = cmd.existed
        /\ command'[c].operation = op
        /\ command'[c].step = IF cmd.kind = "recover" THEN "converge" ELSE "activate"
        /\ \/ /\ cmd.step = command'[c].step /\ n \in cmd.todo
              /\ command'[c].todo = cmd.todo \ {n}
           \/ /\ n \in cmd.hand /\ command'[c].todo = cmd.todo
              /\ cmd.step = "swap" \/ (cmd.step = "retire" /\ cmd.kind = "recover")
  <2>1. CASE ActivateNew(c)
    <3>1. PICK n \in cmd.todo : Activate(op, n) /\ Ticked(c, n)
      BY <2>1 DEF ActivateNew
    <3>2. cmd.step = "activate" /\ cmd.kind # "recover"
      BY <1>2, <2>1 DEF ActivateNew, Held, At, StepsOf
    <3>3. staging[op][n].projection = cmd.next[n]
      BY <1>2, <3>1, <3>2 DEF StagedFits, StagingSteps, Activate
    <3>. QED BY <1>2, <3>1, <3>2, <3>3, TickedMoves
  <2>2. CASE ActivateRetired(c)
    <3> DEFINE step == IF cmd.kind = "recover" THEN "converge" ELSE "activate"
    <3>1. cmd.step = "swap" /\ GoTo(c, step, cmd.todo)
      BY <2>2 DEF ActivateRetired, MaySwap, At
    <3>2. PICK n \in cmd.hand : Activate(op, n)
      BY <2>2 DEF ActivateRetired
    <3>3. staging[op][n].projection = cmd.next[n]
      BY <1>2, <3>1, <3>2 DEF StagedFits, StagingSteps, Activate
    <3>4. step \in Steps /\ cmd.todo \in SUBSET Package
      BY <1>2 DEF Steps
    <3> HIDE DEF step
    <3>5. /\ SameTask(c) /\ SameGoal(c) /\ command'[c].step = step
          /\ command'[c].todo = cmd.todo /\ command'[c].hand = {}
          /\ command'[c].operation = op /\ command'[c].existed = cmd.existed
      BY <1>2, <3>1, <3>4, GoToMoves
    <3>. QED BY <1>2, <3>1, <3>2, <3>3, <3>5 DEF step
  <2>3. CASE ActivateAtOnce(c)
    <3>1. /\ cmd.step = "retire" /\ cmd.kind = "recover" /\ GoTo(c, "converge", cmd.todo)
      BY <2>3 DEF ActivateAtOnce, MayRetire, At
    <3>2. PICK n \in cmd.hand : Activate(op, n)
      BY <2>3 DEF ActivateAtOnce
    <3>3. staging[op][n].projection = cmd.next[n]
      BY <1>2, <3>1, <3>2 DEF StagedFits, StagingSteps, Activate
    <3>4. "converge" \in Steps /\ cmd.todo \in SUBSET Package
      BY <1>2 DEF Steps
    <3>5. /\ SameTask(c) /\ SameGoal(c) /\ command'[c].step = "converge"
          /\ command'[c].todo = cmd.todo /\ command'[c].hand = {}
          /\ command'[c].operation = op /\ command'[c].existed = cmd.existed
      BY <1>2, <3>1, <3>4, GoToMoves
    <3>. QED BY <1>2, <3>1, <3>2, <3>3, <3>5
  <2>. QED BY <2>1, <2>2, <2>3
<1>4. PICK n \in Package :
        /\ Activate(op, n) /\ staging[op][n].projection = cmd.next[n]
        /\ command'[c].hand \in {{}, cmd.hand}
        /\ SameTask(c) /\ SameGoal(c) /\ command'[c].existed = cmd.existed
        /\ command'[c].operation = op
        /\ command'[c].step = IF cmd.kind = "recover" THEN "converge" ELSE "activate"
        /\ \/ /\ cmd.step = command'[c].step /\ n \in cmd.todo
              /\ command'[c].todo = cmd.todo \ {n}
           \/ /\ n \in cmd.hand /\ command'[c].todo = cmd.todo
              /\ cmd.step = "swap" \/ (cmd.step = "retire" /\ cmd.kind = "recover")
  BY <1>3
<1>5. /\ StagingOnlyAt(op, n) /\ LiveOnlyAt(n)
      /\ live[n] = NoDigest /\ live'[n] = cmd.next[n] /\ cmd.next[n] # NoDigest
      /\ staging[op][n] # NoContainer
      /\ staging'[op][n].projection = NoDigest
      /\ staging'[op][n].retired = staging[op][n].retired
  BY <1>1, <1>2, <1>4, ActivateShows DEF Holds
<1> HIDE DEF op
<1>6. AimsRight(command[c])' /\ Settles(cmd)
  BY <1>1, <1>2, <1>4 DEF AimsRight, Settles, AfterCommit, BeforeCommit, StepsOf, Commands,
     DriftSteps, SameTask, SameGoal, registryVars, Owns
<1>7. PlanFits(command[c])'
  BY <1>1, <1>2, <1>4 DEF PlanFits, BeforeStaging, SameTask, SameGoal
<1>8. StagedFits(command[c])'
  <2> SUFFICES ASSUME NEW m \in Package, Holds(op, m)', cmd.kind # "recover"
               PROVE  staging'[op][m].projection = cmd.next[m]
    BY <1>2, <1>4 DEF StagedFits, StagingSteps, SameTask, SameGoal, op
  <2>1. op' = op
    BY <1>4 DEF op
  <2>2. staging'[op][m] # NoContainer /\ staging'[op][m].projection # NoDigest
    BY <2>1 DEF Holds
  <2>3. staging'[op][m] = staging[op][m]
    BY <1>2, <1>5, <2>2 DEF StagingOnlyAt
  <2>4. cmd.step \in StagingSteps
    BY <1>1, <1>2 DEF StagingSteps, StepsOf, Commands, DriftSteps
  <2>. QED BY <1>2, <2>2, <2>3, <2>4 DEF StagedFits, Holds, op
<1>9. Behind(command[c])'
  <2>1. \A m \in Package \ touched :
          cmd.next[m] # NoDigest /\ ~Shows(m, cmd.next)' => ~Shows(m, cmd.next) /\ m # n
    BY <1>2, <1>4, <1>5 DEF LiveOnlyAt, Shows, SameGoal
  <2>2. n \in cmd.hand => cmd.hand = {n}
    BY <1>2 DEF PlanFits
  <2>. QED BY <1>1, <1>2, <1>4, <2>1, <2>2 DEF Behind, Left, BeforeStaging, DriftSteps,
           SameTask, SameGoal, Shows
<1>10. Marked(command[c])' /\ RowsFit(command[c])'
  BY <1>1, <1>2, <1>4 DEF Marked, MarkerWritten, RowsFit, SameTask, PendingOf, registryVars, op
<1>11. LiveMoves(c)
  <2>1. NothingAside
    BY <1>5 DEF NothingAside, StagingOnlyAt
  <2>. QED BY <1>4, <1>5, <1>6, <2>1 DEF LiveMoves, ShowsNext
<1>. QED BY <1>1, <1>6, <1>7, <1>8, <1>9, <1>10, <1>11 DEF RunsRight

(* Retiring the projection that the next state replaces, or what the user  *)
(* has put in its place since it was verified.                             *)
LEMMA RetiringRight ==
  ASSUME RightInv, NEW c \in Client, RetireCurrent(c)
  PROVE  RunsRight(command[c])' /\ LiveMoves(c) /\ UNCHANGED <<registryVars, marker>>
<1> DEFINE cmd == command[c]
           op == cmd.operation
<1>1. /\ cmd.step = "retire" /\ cmd.step # "none"
      /\ command' = [command EXCEPT ![c].step = "swap"]
      /\ UNCHANGED <<registryVars, marker, touched>>
  BY DEF RetireCurrent, MayRetire, At
<1>2. /\ AimsRight(cmd) /\ PlanFits(cmd) /\ StagedFits(cmd) /\ Behind(cmd)
      /\ RowsFit(cmd) /\ cmd.step \in StepsOf(cmd.kind) /\ cmd.kind \in Commands
      /\ cmd.todo \subseteq Package /\ cmd.hand \subseteq Package
      /\ LifecycleInv /\ FilesTypeOK /\ cmd \in Running /\ command \in CommandType
      /\ op \in OperationId
      /\ \A n \in Package : /\ cmd.next[n] \in Digest \cup {NoDigest}
                            /\ cmd.current[n] \in Digest \cup {NoDigest}
  BY <1>1, RightRuns, BusyRuns DEF Fits, OperationSteps, Content
<1>3. PICK n \in cmd.hand :
        /\ Retire(op, n) /\ n \in Package
        /\ live[n] # NoDigest /\ live[n] # cmd.next[n]
        /\ n \in Looked(c)
  BY <1>1, <1>2 DEF RetireCurrent, Retires, Missing, PlanFits, Shows, Looked
<1>4. /\ SameTask(c) /\ SameGoal(c) /\ command'[c].step = "swap"
      /\ command'[c].todo = cmd.todo /\ command'[c].hand = cmd.hand
      /\ command'[c].operation = op /\ command'[c].existed = cmd.existed
  BY <1>1, <1>2, SwapFollows
<1>5. /\ StagingOnlyAt(op, n) /\ LiveOnlyAt(n) /\ live'[n] = NoDigest
      /\ staging[op][n] # NoContainer
      /\ staging'[op][n].projection = staging[op][n].projection
      /\ staging'[op][n].retired = live[n]
  BY <1>1, <1>2, <1>3, RetireKeeps
<1> HIDE DEF op
<1>6. AimsRight(command[c])' /\ Settles(cmd)
  BY <1>1, <1>2, <1>3, <1>4 DEF AimsRight, Settles, AfterCommit, BeforeCommit, StepsOf, Commands,
     DriftSteps, SameTask, SameGoal, registryVars, Owns
<1>7. PlanFits(command[c])'
  BY <1>1, <1>2, <1>3, <1>4 DEF PlanFits, BeforeStaging, SameTask, SameGoal
<1>8. StagedFits(command[c])'
  <2> SUFFICES ASSUME NEW m \in Package, Holds(op, m)', cmd.kind = "recover" => m \in cmd.hand
               PROVE  staging'[op][m].projection = cmd.next[m]
    BY <1>2, <1>4 DEF StagedFits, StagingSteps, SameTask, SameGoal, op
  <2>1. op' = op
    BY <1>4 DEF op
  <2>2. staging'[op][m] # NoContainer /\ staging'[op][m].projection # NoDigest
    BY <2>1 DEF Holds
  <2>3. staging[op][m] # NoContainer /\ staging'[op][m].projection = staging[op][m].projection
    BY <1>2, <1>5, <2>2 DEF StagingOnlyAt
  <2>. QED BY <1>1, <1>2, <1>3, <2>2, <2>3 DEF StagedFits, StagingSteps, Holds, op
<1>9. Behind(command[c])'
  <2>1. \A m \in Package \ touched :
          cmd.next[m] # NoDigest /\ ~Shows(m, cmd.next)' => ~Shows(m, cmd.next) \/ m = n
    BY <1>2, <1>4, <1>5 DEF LiveOnlyAt, Shows, SameGoal
  <2>. QED BY <1>1, <1>2, <1>3, <1>4, <2>1 DEF Behind, Left, BeforeStaging, DriftSteps,
           SameTask, SameGoal, Shows
<1>10. Marked(command[c])' /\ RowsFit(command[c])'
  BY <1>1, <1>2, <1>3, <1>4 DEF Marked, MarkerWritten, RowsFit, SameTask, PendingOf, registryVars, op
<1>11. LiveMoves(c)
  <2>1. AsideBut(n)
    BY <1>5 DEF AsideBut, StagingOnlyAt
  <2>. QED BY <1>2, <1>3, <1>5, <1>6, <2>1 DEF LiveMoves, TakesAway
<1>. QED BY <1>1, <1>6, <1>7, <1>8, <1>9, <1>10, <1>11 DEF RunsRight

(* In the repair of drift, all but the container in use is plain.          *)
LEMMA DriftStays ==
  ASSUME RightInv, NEW c \in Client, command[c].step \in DriftSteps,
         SameTask(c), SameGoal(c), command'[c].step \in DriftSteps,
         UNCHANGED <<registryVars, marker, touched>>,
         \A a, b \in command'[c].hand : a = b,
         command'[c].step = "driftRetire" =>
           \A n \in command'[c].hand :
             command[c].next[n] # NoDigest /\ live'[n] # command[c].next[n],
         StagedFits(command[c])'
  PROVE  RunsRight(command[c])' /\ Settles(command[c])
<1> DEFINE cmd == command[c]
<1>1. /\ AimsRight(cmd) /\ PlanFits(cmd) /\ cmd.kind = "repair"
  BY RightRuns DEF DriftSteps, Fits, StepsOf, Commands
<1>2. AimsRight(command[c])' /\ Settles(cmd)
  BY <1>1 DEF AimsRight, Settles, BeforeCommit, DriftSteps, SameTask, SameGoal, registryVars, Owns
<1>3. PlanFits(command[c])'
  BY <1>1 DEF PlanFits, BeforeStaging, DriftSteps, SameTask, SameGoal, Shows
<1>4. Behind(command[c])'
  BY <1>1 DEF Behind, Left, BeforeStaging, DriftSteps, SameTask
<1>5. Marked(command[c])' /\ RowsFit(command[c])'
  BY <1>1 DEF Marked, MarkerWritten, RowsFit, DriftSteps, SameTask
<1>. QED BY <1>2, <1>3, <1>4, <1>5 DEF RunsRight

(* Repair replaces whatever is live in place of an accepted projection.    *)
LEMMA DriftRight ==
  ASSUME RightInv, NEW c \in Client,
         RepairDrift(c) \/ DriftRetire(c) \/ DriftSwap(c) \/ DriftDiscard(c)
  PROVE  /\ Busy(c)' => RunsRight(command[c])'
         /\ LiveMoves(c) /\ UNCHANGED <<registryVars, marker>>
<1> DEFINE cmd == command[c]
           op == cmd.operation
<1>1. /\ cmd.step \in DriftSteps /\ cmd.step # "none"
      /\ UNCHANGED <<registryVars, marker, touched>>
  BY DEF RepairDrift, DriftRetire, DriftSwap, DriftDiscard, Held, At, DriftSteps
<1>2. /\ AimsRight(cmd) /\ PlanFits(cmd) /\ StagedFits(cmd) /\ Fits(cmd) /\ cmd.kind = "repair"
      /\ cmd.todo \subseteq Package /\ cmd.hand \subseteq Package
      /\ LifecycleInv /\ FilesTypeOK /\ cmd \in Running /\ command \in CommandType
      /\ \A n \in Package : cmd.next[n] \in Digest \cup {NoDigest}
  BY <1>1, RightRuns, BusyRuns DEF Fits, StepsOf, Commands, DriftSteps, Content
<1>3. CASE RepairDrift(c)
  <2>1. PICK n \in cmd.todo :
          /\ cmd.step = "drift"
          /\ SameTask(c) /\ SameGoal(c)
          /\ IF Drifted(n, cmd.next)
               THEN /\ command'[c].step = "driftRetire" /\ command'[c].hand = {n}
                    /\ command'[c].operation \in OperationId
                    /\ FreshId(command'[c].operation)
                    /\ StageContainer(command'[c].operation, n, cmd.next[n])
               ELSE /\ command'[c].step = "drift" /\ command'[c].hand = cmd.hand
                    /\ command'[c].operation = op
                    /\ UNCHANGED staging
          /\ UNCHANGED live
    BY <1>2, <1>3, RepairDriftDoes
  <2>2. CASE Drifted(n, cmd.next)
    <3> DEFINE new == command'[c].operation
    <3>1. /\ StagingOnlyAt(new, n) /\ new \in OperationId
          /\ staging'[new][n] # NoContainer
          /\ staging'[new][n].projection = cmd.next[n] /\ staging'[new][n].retired = NoDigest
      BY <1>1, <1>2, <2>1, <2>2, StageContainerStages
    <3>2. \A m \in Package : staging[new][m] = NoContainer
      BY <2>1, <2>2 DEF FreshId
    <3>3. \A m \in Package : m # n => staging'[new][m] = NoContainer
      BY <3>1, <3>2 DEF StagingOnlyAt
    <3>4. StagedFits(command[c])'
      BY <1>2, <2>1, <3>1, <3>3 DEF StagedFits, Holds, SameTask, SameGoal
    <3>5. NothingAside
      BY <3>1 DEF NothingAside, StagingOnlyAt
    <3>6. /\ command'[c].step = "driftRetire" /\ command'[c].hand = {n}
          /\ cmd.next[n] # NoDigest /\ live'[n] # cmd.next[n]
      BY <2>1, <2>2 DEF Drifted, Shows
    <3>7. RunsRight(command[c])'
      BY <1>1, <2>1, <3>4, <3>6, DriftStays DEF DriftSteps
    <3>. QED BY <1>1, <2>1, <3>5, <3>7 DEF LiveMoves
  <2>3. CASE ~Drifted(n, cmd.next)
    <3>1. StagedFits(command[c])' /\ command'[c].step = "drift"
      BY <2>1, <2>3 DEF StagedFits, StagingSteps
    <3>2. RunsRight(command[c])'
      BY <1>1, <1>2, <2>1, <2>3, <3>1, DriftStays DEF DriftSteps, PlanFits
    <3>. QED BY <1>1, <2>1, <2>3, <3>2, StagingStays DEF LiveMoves
  <2>. QED BY <2>2, <2>3
<1>4. CASE DriftRetire(c)
  <2>1. PICK n \in cmd.hand :
          IF Missing(n)
            THEN RemoveContainer(op, n) /\ Return(c) /\ UNCHANGED live
            ELSE /\ Retire(op, n)
                 /\ command' = [command EXCEPT ![c].step = "driftSwap"]
    BY <1>4 DEF DriftRetire
  <2>2. cmd.step = "driftRetire" /\ op \in OperationId
    BY <1>2, <1>4 DEF DriftRetire, At, Fits, OperationSteps
  <2>3. CASE Missing(n)
    <3>1. command'[c] = Idle
      BY <1>2, <2>1, <2>3, ReturnMoves DEF LifecycleInv, TypeOK
    <3>2. StagingOnlyAt(op, n) /\ staging'[op][n] = NoContainer
      BY <1>2, <2>1, <2>2, <2>3, RemoveContainerRemoves
    <3>3. NothingAside
      BY <3>2 DEF NothingAside, StagingOnlyAt
    <3>. QED BY <1>1, <2>1, <2>3, <3>1, <3>3 DEF LiveMoves, Busy
  <2>4. CASE ~Missing(n)
    <3>1. /\ SameTask(c) /\ SameGoal(c) /\ command'[c].step = "driftSwap"
          /\ command'[c].hand = cmd.hand /\ command'[c].operation = op
      BY <1>2, <2>1, <2>4, DriftStepMoves DEF Steps
    <3>2. /\ StagingOnlyAt(op, n) /\ LiveOnlyAt(n) /\ live'[n] = NoDigest
          /\ staging[op][n] # NoContainer /\ staging'[op][n] # NoContainer
          /\ staging'[op][n].projection = staging[op][n].projection
          /\ staging'[op][n].retired = live[n]
      BY <1>1, <1>2, <2>1, <2>2, <2>4, RetireKeeps
    <3>3. StagedFits(command[c])'
      <4> SUFFICES ASSUME NEW m \in Package, staging'[op][m] # NoContainer,
                          staging'[op][m].projection # NoDigest
                   PROVE  staging'[op][m].projection = cmd.next[m]
        BY <1>2, <3>1 DEF StagedFits, Holds, SameTask, SameGoal
      <4>1. staging[op][m] # NoContainer /\ staging'[op][m].projection = staging[op][m].projection
        BY <2>2, <3>2 DEF StagingOnlyAt
      <4>. QED BY <1>2, <2>2, <4>1 DEF StagedFits, StagingSteps, Holds
    <3>4. RunsRight(command[c])' /\ Settles(cmd)
      BY <1>1, <1>2, <3>1, <3>3, DriftStays DEF DriftSteps, PlanFits
    <3>5. AsideBut(n)
      BY <3>2 DEF AsideBut, StagingOnlyAt
    <3>6. live[n] # NoDigest /\ live[n] # cmd.next[n]
      BY <1>2, <2>2, <2>4 DEF PlanFits, Missing, Shows
    <3>. QED BY <1>1, <1>2, <3>2, <3>4, <3>5, <3>6 DEF LiveMoves, TakesAway
  <2>. QED BY <2>3, <2>4
<1>5. CASE DriftSwap(c)
  <2>1. PICK n \in cmd.hand : Activate(op, n)
    BY <1>5 DEF DriftSwap
  <2>2. /\ cmd.step = "driftSwap" /\ op \in OperationId
        /\ command' = [command EXCEPT ![c].step = "driftDiscard"]
    BY <1>2, <1>5 DEF DriftSwap, At, Fits, OperationSteps
  <2>3. /\ SameTask(c) /\ SameGoal(c) /\ command'[c].step = "driftDiscard"
        /\ command'[c].hand = cmd.hand /\ command'[c].operation = op
    BY <1>2, <2>2, DriftStepMoves DEF Steps
  <2>4. /\ StagingOnlyAt(op, n) /\ LiveOnlyAt(n) /\ Holds(op, n) /\ live[n] = NoDigest
        /\ live'[n] = staging[op][n].projection
        /\ staging[op][n] # NoContainer
        /\ staging'[op][n].projection = NoDigest
        /\ staging'[op][n].retired = staging[op][n].retired
    BY <1>1, <1>2, <2>1, <2>2, ActivateShows DEF Holds
  <2>5. StagedFits(command[c])'
    <3> SUFFICES ASSUME NEW m \in Package, staging'[op][m] # NoContainer,
                        staging'[op][m].projection # NoDigest
                 PROVE  staging'[op][m].projection = cmd.next[m]
      BY <1>2, <2>3 DEF StagedFits, Holds, SameTask, SameGoal
    <3>1. staging'[op][m] = staging[op][m]
      BY <2>2, <2>4 DEF StagingOnlyAt
    <3>. QED BY <1>2, <2>2, <3>1 DEF StagedFits, StagingSteps, Holds
  <2>6. RunsRight(command[c])' /\ Settles(cmd)
    BY <1>1, <1>2, <2>3, <2>5, DriftStays DEF DriftSteps, PlanFits
  <2>7. live'[n] = cmd.next[n] /\ cmd.next[n] # NoDigest
    BY <1>2, <2>2, <2>4 DEF StagedFits, StagingSteps, Holds
  <2>8. NothingAside
    BY <2>4 DEF NothingAside, StagingOnlyAt
  <2>. QED BY <1>1, <1>2, <2>4, <2>6, <2>7, <2>8 DEF LiveMoves, ShowsNext
<1>6. CASE DriftDiscard(c)
  <2>1. /\ cmd.step = "driftDiscard" /\ op \in OperationId
        /\ \E n \in cmd.hand : RemoveContainer(op, n)
        /\ SameTask(c) /\ SameGoal(c)
        /\ command'[c].step = "drift" /\ command'[c].hand = {}
        /\ UNCHANGED live
    BY <1>2, <1>6, DriftDiscardDoes
  <2>2. PICK n \in cmd.hand : RemoveContainer(op, n)
    BY <2>1
  <2>3. StagingOnlyAt(op, n) /\ staging'[op][n] = NoContainer
    BY <1>2, <2>1, <2>2, RemoveContainerRemoves
  <2>4. NothingAside
    BY <2>3 DEF NothingAside, StagingOnlyAt
  <2>5. StagedFits(command[c])'
    BY <2>1 DEF StagedFits, StagingSteps
  <2>6. RunsRight(command[c])'
    BY <1>1, <2>1, <2>5, DriftStays DEF DriftSteps
  <2>. QED BY <1>1, <2>1, <2>4, <2>6 DEF LiveMoves
<1>. QED BY <1>3, <1>4, <1>5, <1>6

(* A second rename that fails puts back what the first one took away.      *)
LEMMA FailingRight ==
  ASSUME RightInv, NEW c \in Client, ActivationFails(c) \/ DriftSwapFails(c)
  PROVE  command'[c] = Idle /\ LiveMoves(c) /\ UNCHANGED <<registryVars, marker>>
<1> DEFINE cmd == command[c]
           op == cmd.operation
<1>1. /\ cmd.step \in {"swap", "driftSwap"} /\ cmd.step # "none" /\ Return(c)
      /\ UNCHANGED <<registryVars, marker>>
  BY DEF ActivationFails, DriftSwapFails, MaySwap, At
<1>2. /\ AimsRight(cmd) /\ cmd.kind \in Commands /\ cmd.step \in StepsOf(cmd.kind)
      /\ cmd.hand \subseteq Package /\ FilesTypeOK /\ op \in OperationId
      /\ command \in CommandType /\ LockTypeOK /\ LifecycleInv
  BY <1>1, RightRuns, BusyRuns DEF Fits, OperationSteps
<1>3. command'[c] = Idle
  BY <1>1, <1>2, ReturnMoves
<1>4. Settles(cmd)
  BY <1>1, <1>2 DEF Settles, AimsRight, AfterCommit, StepsOf, Commands, DriftSteps
<1>5. CASE UNCHANGED <<live, staging>>
  BY <1>1, <1>3, <1>5, StagingStays DEF LiveMoves
<1>6. ASSUME NEW n \in cmd.hand,
             LiveOnlyAt(n), live[n] = NoDigest, live'[n] = staging[op][n].retired,
             staging[op][n] # NoContainer, NothingAside
      PROVE  command'[c] = Idle /\ LiveMoves(c) /\ UNCHANGED <<registryVars, marker>>
  <2>1. PutsBack(n)
    BY <1>2, <1>6 DEF PutsBack
  <2>. QED BY <1>1, <1>2, <1>3, <1>4, <1>6, <2>1 DEF LiveMoves
<1>7. CASE ActivationFails(c)
  <2>1. PICK n \in cmd.hand :
          IF staging[op][n] # NoContainer /\ Missing(n)
            THEN Reinstate(op, n)
            ELSE UNCHANGED <<live, staging>>
    BY <1>7 DEF ActivationFails
  <2>2. CASE Reinstate(op, n)
    <3>1. /\ StagingOnlyAt(op, n) /\ LiveOnlyAt(n)
          /\ live[n] = NoDigest /\ live'[n] = staging[op][n].retired
          /\ staging[op][n] # NoContainer
          /\ staging'[op][n].retired = NoDigest
      BY <1>1, <1>2, <2>2, ReinstatePutsBack
    <3>2. NothingAside
      BY <3>1 DEF NothingAside, StagingOnlyAt
    <3>. QED BY <1>6, <3>1, <3>2
  <2>. QED BY <1>5, <2>1, <2>2
<1>8. CASE DriftSwapFails(c)
  <2>1. CASE \E n \in {m \in cmd.hand : Missing(m) /\ staging[op][m] # NoContainer} :
               /\ live' = [live EXCEPT ![n] = staging[op][n].retired]
               /\ RemoveContainer(op, n)
    <3>1. PICK n \in cmd.hand :
            /\ Missing(n) /\ staging[op][n] # NoContainer
            /\ live' = [live EXCEPT ![n] = staging[op][n].retired]
            /\ RemoveContainer(op, n)
      BY <2>1
    <3>2. StagingOnlyAt(op, n) /\ staging'[op][n] = NoContainer
      BY <1>2, <3>1, RemoveContainerRemoves
    <3>3. NothingAside
      BY <3>2 DEF NothingAside, StagingOnlyAt
    <3>4. LiveOnlyAt(n) /\ live'[n] = staging[op][n].retired /\ live[n] = NoDigest
      BY <1>2, <3>1 DEF FilesTypeOK, LiveOnlyAt, Missing
    <3>. QED BY <1>6, <3>1, <3>3, <3>4
  <2>. QED BY <1>5, <1>8, <2>1 DEF DriftSwapFails
<1>. QED BY <1>7, <1>8

(* Staging, cleaning up and writing manifests move nothing in or out.      *)
LEMMA ContainersMoveNothing ==
  ASSUME RightInv, NEW c \in Client,
         \/ StageProjection(c) \/ WriteStageManifest(c) \/ WriteRemovalManifest(c)
         \/ UndoStaging(c) \/ DiscardStaging(c) \/ CleanPending(c)
  PROVE  LiveMoves(c) /\ UNCHANGED marker
<1> DEFINE cmd == command[c]
           op == cmd.operation
<1>1. /\ cmd.step \in {"stage", "manifest", "removals", "undo", "discard", "cleaning"}
      /\ cmd.step # "none" /\ UNCHANGED <<live, marker>>
  BY DEF StageProjection, WriteStageManifest, WriteRemovalManifest, UndoStaging,
         DiscardStaging, CleanPending, Held, At
<1>2. /\ FilesTypeOK /\ op \in OperationId
      /\ cmd.todo \subseteq Package /\ cmd.hand \subseteq Package
      /\ \A n \in Package : /\ cmd.next[n] \in Digest \cup {NoDigest}
                            /\ cmd.current[n] \in Digest \cup {NoDigest}
  BY <1>1, RightRuns, BusyRuns DEF Fits, OperationSteps, Content
<1>3. \/ UNCHANGED staging
      \/ \E n \in Package :
           \/ StageContainer(op, n, cmd.next[n])
           \/ WriteManifest(op, n, "stage", cmd.current[n])
           \/ WriteManifest(op, n, "remove", cmd.current[n])
           \/ RemoveContainer(op, n)
  BY <1>2 DEF StageProjection, WriteStageManifest, WriteRemovalManifest, UndoStaging,
         DiscardStaging, CleanPending
<1> HIDE DEF op
<1>4. ASSUME NEW n \in Package,
             \/ StageContainer(op, n, cmd.next[n])
             \/ WriteManifest(op, n, "stage", cmd.current[n])
             \/ WriteManifest(op, n, "remove", cmd.current[n])
             \/ RemoveContainer(op, n)
      PROVE  NothingAside
  <2>1. /\ StagingOnlyAt(op, n)
        /\ staging'[op][n] # NoContainer =>
             \/ staging'[op][n].retired = NoDigest
             \/ staging[op][n] # NoContainer /\ staging'[op][n].retired = staging[op][n].retired
    <3>1. CASE StageContainer(op, n, cmd.next[n])
      BY <1>1, <1>2, <3>1, StageContainerStages
    <3>2. CASE WriteManifest(op, n, "stage", cmd.current[n])
      BY <1>1, <1>2, <3>2, WriteManifestKeeps
    <3>3. CASE WriteManifest(op, n, "remove", cmd.current[n])
      BY <1>1, <1>2, <3>3, WriteManifestKeeps
    <3>4. CASE RemoveContainer(op, n)
      BY <1>1, <1>2, <3>4, RemoveContainerRemoves
    <3>. QED BY <1>4, <3>1, <3>2, <3>3, <3>4
  <2>. QED BY <2>1 DEF NothingAside, StagingOnlyAt
<1>. QED BY <1>1, <1>3, <1>4, StagingStays DEF LiveMoves

(* The marker is written when nothing is left to do, and says so.          *)
LEMMA MarkerRight ==
  ASSUME RightInv, NEW c \in Client,
         SyncMarker(c) \/ ObserveLocation(c) \/ RefreshObservations(c)
  PROVE  /\ Busy(c)' => RunsRight(command[c])'
         /\ LiveMoves(c)
         /\ SyncMarker(c) =>
              /\ marker'.packages = command[c].next
              /\ \A n \in Package \ touched :
                   command[c].next[n] # NoDigest => live[n] = command[c].next[n]
         /\ ~SyncMarker(c) => UNCHANGED marker
<1> DEFINE cmd == command[c]
<1>1. /\ cmd.step \in {"marker", "location", "observations"} /\ cmd.step # "none"
      /\ UNCHANGED <<live, staging, touched>>
  BY DEF SyncMarker, MayWriteMarker, ObserveLocation, RefreshObservations, Held, At, fileVars
<1>2. /\ AimsRight(cmd) /\ PlanFits(cmd) /\ Behind(cmd) /\ Marked(cmd)
      /\ RowsFit(cmd) /\ cmd.step \in StepsOf(cmd.kind) /\ cmd.kind \in Commands
      /\ LifecycleInv /\ RegistryInv /\ cmd \in Running /\ command \in CommandType
      /\ cmd.target \in TargetId
  BY <1>1, RightRuns, BusyRuns DEF Fits
<1>3. LiveMoves(c)
  BY <1>1, StagingStays DEF LiveMoves
<1>4. Settles(cmd) /\ cmd.step \notin DriftSteps /\ Left(cmd) = {}
  BY <1>1, <1>2 DEF Settles, AimsRight, Left, BeforeStaging, AfterCommit, StepsOf, Commands,
     DriftSteps
<1>5. /\ Owns(cmd.target) /\ cmd.next = resolvedPackages[cmd.target]
      /\ cmd.generation = generation[cmd.target]
      /\ \A n \in Package \ touched : cmd.next[n] # NoDigest => live[n] = cmd.next[n]
  BY <1>2, <1>4 DEF AimsRight, Behind, Shows
<1>6. CASE SyncMarker(c)
  <2> DEFINE step == CASE cmd.kind = "sync" -> "location"
                       [] cmd.kind = "repair" -> "done"
                       [] OTHER -> "clean"
  <2>1. /\ cmd.step = "marker" /\ WriteMarker(cmd.target, cmd.generation, cmd.next)
        /\ GoTo(c, step, {}) /\ UNCHANGED registryVars
    BY <1>6 DEF SyncMarker, MayWriteMarker, At
  <2>2. step \in Steps /\ step \in {"location", "done", "clean"}
        /\ (cmd.kind = "sync" <=> step = "location") /\ (cmd.kind = "repair" <=> step = "done")
    BY DEF Steps
  <2> HIDE DEF step
  <2>3. /\ SameTask(c) /\ SameGoal(c) /\ command'[c].step = step /\ command'[c].hand = {}
        /\ command'[c].existed = cmd.existed
    BY <1>2, <2>1, <2>2, GoToMoves
  <2>4. marker' = [target |-> cmd.target, generation |-> cmd.generation, packages |-> cmd.next]
    BY <2>1 DEF WriteMarker
  <2>5. AimsRight(command[c])'
    BY <1>2, <1>5, <2>1, <2>2, <2>3 DEF AimsRight, BeforeCommit, SameTask, SameGoal,
       registryVars, Owns
  <2>6. PlanFits(command[c])'
    BY <1>1, <1>2, <2>2, <2>3 DEF PlanFits, BeforeStaging, SameTask, SameGoal, Shows
  <2>7. StagedFits(command[c])'
    BY <2>2, <2>3 DEF StagedFits, StagingSteps
  <2>8. Behind(command[c])'
    BY <1>1, <1>5, <2>3 DEF Behind, SameGoal, Shows
  <2>9. Marked(command[c])'
    BY <2>3, <2>4 DEF Marked, SameTask, SameGoal
  <2>10. RowsFit(command[c])'
    BY <1>2, <2>1, <2>2, <2>3 DEF RowsFit, PendingOf, SameTask, registryVars
  <2>. QED BY <1>3, <1>5, <1>6, <2>4, <2>5, <2>6, <2>7, <2>8, <2>9, <2>10 DEF RunsRight
<1>7. CASE ObserveLocation(c)
  <2>1. /\ cmd.step = "location" /\ cmd.kind = "sync"
        /\ ObserveTargetLocation(cmd.target, TargetRoot, cmd.generation)
        /\ SameTask(c) /\ command'[c].generation = cmd.generation
        /\ command'[c].next = cmd.next
        /\ command'[c].step = "observations" /\ command'[c].hand = cmd.hand
        /\ UNCHANGED <<fileVars, touched>>
    BY <1>2, <1>5, <1>7, ObserveLocationDoes
  <2>2. /\ UNCHANGED <<generation, resolvedPackages, pendingOperations>>
        /\ \E row \in targetLocations' : row.path = TargetRoot /\ row.target = cmd.target
    <3>1. Preserves(c)
      BY <1>2, <1>7, MarkerStepFits
    <3>. QED BY <1>2, <1>5, <2>1, <3>1
             DEF ObserveTargetLocation, Preserves, RegistrySteps, Owns
  <2>3. AimsRight(command[c])'
    BY <1>2, <1>5, <2>1, <2>2 DEF AimsRight, BeforeCommit, SameTask, Owns
  <2>4. PlanFits(command[c])'
    BY <1>1, <1>2, <2>1 DEF PlanFits, BeforeStaging, SameTask, Shows
  <2>5. StagedFits(command[c])'
    BY <2>1 DEF StagedFits, StagingSteps
  <2>6. Behind(command[c])'
    BY <1>1, <1>5, <2>1 DEF Behind, Shows
  <2>7. Marked(command[c])'
    BY <1>2, <2>1 DEF Marked, MarkerWritten, SameTask, fileVars
  <2>8. RowsFit(command[c])'
    BY <1>2, <2>1, <2>2 DEF RowsFit, PendingOf, SameTask
  <2>9. ~SyncMarker(c)
    BY <2>1 DEF SyncMarker, MayWriteMarker, At
  <2>. QED BY <1>3, <2>1, <2>3, <2>4, <2>5, <2>6, <2>7, <2>8, <2>9 DEF RunsRight, fileVars
<1>8. CASE RefreshObservations(c)
  <2>1. /\ cmd.step = "observations" /\ UNCHANGED <<fileVars, touched>>
    BY <1>8 DEF RefreshObservations, Held, At
  <2>2. ~SyncMarker(c) /\ UNCHANGED marker
    BY <2>1 DEF SyncMarker, MayWriteMarker, At, fileVars
  <2>3. SUFFICES ASSUME command'[c] # Idle
                 PROVE  RunsRight(command[c])'
    BY <1>3, <2>2 DEF Busy
  <2>4. /\ ReplaceDependencyObservations(cmd.target, "software", cmd.next)
        /\ GoTo(c, "done", {})
    BY <1>2, <1>8, <2>3, ReturnMoves DEF RefreshObservations, LifecycleInv, TypeOK
  <2>5. /\ SameTask(c) /\ SameGoal(c) /\ command'[c].step = "done" /\ command'[c].hand = {}
        /\ command'[c].existed = cmd.existed
    BY <1>2, <2>4, GoToMoves DEF Steps
  <2>6. UNCHANGED <<generation, resolvedPackages, pendingOperations, targetLocations>>
    BY <2>4 DEF ReplaceDependencyObservations
  <2>7. cmd.kind = "sync"
    BY <1>2, <2>1 DEF StepsOf, Commands, DriftSteps
  <2>8. AimsRight(command[c])'
    BY <1>2, <1>5, <2>5, <2>6 DEF AimsRight, BeforeCommit, SameTask, SameGoal, Owns
  <2>9. PlanFits(command[c])'
    BY <1>1, <1>2, <2>5 DEF PlanFits, BeforeStaging, SameTask, SameGoal, Shows
  <2>10. StagedFits(command[c])'
    BY <2>5 DEF StagedFits, StagingSteps
  <2>11. Behind(command[c])'
    BY <1>1, <1>5, <2>5 DEF Behind, SameGoal, Shows
  <2>12. Marked(command[c])'
    BY <1>2, <2>1, <2>5, <2>7 DEF Marked, MarkerWritten, SameTask, SameGoal, fileVars
  <2>13. RowsFit(command[c])'
    BY <1>2, <2>1, <2>5, <2>6, <2>7 DEF RowsFit, PendingOf, SameTask
  <2>. QED BY <2>8, <2>9, <2>10, <2>11, <2>12, <2>13 DEF RunsRight
<1>. QED BY <1>6, <1>7, <1>8

(* A new command has all its work before it.                               *)
LEMMA StartRight ==
  ASSUME RightInv, NEW c \in Client, StartStep(c)
  PROVE  /\ RunsRight(command[c])' /\ LiveMoves(c)
         /\ UNCHANGED <<registryVars, marker>>
<1>1. LifecycleInv /\ RegistryInv
  BY DEF RightInv, LifecycleInv
<1>2. UNCHANGED <<registryVars, fileVars>> /\ touched' = {} /\ command[c] = Idle
  <2>1. CASE StartInstall(c)
    BY <1>1, <2>1, StartInstallDoes
  <2>2. CASE StartChange(c)
    BY <1>1, <2>2, StartChangeDoes
  <2>3. CASE StartRecover(c)
    BY <1>1, <2>3, StartRecoverDoes
  <2>4. CASE StartSync(c) \/ StartRepair(c)
    BY <1>1, <2>4, StartSyncDoes
  <2>. QED BY <2>1, <2>2, <2>3, <2>4 DEF StartStep
<1>3. LiveMoves(c) /\ UNCHANGED <<registryVars, marker>>
  BY <1>2, StagingStays DEF LiveMoves, fileVars
<1>4. CASE StartInstall(c)
  <2>1. PICK t \in TargetId, next \in Content :
          /\ generation[t] = NoRow
          /\ command'[c].kind = "install" /\ command'[c].step = "pending"
          /\ command'[c].target = t /\ command'[c].next = next
          /\ command'[c].current = NoContent
          /\ command'[c].stages = StagesOf(NoContent, next)
          /\ command'[c].removals = {} /\ command'[c].hand = {}
    BY <1>1, <1>4, StartInstallDoes
  <2>2. resolvedPackages[t] = NoContent
    BY <1>1, <2>1 DEF RegistryInv, TablesConsistent, ReferencesResolve, Accepted, NoRow
  <2>3. AimsRight(command[c])'
    BY <1>2, <2>1, <2>2 DEF AimsRight, Settles, AfterCommit, registryVars
  <2>4. PlanFits(command[c])'
    BY <1>2, <2>1 DEF PlanFits, StagesOf, Shows, fileVars
  <2>5. Behind(command[c])'
    BY <1>2, <2>1 DEF Behind, Left, BeforeStaging, StagesOf, Shows, fileVars
  <2>6. StagedFits(command[c])' /\ Marked(command[c])' /\ RowsFit(command[c])'
    BY <2>1 DEF StagedFits, StagingSteps, Marked, MarkerWritten, RowsFit
  <2>. QED BY <1>3, <2>3, <2>4, <2>5, <2>6 DEF RunsRight
<1>5. CASE StartChange(c)
  <2>1. PICK t \in TargetId, next \in Content :
          /\ command'[c].kind = "change" /\ command'[c].step = "pending"
          /\ command'[c].target = t /\ command'[c].next = next
          /\ command'[c].current = resolvedPackages[t]
          /\ command'[c].stages = StagesOf(resolvedPackages[t], next)
          /\ command'[c].removals = RemovalsOf(resolvedPackages[t], next)
          /\ command'[c].hand = {}
    BY <1>1, <1>5, StartChangeDoes
  <2>2. AimsRight(command[c])'
    BY <1>2, <2>1 DEF AimsRight, Settles, AfterCommit, registryVars
  <2>3. PlanFits(command[c])'
    BY <1>2, <2>1 DEF PlanFits, StagesOf, RemovalsOf, Shows, fileVars
  <2>4. Behind(command[c])'
    BY <1>2, <2>1 DEF Behind, Left, BeforeStaging, StagesOf, Shows, fileVars
  <2>5. StagedFits(command[c])' /\ Marked(command[c])' /\ RowsFit(command[c])'
    BY <2>1 DEF StagedFits, StagingSteps, Marked, MarkerWritten, RowsFit
  <2>. QED BY <1>3, <2>2, <2>3, <2>4, <2>5 DEF RunsRight
<1>6. CASE StartRecover(c)
  <2>1. PICK row \in pendingOperations :
          /\ command'[c].kind = "recover" /\ command'[c].target = row.target
          /\ command'[c].removals = {} /\ command'[c].stages = {} /\ command'[c].hand = {}
          /\ command'[c].existed = {}
          /\ IF generation[row.target] = row.base
               THEN command'[c].step = "clean" /\ command'[c].generation = 0
               ELSE /\ generation[row.target] >= 1
                    /\ Owns(row.target) /\ Recoverable(row.target, row)
                    /\ command'[c].step = "converge"
                    /\ command'[c].generation = generation[row.target]
                    /\ command'[c].next = resolvedPackages[row.target]
                    /\ command'[c].todo = row.actions
    BY <1>1, <1>6, StartRecoverDoes
  <2>2. AimsRight(command[c])'
    BY <1>2, <2>1 DEF AimsRight, Settles, registryVars, Owns
  <2>3. PlanFits(command[c])' /\ StagedFits(command[c])' /\ RowsFit(command[c])'
        /\ Marked(command[c])'
    BY <2>1 DEF PlanFits, BeforeStaging, StagedFits, StagingSteps, RowsFit, Marked, MarkerWritten
  <2>4. Behind(command[c])'
    BY <1>2, <2>1 DEF Behind, Left, BeforeStaging, Recoverable, Shows, fileVars
  <2>. QED BY <1>3, <2>2, <2>3, <2>4 DEF RunsRight
<1>7. CASE StartSync(c) \/ StartRepair(c)
  <2>1. PICK t \in TargetId :
          /\ Owns(t)
          /\ command'[c].target = t
          /\ command'[c].stages = {} /\ command'[c].removals = {} /\ command'[c].hand = {}
          /\ \/ command'[c].kind = "sync" /\ command'[c].step = "observe"
             \/ /\ command'[c].kind = "repair" /\ command'[c].step = "drift"
                /\ command'[c].next = resolvedPackages[t]
    BY <1>1, <1>7, StartSyncDoes
  <2>2. AimsRight(command[c])'
    BY <1>2, <2>1 DEF AimsRight, Settles, DriftSteps, registryVars, Owns
  <2>3. PlanFits(command[c])' /\ StagedFits(command[c])' /\ RowsFit(command[c])'
        /\ Marked(command[c])' /\ Behind(command[c])'
    BY <2>1 DEF PlanFits, BeforeStaging, StagedFits, StagingSteps, RowsFit, Marked, MarkerWritten,
       Behind, Left, DriftSteps
  <2>. QED BY <1>3, <2>2, <2>3 DEF RunsRight
<1>. QED BY <1>4, <1>5, <1>6, <1>7 DEF StartStep

(* The steps that plan, and those between two loops, leave the files alone.*)
LEMMA PlanningMovesNothing ==
  ASSUME NEW c \in Client,
         \/ BeginPending(c) \/ NothingPending(c) \/ Observe(c) \/ ReadPending(c)
         \/ CommitAcceptedState(c)
         \/ StagingFails(c) \/ StagingDone(c) \/ RemovalManifestsDone(c) \/ CommitRefused(c)
         \/ RemovalsDone(c) \/ ActivationsDone(c) \/ Converged(c) \/ DriftRepaired(c)
         \/ PendingConflict(c) \/ LiveConflict(c) \/ AcceptedStateMismatch(c)
         \/ RemovalRefused(c) \/ RetireFails(c)
         \/ ObserveFails(c) \/ RecoverConflict(c) \/ Done(c) \/ LockIsLost(c) \/ Stop(c)
  PROVE  LiveMoves(c) /\ UNCHANGED marker
<1>1. UNCHANGED fileVars
  BY DEF BeginPending, NothingPending, Observe, ReadPending, CommitAcceptedState, StagingFails,
         StagingDone, RemovalManifestsDone, CommitRefused, RemovalsDone, ActivationsDone,
         Converged, DriftRepaired, PendingConflict, LiveConflict, AcceptedStateMismatch,
         RemovalRefused, RetireFails, ObserveFails, RecoverConflict, Done, LockIsLost, Stop
<1>. QED BY <1>1, StagingStays DEF LiveMoves, fileVars

(* What a step of a command does, seen from the directory.                 *)
StepRight(c) ==
  /\ Busy(c)' => RunsRight(command[c])'
  /\ LiveMoves(c)
  /\ marker' # marker =>
       \A n \in Package \ touched :
         marker'.packages[n] # NoDigest => live[n] = marker'.packages[n]

(* Every step of a command keeps its promises.                             *)
LEMMA CommandRuns ==
  ASSUME RightInv, NEW c \in Client,
         CommandStep(c) \/ StartStep(c) \/ LockIsLost(c) \/ Stop(c)
  PROVE  StepRight(c)
<1>1. CASE \/ BeginPending(c) \/ NothingPending(c) \/ Observe(c) \/ ReadPending(c)
           \/ CommitAcceptedState(c)
           \/ StagingFails(c) \/ StagingDone(c) \/ RemovalManifestsDone(c) \/ CommitRefused(c)
           \/ RemovalsDone(c) \/ ActivationsDone(c) \/ Converged(c) \/ DriftRepaired(c)
  <2>1. RunsRight(command[c])'
    BY <1>1, AnnouncingRight, ObserveRight, ReadPendingRight, CommitRight, LoopStepRight
  <2>. QED BY <1>1, <2>1, PlanningMovesNothing DEF StepRight
<1>2. CASE \/ PendingConflict(c) \/ LiveConflict(c) \/ AcceptedStateMismatch(c)
           \/ RemovalRefused(c) \/ RetireFails(c)
           \/ ObserveFails(c) \/ RecoverConflict(c) \/ Done(c) \/ LockIsLost(c) \/ Stop(c)
  <2>1. command'[c] = Idle
    BY <1>2, GivingUpFits DEF RightInv
  <2>. QED BY <1>2, <2>1, PlanningMovesNothing DEF StepRight, Busy
<1>3. CASE \/ StageProjection(c) \/ WriteStageManifest(c) \/ WriteRemovalManifest(c)
           \/ UndoStaging(c) \/ DiscardStaging(c) \/ CleanPending(c)
  BY <1>3, StagingRight, CleaningRight, ContainersMoveNothing DEF StepRight
<1>4. CASE \/ VerifyRemoval(c) \/ RecoverRemoval(c) \/ RecoverActivated(c)
           \/ VerifyCurrent(c) \/ RecoverActivation(c)
           \/ RemoveProjection(c) \/ ActivateNew(c) \/ ActivateRetired(c) \/ ActivateAtOnce(c)
           \/ RetireCurrent(c)
  BY <1>4, VerifyingRight, RemovalRight, ActivationRight, RetiringRight DEF StepRight
<1>5. CASE ActivationFails(c) \/ DriftSwapFails(c)
  BY <1>5, FailingRight DEF StepRight, Busy
<1>6. CASE RepairDrift(c) \/ DriftRetire(c) \/ DriftSwap(c) \/ DriftDiscard(c)
  BY <1>6, DriftRight DEF StepRight
<1>7. CASE SyncMarker(c) \/ ObserveLocation(c) \/ RefreshObservations(c)
  BY <1>7, MarkerRight DEF StepRight
<1>8. CASE StartStep(c)
  BY <1>8, StartRight DEF StepRight
<1>. QED BY <1>1, <1>2, <1>3, <1>4, <1>5, <1>6, <1>7, <1>8 DEF CommandStep, ReconcileStep

(* What the user does meanwhile, the command does not answer for.          *)
LEMMA UserEditRight ==
  ASSUME RightInv, UserEdit, NEW c \in Client, Busy(c)'
  PROVE  RunsRight(command[c])'
<1> DEFINE cmd == command[c]
<1>1. UNCHANGED <<registryVars, staging, marker, command>>
  BY DEF UserEdit
<1>2. RunsRight(cmd) /\ command'[c] = cmd /\ cmd \in Running
  BY <1>1 DEF Busy, RightInv, CommandsRunRight, LifecycleInv, TypeOK, CommandsTypeOK
<1>3. /\ AimsRight(cmd) /\ PlanFits(cmd) /\ StagedFits(cmd) /\ Behind(cmd) /\ Marked(cmd)
      /\ RowsFit(cmd)
      /\ \A n \in Package : /\ cmd.next[n] \in Digest \cup {NoDigest}
                            /\ cmd.current[n] \in Digest \cup {NoDigest}
      /\ cmd.stages \subseteq Package /\ cmd.hand \subseteq Package
  BY <1>2 DEF RunsRight, Running, Content
<1>4. PICK n \in Package, content \in {Foreign, NoDigest} :
        live' = [live EXCEPT ![n] = content] /\ touched' = touched \cup {n}
  BY DEF UserEdit
<1>5. /\ live \in [Package -> LiveContent]
      /\ \A m \in Package \ {n} : live'[m] = live[m]
      /\ live'[n] = content
  BY <1>4 DEF RightInv, LifecycleInv, TypeOK, FilesTypeOK
<1>6. content \notin Digest
  BY ForeignAssumption, NoDigestAssumption
<1>7. AimsRight(command[c])'
  BY <1>1, <1>2, <1>3 DEF AimsRight, registryVars, Owns
<1>8. PlanFits(command[c])'
  BY <1>2, <1>3, <1>5, <1>6 DEF PlanFits, Shows
<1>9. StagedFits(command[c])'
  BY <1>1, <1>2, <1>3 DEF StagedFits, Holds
<1>10. Behind(command[c])'
  BY <1>2, <1>3, <1>4, <1>5 DEF Behind, Shows
<1>11. Marked(command[c])' /\ RowsFit(command[c])'
  BY <1>1, <1>2, <1>3 DEF Marked, RowsFit, PendingOf, registryVars
<1>. QED BY <1>7, <1>8, <1>9, <1>10, <1>11 DEF RunsRight

(* A step of a command is that of a command at work, ...                   *)
LEMMA StepOfBusy ==
  ASSUME NEW c \in Client, CommandStep(c) \/ LockIsLost(c) \/ Stop(c)
  PROVE  Busy(c)
<1>1. CASE ReconcileStep(c)
  <2>1. command[c].step # "none"
    BY <1>1 DEF ReconcileStep, BeginPending, NothingPending, PendingConflict, StageProjection,
       WriteStageManifest, StagingFails, StagingDone, WriteRemovalManifest,
       RemovalManifestsDone, CommitAcceptedState, CommitRefused, UndoStaging, VerifyRemoval,
       RemoveProjection, RemovalRefused, RemovalsDone, ActivateNew, VerifyCurrent, RetireCurrent,
       ActivateAtOnce, RetireFails, ActivateRetired, ActivationFails, LiveConflict,
       ActivationsDone, DiscardStaging, AcceptedStateMismatch, ReadPending, CleanPending,
       Held, At, MayRetire, MaySwap
  <2>. QED BY <2>1, IdleIsNot DEF Busy
<1>2. CASE CommandStep(c) /\ ~ReconcileStep(c)
  <2>1. command[c].step # "none"
    BY <1>2 DEF CommandStep, Observe, ObserveFails, RepairDrift, DriftRepaired, DriftRetire,
       DriftSwap, DriftSwapFails, DriftDiscard, RecoverRemoval, RecoverActivated,
       RecoverActivation, RecoverConflict, Converged, SyncMarker, ObserveLocation,
       RefreshObservations, Done, Held, At, MayWriteMarker
  <2>. QED BY <2>1, IdleIsNot DEF Busy
<1>. QED BY <1>1, <1>2 DEF LockIsLost, Stop

(* ... and one that starts is at work from then on.                        *)
LEMMA StartedIsBusy ==
  ASSUME LifecycleInv, NEW c \in Client, StartStep(c)
  PROVE  Busy(c)' /\ UNCHANGED <<registryVars, fileVars>>
<1>1. command'[c] \in Running /\ UNCHANGED <<registryVars, fileVars>>
  <2>1. CASE StartInstall(c)
    BY <2>1, StartInstallDoes DEF MovesOn
  <2>2. CASE StartChange(c)
    BY <2>2, StartChangeDoes DEF MovesOn
  <2>3. CASE StartRecover(c)
    BY <2>3, StartRecoverDoes DEF MovesOn
  <2>4. CASE StartSync(c) \/ StartRepair(c)
    BY <2>4, StartSyncDoes DEF MovesOn
  <2>. QED BY <2>1, <2>2, <2>3, <2>4 DEF StartStep
<1>. QED BY <1>1, IdleIsNot DEF Busy

(* Only the steps that verify look at a name.                              *)
LEMMA OthersDoNotLook ==
  ASSUME LifecycleInv, NEW c \in Client,
         CommandStep(c) \/ StartStep(c) \/ LockIsLost(c) \/ Stop(c),
         ~(VerifyRemoval(c) \/ RecoverRemoval(c) \/ VerifyCurrent(c) \/ RecoverActivation(c))
  PROVE  Looked(c)' \subseteq Looked(c)
<1>1. command \in CommandType
  BY DEF LifecycleInv, TypeOK, CommandsTypeOK, CommandType
<1>2. ASSUME NEW step, NEW todo, GoTo(c, step, todo)
      PROVE  Looked(c)' = {}
  BY <1>1, <1>2 DEF GoTo, Looked, CommandType
<1>3. ASSUME NEW n, Ticked(c, n)
      PROVE  Looked(c)' = Looked(c)
  BY <1>1, <1>3 DEF Ticked, Looked, CommandType
<1>4. CASE \/ PendingConflict(c) \/ LiveConflict(c) \/ AcceptedStateMismatch(c)
           \/ RemovalRefused(c) \/ RetireFails(c)
           \/ ObserveFails(c) \/ RecoverConflict(c) \/ Done(c) \/ LockIsLost(c) \/ Stop(c)
           \/ ActivationFails(c) \/ DriftSwapFails(c)
  <2>1. Return(c)
    BY <1>4 DEF PendingConflict, LiveConflict, AcceptedStateMismatch, RemovalRefused, RetireFails,
       ObserveFails, RecoverConflict, Done, LockIsLost, Stop, ActivationFails, DriftSwapFails
  <2>. QED BY <1>1, <2>1, IdleIsNot DEF Return, Looked, CommandType
<1>5. CASE \/ StagingFails(c) \/ StagingDone(c) \/ RemovalManifestsDone(c) \/ CommitRefused(c)
           \/ RemovalsDone(c) \/ ActivationsDone(c) \/ Converged(c) \/ DriftRepaired(c)
           \/ WriteStageManifest(c) \/ RemoveProjection(c) \/ ActivateRetired(c)
           \/ ActivateAtOnce(c) \/ SyncMarker(c)
  <2>1. \E step, todo : GoTo(c, step, todo)
    BY <1>5 DEF StagingFails, StagingDone, RemovalManifestsDone, CommitRefused, RemovalsDone,
       ActivationsDone, Converged, DriftRepaired, WriteStageManifest, RemoveProjection,
       ActivateRetired, ActivateAtOnce, SyncMarker
  <2>. QED BY <1>2, <2>1
<1>6. CASE WriteRemovalManifest(c) \/ ActivateNew(c) \/ RecoverActivated(c)
  BY <1>3, <1>6 DEF WriteRemovalManifest, ActivateNew, RecoverActivated
<1>7. ASSUME command'[c].step \notin {"removing", "retire"}
      PROVE  Looked(c)' = {}
  BY <1>7 DEF Looked
<1>8. CASE BeginPending(c) \/ NothingPending(c) \/ CommitAcceptedState(c) \/ StageProjection(c)
           \/ RetireCurrent(c)
  <2>1. command'[c].step \in {"stage", "marker", "remove", "manifest", "swap"}
    <3>1. RetireCurrent(c) => command'[c].step = "swap"
      <4>1. RetireCurrent(c) => command[c].step = "retire"
        BY DEF RetireCurrent, MayRetire, At
      <4>. QED BY <4>1, BusyRuns, SwapFollows DEF RetireCurrent
    <3>2. BeginPending(c) => command'[c].step = "stage"
      BY BeginPendingDoes
    <3>3. NothingPending(c) => command'[c].step = "marker"
      BY NothingPendingDoes
    <3>4. StageProjection(c) => command'[c].step = "manifest"
      BY StageProjectionDoes
    <3>5. CommitAcceptedState(c) => command'[c].step = "remove"
      BY CommitDoes
    <3>. QED BY <1>8, <3>1, <3>2, <3>3, <3>4, <3>5
  <2>. QED BY <1>7, <2>1
<1>9. CASE UndoStaging(c) \/ DiscardStaging(c)
  <2>1. \/ \E n : Ticked(c, n)
        \/ Return(c)
        \/ GoTo(c, "marker", {})
    BY <1>9 DEF UndoStaging, DiscardStaging
  <2>2. Return(c) => Looked(c)' = {}
    BY <1>1, IdleIsNot DEF Return, Looked, CommandType
  <2>. QED BY <1>2, <1>3, <2>1, <2>2
<1>10. CASE ReadPending(c) \/ CleanPending(c)
  <2>1. \/ \E n : Ticked(c, n)
        \/ GoTo(c, AfterClean(c), {})
        \/ command'[c].step \in {"cleaning", "pending", "done"}
    <3>1. AfterClean(c) \in {"pending", "done"}
      BY DEF AfterClean
    <3>2. ReadPending(c) => \/ GoTo(c, AfterClean(c), {})
                            \/ command'[c].step = "cleaning"
      <4>1. ReadPending(c) /\ PendingOf(command[c].target) # {} => command'[c].step = "cleaning"
        BY ReadPendingDoes
      <4>. QED BY <4>1 DEF ReadPending
    <3>3. CleanPending(c) => \/ \E n : Ticked(c, n)
                             \/ command'[c].step \in {"cleaning", AfterClean(c)}
      BY CleanPendingDoes
    <3>. QED BY <1>10, <3>1, <3>2, <3>3
  <2>. QED BY <1>2, <1>3, <1>7, <2>1
<1>11. CASE \/ Observe(c) \/ RepairDrift(c) \/ DriftRetire(c) \/ DriftSwap(c) \/ DriftDiscard(c)
            \/ ObserveLocation(c) \/ RefreshObservations(c)
  <2>1. \/ \E n : Ticked(c, n)
        \/ Return(c)
        \/ GoTo(c, "done", {})
        \/ command'[c].step \in {"clean", "driftRetire", "driftSwap", "driftDiscard", "drift",
                                   "observations"}
    <3>1. Observe(c) => command'[c].step = "clean"
      BY ObserveDoes
    <3>2. RepairDrift(c) => \/ \E n : Ticked(c, n)
                            \/ command'[c].step \in {"driftRetire", "drift"}
      BY RepairDriftDoes
    <3>3. DriftRetire(c) => Return(c) \/ command'[c].step = "driftSwap"
      <4>1. DriftRetire(c) => command[c].step = "driftRetire"
        BY DEF DriftRetire, At
      <4>2. DriftRetire(c) => Return(c) \/ command' = [command EXCEPT ![c].step = "driftSwap"]
        BY DEF DriftRetire
      <4>. QED BY <4>1, <4>2, BusyRuns, DriftStepMoves DEF Steps
    <3>4. DriftSwap(c) \/ DriftDiscard(c) => command'[c].step \in {"driftDiscard", "drift"}
      <4>1. DriftSwap(c) => /\ command[c].step = "driftSwap"
                            /\ command' = [command EXCEPT ![c].step = "driftDiscard"]
        BY DEF DriftSwap, At
      <4>. QED BY <4>1, BusyRuns, DriftStepMoves, DriftDiscardDoes DEF Steps
    <3>5. ObserveLocation(c) => command'[c].step = "observations"
      BY ObserveLocationDoes
    <3>6. RefreshObservations(c) => Return(c) \/ GoTo(c, "done", {})
      BY DEF RefreshObservations
    <3>. QED BY <1>11, <3>1, <3>2, <3>3, <3>4, <3>5, <3>6
  <2>2. Return(c) => Looked(c)' = {}
    BY <1>1, IdleIsNot DEF Return, Looked, CommandType
  <2>. QED BY <1>2, <1>3, <1>7, <2>1, <2>2
<1>12. CASE StartStep(c)
  <2>1. command'[c].hand = {}
    BY <1>12, StartInstallDoes, StartChangeDoes, StartRecoverDoes, StartSyncDoes DEF StartStep
  <2>. QED BY <2>1 DEF Looked
<1>. QED
  BY <1>4, <1>5, <1>6, <1>8, <1>9, <1>10, <1>11, <1>12 DEF CommandStep, ReconcileStep

(* All names that a command has verified and is about to free.             *)
AllLooked ==
  UNION {command[d].hand : d \in {e \in Client : command[e].step \in {"removing", "retire"}}}

LEMMA LookedAtAll == \A n : n \in AllLooked <=> \E d \in Client : n \in Looked(d)
BY DEF AllLooked, Looked

(* A step of the lifecycle is one of a running command, or leaves registry *)
(* and files alone, or is an edit by the user.                             *)
Advances ==
  \/ /\ \E c \in Client : CommandStep(c) /\ StepRight(c) /\ Looks(c) /\ OthersWait(c)
     /\ UNCHANGED edits
  \/ UNCHANGED <<registryVars, fileVars, edits>> /\ AllLooked' \subseteq AllLooked
  \/ UserEdit

(* As long as one command runs at a time, the second invariant is kept.    *)
LEMMA RightInvStep ==
  ASSUME RightInv, OneAtATime, OneAtATime', [Next]_vars
  PROVE  RightInv' /\ Advances
<1>1. LifecycleInv /\ LifecycleInv'
  BY LifecycleInvStep DEF RightInv
<1>2. ASSUME NEW c \in Client, CommandStep(c) \/ StartStep(c) \/ LockIsLost(c) \/ Stop(c),
             UNCHANGED edits
      PROVE  RightInv' /\ Advances
  <2>1. StepRight(c)
    BY <1>2, CommandRuns
  <2>2. OthersWait(c)
    BY <1>1, <1>2, CommandStepFits, GivingUpFits DEF Preserves
  <2>3. Busy(c) \/ Busy(c)'
    BY <1>1, <1>2, StepOfBusy, StartedIsBusy
  <2>4. CommandsRunRight'
    <3> SUFFICES ASSUME NEW d \in Client, Busy(d)'
                 PROVE  RunsRight(command[d])'
      BY DEF CommandsRunRight
    <3>1. d # c => Busy(d)
      BY <2>2 DEF OthersWait, Busy
    <3>2. d = c
      BY <2>3, <3>1 DEF OneAtATime
    <3>. QED BY <2>1, <3>2 DEF StepRight
  <2>5. Looks(c)
    <3>1. CASE VerifyRemoval(c) \/ RecoverRemoval(c) \/ VerifyCurrent(c) \/ RecoverActivation(c)
      BY <3>1, VerifyingRight
    <3>2. CASE ~(VerifyRemoval(c) \/ RecoverRemoval(c) \/ VerifyCurrent(c) \/ RecoverActivation(c))
      BY <1>1, <1>2, <3>2, OthersDoNotLook DEF Looks
    <3>. QED BY <3>1, <3>2
  <2>6. ASSUME CommandStep(c)
        PROVE  Advances
    BY <1>2, <2>1, <2>2, <2>5, <2>6 DEF Advances
  <2>7. ASSUME ~CommandStep(c)
        PROVE  Advances
    <3>1. UNCHANGED <<registryVars, fileVars, edits>>
      BY <1>1, <1>2, <2>7, StartedIsBusy DEF LockIsLost, Stop
    <3>2. Looked(c)' \subseteq Looked(c)
      <4>1. CASE StartStep(c)
        <5>1. command'[c].hand = {}
          BY <1>1, <4>1, StartInstallDoes, StartChangeDoes, StartRecoverDoes, StartSyncDoes
             DEF StartStep
        <5>. QED BY <5>1 DEF Looked
      <4>2. CASE LockIsLost(c) \/ Stop(c)
        <5>1. command'[c] = Idle
          BY <1>1, <4>2, GivingUpFits
        <5>. QED BY <5>1, IdleIsNot DEF Looked
      <4>. QED BY <1>2, <2>7, <4>1, <4>2
    <3>3. \A d \in Client : Looked(d)' \subseteq Looked(d)
      BY <2>2, <3>2 DEF OthersWait, Looked
    <3>4. AllLooked' \subseteq AllLooked
      <4>1. \A n : n \in AllLooked' => \E d \in Client : n \in Looked(d)'
        BY DEF AllLooked, Looked
      <4>. QED BY <3>3, <4>1, LookedAtAll
    <3>. QED BY <3>1, <3>4 DEF Advances
  <2>. QED BY <1>1, <2>4, <2>6, <2>7 DEF RightInv
<1>3. ASSUME UNCHANGED <<registryVars, fileVars, command, touched, edits>>
      PROVE  RightInv' /\ Advances
  <2>1. ASSUME NEW d \in Client, Busy(d)'
        PROVE  RunsRight(command[d])'
    <3>1. RunsRight(command[d])
      BY <1>3, <2>1 DEF Busy, RightInv, CommandsRunRight
    <3>. QED BY <1>3, <3>1 DEF RunsRight, AimsRight, PlanFits, StagedFits, Behind, Marked, RowsFit,
             Shows, Holds, PendingOf, Owns, registryVars, fileVars
  <2>2. AllLooked' = AllLooked
    BY <1>3 DEF AllLooked
  <2>. QED BY <1>1, <1>3, <2>1, <2>2 DEF RightInv, CommandsRunRight, Advances
<1>4. CASE UserEdit
  BY <1>1, <1>4, UserEditRight DEF RightInv, CommandsRunRight, Advances
<1>5. CASE UNCHANGED vars
  BY <1>3, <1>5 DEF vars, reconcileVars
<1>. QED BY <1>2, <1>3, <1>4, <1>5 DEF Next, Work

(* At the start no command runs.                                           *)
LEMMA RightStarts == Init => RightInv
<1> SUFFICES ASSUME Init PROVE RightInv
  OBVIOUS
<1>. QED BY LifecycleStarts DEF Init, ReconcileInit, RightInv, CommandsRunRight, Busy

(* While one command runs at a time, and whatever fails, dies or is edited *)
(* on the way, every command goes for the accepted state, knows what it    *)
(* still has to do, and finds in its containers what it is to activate.    *)
THEOREM CommandsStayRight == Spec /\ []OneAtATime => []RightInv
<1>1. RightInv /\ OneAtATime /\ OneAtATime' /\ [Next]_vars => RightInv'
  BY RightInvStep
<1>. QED BY <1>1, RightStarts, PTL DEF Spec

(* A command that reports success leaves the target in full agreement:     *)
(* nothing is pending, and registry, marker and directory show the same    *)
(* state, as far as the user left the directory alone.                     *)
THEOREM ReportsStayTrue == Spec /\ []OneAtATime => []ReportsAreTrue
<1>1. ASSUME RightInv, NEW c \in Client, At(c, "done")
      PROVE  LET t == command[c].target IN
             /\ PendingOf(t) = {}
             /\ command[c].generation # 0 => Agrees(t)
  <2> DEFINE cmd == command[c]
  <2>1. cmd.step = "done" /\ cmd.step # "none"
    BY <1>1 DEF At
  <2>2. /\ AimsRight(cmd) /\ Behind(cmd) /\ Marked(cmd) /\ RowsFit(cmd)
        /\ cmd.kind \in Commands
    BY <1>1, <2>1, RightRuns
  <2>3. PendingOf(cmd.target) = {}
    BY <2>1, <2>2 DEF RowsFit
  <2>4. ASSUME cmd.generation # 0 PROVE Agrees(cmd.target)
    <3>1. Settles(cmd) /\ MarkerWritten(cmd) /\ Left(cmd) = {}
      BY <2>1, <2>2, <2>4 DEF Settles, MarkerWritten, Left, BeforeStaging, AfterCommit, DriftSteps,
         Commands
    <3>2. cmd.next = resolvedPackages[cmd.target] /\ cmd.generation = generation[cmd.target]
      BY <2>1, <2>2, <3>1 DEF AimsRight, DriftSteps
    <3>. QED BY <2>2, <3>1, <3>2 DEF Agrees, Marked, Behind
  <2>. QED BY <2>3, <2>4
<1>2. RightInv => ReportsAreTrue
  BY <1>1 DEF ReportsAreTrue, DoneMeansAgreement, RightInv, LifecycleInv
<1>. QED BY <1>2, CommandsStayRight, PTL

(* The marker is written only when the directory shows what it says.       *)
THEOREM MarkerStaysTruthful == Spec /\ []OneAtATime => MarkerTruthful
<1>1. ASSUME RightInv, OneAtATime, OneAtATime', [Next]_vars
      PROVE  [marker' # marker =>
                \A n \in Package \ touched :
                  marker'.packages[n] # NoDigest => live[n] = marker'.packages[n]]_vars
  <2>1. Advances
    BY <1>1, RightInvStep
  <2>. QED BY <2>1 DEF Advances, StepRight, fileVars, UserEdit
<1>. QED BY <1>1, CommandsStayRight, PTL DEF Spec, MarkerTruthful

(* What appears in the directory is accepted content, or content that a    *)
(* failed activation had just taken away.                                  *)
THEOREM OnlyAcceptedContentAppears == Spec /\ []OneAtATime => OnlyAcceptedAppears
<1> DEFINE Appears(n) ==
      live'[n] \in Digest \ {live[n]} =>
        \/ \E t \in TargetId : Owns(t) /\ live'[n] = resolvedPackages[t][n]
        \/ \E op \in OperationId :
             staging[op][n] # NoContainer /\ live'[n] = staging[op][n].retired
        \/ slipped
<1>1. ASSUME RightInv, NEW c \in Client, CommandStep(c), LiveMoves(c), NEW n \in Package
      PROVE  Appears(n)
  <2>1. /\ Settles(command[c]) => Owns(command[c].target)
                                  /\ command[c].next = resolvedPackages[command[c].target]
        /\ command[c].target \in TargetId
    <3>1. Busy(c)
      BY <1>1, StepOfBusy
    <3>2. RunsRight(command[c]) /\ command[c] \in Running
      BY <1>1, <3>1 DEF RightInv, CommandsRunRight, LifecycleInv, TypeOK, CommandsTypeOK, Busy
    <3>. QED BY <3>2 DEF RunsRight, AimsRight, Running
  <2>2. CASE UNCHANGED live
    BY <2>2
  <2>3. ASSUME Settles(command[c]), NEW m \in Package, LiveOnlyAt(m),
               ShowsNext(c, m) \/ TakesAway(c, m) \/ PutsBack(m)
        PROVE  Appears(n)
    BY <2>1, <2>3, NoDigestAssumption DEF LiveOnlyAt, ShowsNext, TakesAway, PutsBack
  <2>. QED BY <1>1, <2>2, <2>3 DEF LiveMoves
<1>2. ASSUME UserEdit, LifecycleInv, NEW n \in Package
      PROVE  Appears(n)
  <2>1. PICK m \in Package, content \in {Foreign, NoDigest} :
          live' = [live EXCEPT ![m] = content]
    BY <1>2 DEF UserEdit
  <2>. QED BY <1>2, <2>1, ForeignAssumption, NoDigestAssumption
           DEF LifecycleInv, TypeOK, FilesTypeOK
<1>3. ASSUME RightInv, OneAtATime, OneAtATime', [Next]_vars
      PROVE  [\A n \in Package : Appears(n)]_vars
  <2>1. Advances /\ LifecycleInv
    BY <1>3, RightInvStep DEF RightInv
  <2>2. CASE UNCHANGED <<registryVars, fileVars>>
    BY <2>2 DEF fileVars
  <2>. QED BY <1>1, <1>2, <1>3, <2>1, <2>2 DEF Advances, StepRight
<1>. QED BY <1>3, CommandsStayRight, PTL DEF Spec, OnlyAcceptedAppears

----------------------------------------------------------------------------
(* When one command runs at a time.                                        *)

(* No helper ends while the session that relies on it is held.             *)
HelpersLast == \A c \in Client : session[c] = "held" => holder = c

(* A command runs under a session that is held.                            *)
HeldWhileBusy ==
  \A c \in Client : session[c] # "lost" /\ (Busy(c) => session[c] = "held")

(* A command keeps its session until it returns.                           *)
LEMMA SessionsLast ==
  ASSUME NEW c \in Client, CommandStep(c) \/ StartStep(c) \/ LockIsLost(c) \/ Stop(c)
  PROVE  UNCHANGED session \/ Return(c)
<1>1. CASE ReconcileStep(c)
  BY <1>1 DEF ReconcileStep, BeginPending, NothingPending, PendingConflict, StageProjection,
     WriteStageManifest, StagingFails, StagingDone, WriteRemovalManifest,
     RemovalManifestsDone, CommitAcceptedState, CommitRefused, UndoStaging, VerifyRemoval,
     RemoveProjection, RemovalRefused, RemovalsDone, ActivateNew, VerifyCurrent, RetireCurrent,
     ActivateAtOnce, RetireFails, ActivateRetired, ActivationFails, LiveConflict,
     ActivationsDone, DiscardStaging, AcceptedStateMismatch, ReadPending, CleanPending, lockVars
<1>2. CASE CommandStep(c) /\ ~ReconcileStep(c)
  BY <1>2 DEF CommandStep, Observe, ObserveFails, RepairDrift, DriftRepaired, DriftRetire,
     DriftSwap, DriftSwapFails, DriftDiscard, RecoverRemoval, RecoverActivated,
     RecoverActivation, RecoverConflict, Converged, SyncMarker, ObserveLocation,
     RefreshObservations, Done, lockVars
<1>3. CASE StartStep(c)
  BY <1>3 DEF StartStep, StartInstall, StartChange, StartSync, StartRepair, StartRecover, Start,
     lockVars
<1>. QED BY <1>1, <1>2, <1>3 DEF LockIsLost, Stop

(* While helpers last, only the client that has the lock runs a command.   *)
LEMMA HeldWhileBusyStep ==
  ASSUME LifecycleInv, HeldWhileBusy, HelpersLast, [Next]_vars
  PROVE  HeldWhileBusy'
<1>1. LockTypeOK /\ command \in CommandType
  BY DEF LifecycleInv, TypeOK, CommandsTypeOK, CommandType
<1>2. ASSUME NEW c \in Client, CommandStep(c) \/ StartStep(c) \/ LockIsLost(c) \/ Stop(c)
      PROVE  HeldWhileBusy'
  <2>1. OthersWait(c)
    BY <1>2, CommandStepFits, GivingUpFits DEF Preserves
  <2>2. CASE Return(c)
    BY <1>1, <2>2, ReturnMoves DEF HeldWhileBusy, Busy, Return, Close, LockTypeOK
  <2>3. CASE UNCHANGED session
    <3>1. session[c] = "held"
      <4>1. StartStep(c) => session[c] = "held"
        BY DEF StartStep, StartInstall, StartChange, StartSync, StartRepair, StartRecover, Start,
               CheckHeld
      <4>. QED BY <1>2, <4>1, StepOfBusy DEF HeldWhileBusy
    <3>. QED BY <2>1, <2>3, <3>1 DEF HeldWhileBusy, Busy, OthersWait
  <2>. QED BY <1>2, <2>2, <2>3, SessionsLast
<1>3. ASSUME NEW c \in Client, LockStep(c), UNCHANGED command
      PROVE  HeldWhileBusy'
  BY <1>1, <1>3 DEF LockStep, LockFails, GiveUp, Grant, Open, HelperEnds, NoticeLoss, Free,
     GrantToDead, Close, LockTypeOK, HeldWhileBusy, HelpersLast, Busy
<1>4. CASE UserEdit \/ UNCHANGED vars
  BY <1>4 DEF UserEdit, vars, reconcileVars, lockVars, HeldWhileBusy, Busy
<1>. QED BY <1>2, <1>3, <1>4 DEF Next, Work

(* The lock does what it is for: if no helper ends before its session,     *)
(* two commands are never at work together.                                *)
THEOREM LockGivesOneAtATime == Spec /\ []HelpersLast => []OneAtATime
<1>1. Init => HeldWhileBusy
  BY DEF Init, ReconcileInit, LockInit, HeldWhileBusy, Busy
<1>2. LifecycleInv /\ HeldWhileBusy /\ HelpersLast /\ [Next]_vars => HeldWhileBusy'
  BY HeldWhileBusyStep
<1>3. HeldWhileBusy /\ HelpersLast => OneAtATime
  BY DEF HeldWhileBusy, HelpersLast, OneAtATime
<1>. QED BY <1>1, <1>2, <1>3, LifecycleInvariant, PTL DEF Spec

----------------------------------------------------------------------------
(* The directory follows the registry: the refinement of AcceptedTarget.   *)

HereAccepted ==
  [n \in Package |-> IF Here = {} THEN NoDigest ELSE resolvedPackages[CHOOSE t \in Here : TRUE][n]]
HereGeneration == IF Here = {} THEN 0 ELSE generation[CHOOSE t \in Here : TRUE]
Aside ==
  [n \in Package |-> {staging[op][n].retired :
                        op \in {o \in OperationId : staging[o][n] # NoContainer}} \ {NoDigest}]

(* One choice is left in a set of one.                                     *)
LEMMA OneChoice ==
  ASSUME NEW S, NEW t \in S, \A u \in S : u = t
  PROVE  S # {} /\ (CHOOSE u \in S : TRUE) = t
<1>1. (CHOOSE u \in S : TRUE) \in S
  OBVIOUS
<1>. QED BY <1>1

(* The target that has the directory is accepted, and the only one.        *)
LEMMA OwnerIsOne ==
  ASSUME RegistryInv, RegistryTypeOK
  PROVE  /\ \A t, u \in TargetId : Owns(t) /\ Owns(u) => t = u
         /\ \A t \in TargetId : Owns(t) => generation[t] \in Nat /\ generation[t] >= 1
<1>1. ASSUME NEW t \in TargetId, NEW u \in TargetId, Owns(t), Owns(u)
      PROVE  t = u
  BY <1>1 DEF Owns, RegistryInv, TablesConsistent, LocationsConsistent
<1>2. ASSUME NEW t \in TargetId, Owns(t)
      PROVE  generation[t] \in Nat /\ generation[t] >= 1
  <2>1. LocationsOf(t) # {}
    BY <1>2 DEF Owns, LocationsOf
  <2>. QED BY <2>1 DEF RegistryInv, TablesConsistent, ReferencesResolve, Accepted,
           RegistryTypeOK, NoRow
<1>. QED BY <1>1, <1>2

(* All that a command does to the registry, but its commit, leaves the     *)
(* directory with its target, and that target with its state.              *)
LEMMA AcceptedStays ==
  ASSUME RightInv, NEW c \in Client, CommandStep(c), ~CommitAcceptedState(c),
         NEW t \in TargetId
  PROVE  /\ Owns(t)' <=> Owns(t)
         /\ Owns(t) => generation'[t] = generation[t] /\ resolvedPackages'[t] = resolvedPackages[t]
<1> DEFINE cmd == command[c]
<1>1. LifecycleInv /\ RegistryInv /\ RegistryTypeOK /\ Busy(c)
  BY StepOfBusy DEF RightInv, LifecycleInv, TypeOK
<1>2. CASE UNCHANGED registryVars
  BY <1>2 DEF registryVars, Owns
<1>3. CASE BeginPending(c)
  <2> DEFINE op == command'[c].operation
             actions == cmd.stages \cup cmd.removals
  <2>1. BeginPendingOperation(op, cmd.target, actions)
          \/ BeginPendingReconciliation(op, cmd.target, actions)
    BY <1>1, <1>3, BeginPendingDoes
  <2> HIDE DEF op, actions
  <2>2. UNCHANGED <<resolvedPackages, targetLocations>>
    BY <2>1 DEF BeginPendingOperation, BeginPendingReconciliation, InsertPending
  <2>3. Owns(t) => generation'[t] = generation[t]
    <3>1. Owns(t) => generation[t] \in Nat /\ generation[t] >= 1
      BY <1>1, OwnerIsOne
    <3>. QED BY <1>1, <2>1, <3>1 DEF BeginPendingOperation, BeginPendingReconciliation,
             InsertedGeneration, NoRow, RegistryTypeOK
  <2>. QED BY <2>2, <2>3 DEF Owns
<1>4. CASE UndoStaging(c) \/ DiscardStaging(c) \/ CleanPending(c)
  <2>1. UNCHANGED registryVars \/ CompletePendingOperation(cmd.operation)
    BY <1>4 DEF UndoStaging, DiscardStaging, CleanPending
  <2>. QED BY <1>1, <1>2, <2>1, CompletionKeeps DEF Owns
<1>5. CASE ObserveLocation(c)
  <2>1. ObserveTargetLocation(cmd.target, TargetRoot, cmd.generation) /\ cmd.kind = "sync"
        /\ cmd.step # "none"
    BY <1>1, <1>5, ObserveLocationDoes
  <2>2. Owns(cmd.target)
    BY <1>1, <2>1, BusyRuns DEF Fits
  <2>3. UNCHANGED <<generation, resolvedPackages>>
    BY <2>1 DEF ObserveTargetLocation
  <2>4. Owns(t) => t = cmd.target
    BY <2>1 DEF ObserveTargetLocation, Owns
  <2>5. Owns(t)' => t = cmd.target
    BY <2>1 DEF ObserveTargetLocation, Owns
  <2>6. Owns(t) => Owns(t)'
    BY <1>1, <1>5, MarkerStepFits DEF Preserves, RegistrySteps
  <2>. QED BY <2>2, <2>3, <2>4, <2>5, <2>6
<1>6. CASE RefreshObservations(c)
  BY <1>2, <1>6 DEF RefreshObservations, ReplaceDependencyObservations, Owns
<1>7. \/ UNCHANGED registryVars
      \/ BeginPending(c) \/ UndoStaging(c) \/ DiscardStaging(c) \/ CleanPending(c)
      \/ ObserveLocation(c) \/ RefreshObservations(c)
  <2>1. CASE ReconcileStep(c)
    BY <2>1 DEF ReconcileStep, NothingPending, PendingConflict, StageProjection,
       WriteStageManifest, StagingFails, StagingDone, WriteRemovalManifest,
       RemovalManifestsDone, CommitRefused, VerifyRemoval, RemoveProjection, RemovalRefused,
       RemovalsDone, ActivateNew, VerifyCurrent, RetireCurrent, ActivateAtOnce, RetireFails,
       ActivateRetired, ActivationFails, LiveConflict, ActivationsDone, AcceptedStateMismatch,
       ReadPending
  <2>2. CASE ~ReconcileStep(c)
    BY <2>2 DEF CommandStep, Observe, ObserveFails, RepairDrift, DriftRepaired, DriftRetire,
       DriftSwap, DriftSwapFails, DriftDiscard, RecoverRemoval, RecoverActivated,
       RecoverActivation, RecoverConflict, Converged, SyncMarker, Done
  <2>. QED BY <2>1, <2>2
<1>. QED BY <1>2, <1>3, <1>4, <1>5, <1>6, <1>7

(* A commit is the acceptance of one state more, for the directory.        *)
LEMMA CommitAccepts ==
  ASSUME RightInv, NEW c \in Client, CommitAcceptedState(c)
  PROVE  /\ UNCHANGED fileVars
         /\ HereGeneration' = HereGeneration + 1
         /\ HereAccepted' \in [Package -> Digest \cup {NoDigest}]
<1> DEFINE cmd == command[c]
           t == cmd.target
<1>1. /\ LifecycleInv /\ RegistryInv /\ RegistryTypeOK /\ cmd.target \in TargetId
      /\ Fits(cmd) /\ cmd.next \in Content
  <2>1. cmd.step # "none"
    BY DEF CommitAcceptedState, Held, At
  <2>. QED BY <2>1, RightRuns, BusyRuns
<1>2. /\ CommitPermitted(c) /\ UNCHANGED fileVars
      /\ \/ cmd.kind = "change" /\ ReplaceTargetState(cmd.operation, t, cmd.next)
         \/ cmd.kind = "install"
            /\ ReplaceFreshTargetState(cmd.operation, t, TargetRoot, cmd.next)
  BY DEF CommitAcceptedState
<1> HIDE DEF t
<1>3. t \in TargetId /\ \A u \in Here : u = t
  BY <1>1, <1>2 DEF CommitPermitted, Here, Owns, t
<1>4. \A u \in Here' : u = t
  <2>1. \A row \in targetLocations' : row.path = TargetRoot => row.target = t
    <3>1. CASE ReplaceTargetState(cmd.operation, t, cmd.next)
      BY <1>2, <3>1 DEF ReplaceTargetState, ReplaceTargetRows, LocationsOf, CommitPermitted, t
    <3>2. CASE ReplaceFreshTargetState(cmd.operation, t, TargetRoot, cmd.next)
      BY <1>2, <3>2 DEF ReplaceFreshTargetState, ReplaceTargetRows, FreshLocation,
         CommitPermitted, t
    <3>. QED BY <1>2, <3>1, <3>2
  <2>. QED BY <2>1 DEF Here, Owns
<1>5. t \in Here'
  <2>1. CASE cmd.kind = "change"
    <3>1. \A u \in TargetId : Owns(u) => Owns(u)'
      BY <1>1, CommitFits DEF Preserves, RegistrySteps
    <3>. QED BY <1>1, <1>3, <2>1, <3>1 DEF Fits, Here, t
  <2>2. CASE cmd.kind = "install"
    <3> DEFINE row == [path |-> TargetRoot, target |-> t, observed |-> NotObserved]
    <3>1. row \in targetLocations' /\ row.path = TargetRoot /\ row.target = t
      BY <1>2, <2>2 DEF ReplaceFreshTargetState, ReplaceTargetRows, FreshLocation
    <3> HIDE DEF row
    <3>. QED BY <1>3, <3>1 DEF Here, Owns
  <2>. QED BY <1>2, <2>1, <2>2
<1>6. Here' # {} /\ (CHOOSE u \in Here' : TRUE) = t
  BY <1>4, <1>5, OneChoice
<1>7. /\ generation'[t] = InsertedGeneration(t) + 1
      /\ resolvedPackages'[t] = cmd.next
  BY <1>1, <1>2, <1>3 DEF ReplaceTargetState, ReplaceFreshTargetState, ReplaceTargetRows,
     RegistryTypeOK
<1>8. HereGeneration = InsertedGeneration(t)
  <2>1. CASE cmd.kind = "change"
    <3>1. t \in Here /\ Owns(t)
      BY <1>1, <1>3, <2>1 DEF Fits, Here, t
    <3>2. Here # {} /\ (CHOOSE u \in Here : TRUE) = t
      BY <1>3, <3>1, OneChoice
    <3>3. generation[t] >= 1 /\ generation[t] \in Nat
      BY <1>1, <1>3, <3>1, OwnerIsOne
    <3>4. HereGeneration = generation[t]
      BY <3>2 DEF HereGeneration
    <3>5. InsertedGeneration(t) = generation[t]
      BY <3>3 DEF InsertedGeneration, NoRow
    <3>. QED BY <3>4, <3>5
  <2>2. CASE cmd.kind = "install"
    <3>1. ~Accepted(t)
      BY <1>2, <2>2 DEF ReplaceFreshTargetState
    <3>2. ~Owns(t)
      BY <1>1, <1>3, <3>1, OwnerIsOne DEF Accepted
    <3>3. Here = {}
      BY <1>3, <3>2 DEF Here
    <3>. QED BY <1>1, <1>3, <3>1, <3>3 DEF HereGeneration, InsertedGeneration, Accepted, NoRow,
             RegistryTypeOK
  <2>. QED BY <1>2, <2>1, <2>2
<1>9. HereGeneration' = HereGeneration + 1
  BY <1>6, <1>7, <1>8 DEF HereGeneration
<1>10. HereAccepted' \in [Package -> Digest \cup {NoDigest}]
  BY <1>1, <1>6, <1>7 DEF HereAccepted, Content
<1>. QED BY <1>2, <1>9, <1>10

(* An owner that stays, with its state, leaves what is accepted here.      *)
LEMMA HereStays ==
  ASSUME RightInv,
         \A t \in TargetId :
           /\ Owns(t)' <=> Owns(t)
           /\ Owns(t) => generation'[t] = generation[t] /\ resolvedPackages'[t] = resolvedPackages[t]
  PROVE  UNCHANGED <<HereAccepted, HereGeneration>>
<1>1. Here' = Here
  BY DEF Here
<1>2. CASE Here = {}
  BY <1>1, <1>2 DEF HereAccepted, HereGeneration
<1>3. CASE Here # {}
  <2>1. PICK t \in Here : TRUE
    BY <1>3
  <2>2. t \in TargetId /\ Owns(t) /\ \A u \in Here : u = t
    BY <2>1, OwnerIsOne DEF Here, RightInv, LifecycleInv, TypeOK
  <2>3. (CHOOSE u \in Here : TRUE) = t
    BY <2>1, <2>2, OneChoice
  <2>4. generation'[t] = generation[t] /\ resolvedPackages'[t] = resolvedPackages[t]
    BY <2>2
  <2>5. (CHOOSE u \in Here' : TRUE) = t /\ Here' # {}
    BY <1>1, <1>3, <2>3
  <2>6. HereGeneration = generation[t] /\ HereGeneration' = generation'[t]
    BY <1>3, <2>3, <2>5 DEF HereGeneration
  <2>7. HereAccepted = [n \in Package |-> resolvedPackages[t][n]]
    BY <1>3, <2>3 DEF HereAccepted
  <2>8. HereAccepted' = [n \in Package |-> resolvedPackages'[t][n]]
    BY <2>5 DEF HereAccepted
  <2>. QED BY <2>4, <2>6, <2>7, <2>8
<1>. QED BY <1>2, <1>3

(* What is accepted here is the state of the owner.                        *)
LEMMA OwnersState ==
  ASSUME RightInv, NEW t \in TargetId, Owns(t)
  PROVE  \A n \in Package : HereAccepted[n] = resolvedPackages[t][n]
<1>1. t \in Here /\ \A u \in Here : u = t
  BY OwnerIsOne DEF Here, RightInv, LifecycleInv, TypeOK
<1>2. Here # {} /\ (CHOOSE u \in Here : TRUE) = t
  BY <1>1, OneChoice
<1>. QED BY <1>2 DEF HereAccepted

(* What is kept aside is what was, but perhaps for what is retired now.    *)
LEMMA AsideShrinks ==
  /\ NothingAside => \A m \in Package : Aside'[m] \subseteq Aside[m]
  /\ \A n \in Package : AsideBut(n) =>
       \A m \in Package : Aside'[m] \subseteq Aside[m] \cup (IF m = n THEN {live[n]} ELSE {})
BY DEF Aside, NothingAside, AsideBut

(* The moves of a command are those that AcceptedTarget allows.            *)
LEMMA MovesAreAllowed ==
  ASSUME RightInv, NEW c \in Client, Busy(c), LiveMoves(c), FilesTypeOK',
         UNCHANGED <<HereAccepted, HereGeneration, edits>>, AllLooked' \subseteq AllLooked
  PROVE  Abstract!Move
<1> DEFINE cmd == command[c]
<1>1. /\ AimsRight(cmd) /\ cmd.target \in TargetId /\ cmd.next \in Content
      /\ live \in [Package -> LiveContent] /\ live' \in [Package -> LiveContent]
  BY DEF RightInv, CommandsRunRight, RunsRight, LifecycleInv, TypeOK, CommandsTypeOK, Busy,
         Running, FilesTypeOK
<1>2. CASE UNCHANGED live /\ NothingAside
  <2>1. \A m \in Package : Aside'[m] \subseteq Aside[m]
    BY <1>2, AsideShrinks
  <2>2. Abstract!Forget
    BY <1>2, <2>1 DEF Abstract!Forget, Abstract!Keeping, HereAccepted, HereGeneration, Aside
  <2>. QED BY <2>2 DEF Abstract!Move, AllLooked
<1>3. ASSUME Settles(cmd), NEW n \in Package, LiveOnlyAt(n),
             ShowsNext(c, n) \/ TakesAway(c, n) \/ PutsBack(n)
      PROVE  Abstract!Move
  <2>1. HereAccepted[n] = cmd.next[n]
    BY <1>1, <1>3, OwnersState DEF AimsRight
  <2>2. live' = [live EXCEPT ![n] = live'[n]]
    BY <1>1, <1>3 DEF LiveOnlyAt
  <2>3. CASE ShowsNext(c, n)
    <3>1. /\ live[n] = NoDigest /\ HereAccepted[n] # NoDigest
          /\ live' = [live EXCEPT ![n] = HereAccepted[n]]
          /\ \A m \in Package : Aside'[m] \subseteq Aside[m]
      BY <2>1, <2>2, <2>3, AsideShrinks DEF ShowsNext
    <3>2. Abstract!Show(n)
      BY <3>1 DEF Abstract!Show, Abstract!LiveBecomes, Abstract!Keeping, HereAccepted,
                  HereGeneration, Aside
    <3>. QED BY <3>2 DEF Abstract!Move, AllLooked
  <2>4. CASE TakesAway(c, n)
    <3>1. /\ live[n] # NoDigest /\ live[n] # HereAccepted[n]
          /\ live[n] = Foreign =>
               (\E d \in Client : command[d].kind = "repair") \/ n \in AllLooked
          /\ live' = [live EXCEPT ![n] = NoDigest]
          /\ \A m \in Package :
               Aside'[m] \subseteq [Aside EXCEPT ![n] = Aside[n] \cup {live[n]}][m]
      <4>1. \A m \in Package : Aside'[m] \subseteq Aside[m] \cup (IF m = n THEN {live[n]} ELSE {})
        BY <2>4, AsideShrinks DEF TakesAway
      <4>2. \A m \in Package :
               Aside'[m] \subseteq [Aside EXCEPT ![n] = Aside[n] \cup {live[n]}][m]
        BY <4>1 DEF Aside
      <4>3. n \in Looked(c) => n \in AllLooked
        BY LookedAtAll
      <4>. QED BY <2>1, <2>2, <2>4, <4>2, <4>3 DEF TakesAway
    <3>2. Abstract!Withdraw(n)
      BY <3>1 DEF Abstract!Withdraw, Abstract!LiveBecomes, Abstract!Keeping, HereAccepted,
                  HereGeneration, Aside, AllLooked
    <3>. QED BY <3>2 DEF Abstract!Move, AllLooked
  <2>5. CASE PutsBack(n)
    <3>1. PICK op \in OperationId :
            staging[op][n] # NoContainer /\ live'[n] = staging[op][n].retired
      BY <2>5 DEF PutsBack
    <3>2. live[n] = NoDigest /\ \A m \in Package : Aside'[m] \subseteq Aside[m]
      BY <2>5, AsideShrinks DEF PutsBack
    <3>3. CASE live'[n] = NoDigest
      <4>1. UNCHANGED live
        BY <1>1, <2>2, <3>2, <3>3
      <4>2. Abstract!Forget
        BY <3>2, <4>1 DEF Abstract!Forget, Abstract!Keeping, HereAccepted, HereGeneration, Aside
      <4>. QED BY <4>2 DEF Abstract!Move, AllLooked
    <3>4. CASE live'[n] # NoDigest
      <4>1. live'[n] \in Aside[n]
        BY <3>1, <3>4 DEF Aside
      <4>2. \E content \in Aside[n] : live' = [live EXCEPT ![n] = content]
        BY <2>2, <4>1
      <4>3. Abstract!PutBack(n)
        BY <3>2, <4>2 DEF Abstract!PutBack, Abstract!LiveBecomes, Abstract!Keeping, HereAccepted,
                          HereGeneration, Aside
      <4>. QED BY <4>3 DEF Abstract!Move, AllLooked
    <3>. QED BY <3>3, <3>4
  <2>. QED BY <1>3, <2>3, <2>4, <2>5
<1>. QED BY <1>2, <1>3 DEF LiveMoves

(* A look at a name, while nothing else changes.                           *)
LEMMA LooksAreAllowed ==
  ASSUME NEW n \in Package, live[n] # Foreign, AllLooked' = AllLooked \cup {n},
         UNCHANGED <<live, staging, HereAccepted, HereGeneration>>
  PROVE  Abstract!Move
<1>1. UNCHANGED Aside
  BY DEF Aside
<1>2. Abstract!Look(n)
  BY <1>1 DEF Abstract!Look, HereAccepted, HereGeneration, Aside, AllLooked
<1>. QED BY <1>2 DEF Abstract!Move

(* Every step of the lifecycle is one of AcceptedTarget.                   *)
LEMMA AcceptedTargetStep ==
  ASSUME RightInv, FilesTypeOK', Advances
  PROVE  Abstract!Next
<1>1. CASE UNCHANGED <<registryVars, fileVars, edits>> /\ AllLooked' \subseteq AllLooked
  <2>1. /\ UNCHANGED <<live, staging, edits>>
        /\ \A t \in TargetId :
             /\ Owns(t)' <=> Owns(t)
             /\ Owns(t) => /\ generation'[t] = generation[t]
                           /\ resolvedPackages'[t] = resolvedPackages[t]
    BY <1>1 DEF registryVars, fileVars, Owns
  <2>2. UNCHANGED <<HereAccepted, HereGeneration>>
    BY <2>1, HereStays
  <2>3. \A m \in Package : Aside'[m] \subseteq Aside[m]
    BY <2>1, StagingStays, AsideShrinks
  <2>4. Abstract!Forget
    BY <2>1, <2>2, <2>3 DEF Abstract!Forget, Abstract!Keeping, HereAccepted, HereGeneration, Aside
  <2>5. Abstract!Move
    BY <1>1, <2>4 DEF Abstract!Move, AllLooked
  <2>. QED BY <2>1, <2>5 DEF Abstract!Next
<1>2. ASSUME NEW c \in Client, CommandStep(c), StepRight(c), Looks(c), OthersWait(c), UNCHANGED edits
      PROVE  Abstract!Next
  <2>1. \A d \in Client \ {c} : Looked(d)' = Looked(d)
    BY <1>2 DEF OthersWait, Looked
  <2>2. CASE CommitAcceptedState(c)
    <3>1. /\ UNCHANGED <<live, staging>>
          /\ HereGeneration' = HereGeneration + 1
          /\ HereAccepted' \in [Package -> Digest \cup {NoDigest}]
      BY <2>2, CommitAccepts DEF fileVars
    <3>2. \A m \in Package : Aside'[m] \subseteq Aside[m]
      BY <3>1, StagingStays, AsideShrinks
    <3>3. Abstract!Accept
      BY <3>1, <3>2 DEF Abstract!Accept, Abstract!Keeping, HereAccepted, HereGeneration, Aside
    <3>4. Looked(c)' = {}
      <4>1. command'[c].step = "remove"
        BY <2>2 DEF CommitAcceptedState, RightInv, LifecycleInv, TypeOK, CommandsTypeOK
      <4>. QED BY <4>1 DEF Looked
    <3>5. \A d \in Client : Looked(d)' \subseteq Looked(d)
      BY <2>1, <3>4
    <3>6. AllLooked' \subseteq AllLooked
      BY <3>5 DEF AllLooked, Looked
    <3>7. Abstract!Move
      BY <3>3, <3>6 DEF Abstract!Move, AllLooked
    <3>. QED BY <1>2, <3>7 DEF Abstract!Next
  <2>3. CASE ~CommitAcceptedState(c)
    <3>1. UNCHANGED <<HereAccepted, HereGeneration>>
      BY <1>2, <2>3, AcceptedStays, HereStays
    <3>2. Busy(c) /\ LiveMoves(c)
      BY <1>2, StepOfBusy DEF StepRight
    <3>3. CASE Looked(c)' \subseteq Looked(c)
      <4>1. \A d \in Client : Looked(d)' \subseteq Looked(d)
        BY <2>1, <3>3
      <4>2. AllLooked' \subseteq AllLooked
        BY <4>1 DEF AllLooked, Looked
      <4>3. Abstract!Move
        BY <1>2, <3>1, <3>2, <4>2, MovesAreAllowed
      <4>. QED BY <1>2, <4>3 DEF Abstract!Next
    <3>4. CASE ~(Looked(c)' \subseteq Looked(c))
      <4>1. PICK n \in Package : /\ UNCHANGED <<live, staging>> /\ live[n] # Foreign
                                 /\ Looked(c)' = {n} /\ Looked(c) = {}
        BY <1>2, <3>4 DEF Looks
      <4>2. AllLooked' = AllLooked \cup {n}
        <5>1. \A m : m \in AllLooked' <=> \E d \in Client : m \in Looked(d)'
          BY DEF AllLooked, Looked
        <5>2. \A m : (\E d \in Client : m \in Looked(d)')
                       <=> (m = n \/ \E d \in Client : m \in Looked(d))
          BY <2>1, <4>1
        <5>. QED BY <5>1, <5>2, LookedAtAll
      <4>3. Abstract!Move
        BY <3>1, <4>1, <4>2, LooksAreAllowed
      <4>. QED BY <1>2, <4>3 DEF Abstract!Next
    <3>. QED BY <3>3, <3>4
  <2>. QED BY <2>2, <2>3
<1>3. CASE UserEdit
  <2>1. PICK n \in Package, content \in {Foreign, NoDigest} :
          live' = [live EXCEPT ![n] = content]
    BY <1>3 DEF UserEdit
  <2>2. /\ UNCHANGED <<generation, resolvedPackages, targetLocations, staging, command>>
        /\ edits' = edits + 1
    BY <1>3 DEF UserEdit, registryVars
  <2>3. UNCHANGED <<HereAccepted, HereGeneration, Aside, AllLooked>>
    BY <2>2 DEF HereAccepted, HereGeneration, Here, Owns, Aside, AllLooked
  <2>4. Abstract!UserEdit(n)
    BY <2>1, <2>2, <2>3 DEF Abstract!UserEdit, Abstract!LiveBecomes, HereAccepted, HereGeneration,
       Aside, AllLooked
  <2>. QED BY <2>4 DEF Abstract!Next
<1>. QED BY <1>1, <1>2, <1>3 DEF Advances

(* While one command runs at a time: the directory follows the registry.   *)
(* States are accepted as a whole, only what is accepted is shown, only    *)
(* what is no longer accepted is taken away, and what the user put there   *)
(* goes only where repair was asked for, or where it came in between a     *)
(* command's look at a name and the removal that the look was for.         *)
THEOREM DirectoryFollowsRegistry == Spec /\ []OneAtATime => ImplementsAcceptedTarget
<1>1. Init => Abstract!Init
  <2> SUFFICES ASSUME Init PROVE Abstract!Init
    OBVIOUS
  <2>1. /\ targetLocations = {} /\ live = [n \in Package |-> NoDigest]
        /\ staging = [op \in OperationId |-> [n \in Package |-> NoContainer]]
        /\ command = [c \in Client |-> Idle]
    BY DEF Init, ReconcileInit, RegistryInit, FilesInit
  <2>2. Here = {}
    BY <2>1 DEF Here, Owns
  <2>3. \A c \in Client : command[c].kind # "repair"
    BY <2>1, IdleIsNot
  <2>4. AllLooked = {} /\ edits = 0
    BY <2>1, IdleIsNot DEF Init, AllLooked
  <2>. QED BY <2>1, <2>2, <2>3, <2>4 DEF Abstract!Init, AllLooked
<1>2. RightInv /\ OneAtATime /\ OneAtATime' /\ [Next]_vars => Abstract!Next
  <2> SUFFICES ASSUME RightInv, OneAtATime, OneAtATime', [Next]_vars
               PROVE  Abstract!Next
    OBVIOUS
  <2>1. Advances /\ FilesTypeOK'
    BY RightInvStep DEF RightInv, LifecycleInv, TypeOK
  <2>. QED BY <2>1, AcceptedTargetStep
<1>. QED BY <1>1, <1>2, CommandsStayRight, PTL DEF Spec, ImplementsAcceptedTarget, Abstract!Spec

----------------------------------------------------------------------------
(* What is staged is accounted for.                                        *)

(* Operation ids are never drawn twice, so they name one row.              *)
OneRowEach == \A a, b \in pendingOperations : a.operation = b.operation => a = b

(* From its announcement on, the row of an operation names all it plans.   *)
Announced(cmd) ==
  cmd.step \in {"stage", "manifest", "removals", "commit", "remove", "activate"}
      \/ (cmd.step \in {"removing", "retire", "swap"} /\ cmd.kind # "recover") =>
    \E row \in pendingOperations :
      row.operation = cmd.operation /\ row.actions = cmd.stages \cup cmd.removals

(* Whoever takes containers away has all of them on its list: that the row *)
(* goes when the list is empty leaves none behind.                         *)
Listed(cmd) ==
  cmd.step \in {"undo", "discard", "cleaning"} => Containers(cmd.operation) \subseteq cmd.todo

Accounts(cmd) == cmd.kind \in Offered /\ Announced(cmd) /\ Listed(cmd)

(* The container in which a drifted projection is swapped has no row       *)
(* (RepairDrift): it is alone in its operation and has no manifest.        *)
SwapsDrift(op, n) ==
  /\ "repair" \in Offered
  /\ staging[op][n].action = "none"
  /\ \A row \in pendingOperations : row.operation # op
  /\ \A m \in Package \ {n} : staging[op][m] = NoContainer

RowNames(op, n) ==
  \E row \in pendingOperations : row.operation = op /\ n \in row.actions

ContainersKnown ==
  \A op \in OperationId, n \in Package :
    staging[op][n] # NoContainer => RowNames(op, n) \/ SwapsDrift(op, n)

Accounted == ContainersKnown /\ OneRowEach

AccountInv == Accounted /\ \A c \in Client : Busy(c) => Accounts(command[c])

(* No container comes and none gets a manifest.                            *)
Fewer ==
  \A op \in OperationId, n \in Package :
    staging'[op][n] # NoContainer =>
      staging[op][n] # NoContainer /\ staging'[op][n].action = staging[op][n].action

(* No row goes and no container comes.                                     *)
LEMMA AccountRests ==
  ASSUME Accounted, UNCHANGED pendingOperations, Fewer
  PROVE  Accounted'
<1>1. ASSUME NEW op \in OperationId, NEW n \in Package, staging'[op][n] # NoContainer
      PROVE  RowNames(op, n)' \/ SwapsDrift(op, n)'
  <2>1. RowNames(op, n) \/ SwapsDrift(op, n)
    BY <1>1 DEF Accounted, ContainersKnown, Fewer
  <2>. QED BY <1>1, <2>1 DEF RowNames, SwapsDrift, Fewer
<1>. QED BY <1>1 DEF Accounted, ContainersKnown, OneRowEach

(* What the new invariant says of the command of c, when it is at work.    *)
LEMMA AccountOf ==
  ASSUME RightInv, AccountInv, NEW c \in Client,
         command[c].step # "none"
  PROVE  /\ Accounted /\ Announced(command[c]) /\ Listed(command[c])
         /\ command[c].kind \in Offered
         /\ command[c].kind \in Commands /\ command[c].step \in StepsOf(command[c].kind)
         /\ command[c].step \in OperationSteps => command[c].operation \in OperationId
         /\ command[c] \in Running /\ command \in CommandType
         /\ FilesTypeOK /\ LifecycleInv /\ PlanFits(command[c])
         /\ command[c].todo \subseteq Package /\ command[c].hand \subseteq Package
         /\ command[c].stages \subseteq Package /\ command[c].removals \subseteq Package
<1>1. /\ Busy(c) /\ command[c] \in Running /\ command \in CommandType /\ FilesTypeOK
      /\ Fits(command[c]) /\ command[c].kind \in Commands /\ LifecycleInv /\ PlanFits(command[c])
      /\ command[c].todo \subseteq Package /\ command[c].hand \subseteq Package
      /\ command[c].stages \subseteq Package /\ command[c].removals \subseteq Package
  BY BusyRuns, RightRuns
<1>2. Accounted /\ Accounts(command[c])
  BY <1>1 DEF AccountInv
<1>. QED BY <1>1, <1>2 DEF Accounts, Fits

(* What a step keeps of it.                                                *)
AccountKept(c) == Accounted' /\ (Busy(c)' => Accounts(command[c])')

(* All containers of an operation are on the list of its row.              *)
LEMMA RowListsContainers ==
  ASSUME Accounted, NEW row \in pendingOperations, row.operation \in OperationId
  PROVE  Containers(row.operation) \subseteq row.actions
BY DEF Accounted, ContainersKnown, RowNames, SwapsDrift, OneRowEach, Containers

(* A list that holds all containers of an operation still does.            *)
LEMMA ListHolds ==
  ASSUME NEW op \in OperationId, NEW todo, Containers(op) \subseteq todo, Fewer
  PROVE  Containers(op)' \subseteq todo
BY DEF Containers, Fewer

(* Commands that give up, whatever the reason, leave all as it is.         *)
LEMMA GivingUpAccounts ==
  ASSUME RightInv, AccountInv, NEW c \in Client,
         \/ PendingConflict(c) \/ LiveConflict(c) \/ AcceptedStateMismatch(c)
         \/ RemovalRefused(c) \/ RetireFails(c)
         \/ ObserveFails(c) \/ RecoverConflict(c) \/ Done(c) \/ LockIsLost(c) \/ Stop(c)
         \/ ActivationFails(c)
  PROVE  AccountKept(c)
<1>1. CASE ~ActivationFails(c)
  <2>1. command'[c] = Idle /\ UNCHANGED <<registryVars, fileVars>>
    BY <1>1, GivingUpFits DEF RightInv
  <2>2. Fewer /\ UNCHANGED pendingOperations
    BY <2>1 DEF Fewer, registryVars, fileVars
  <2>. QED BY <2>1, <2>2, AccountRests DEF AccountInv, AccountKept, Busy
<1>2. CASE ActivationFails(c)
  <2> DEFINE op == command[c].operation
  <2>1. command[c].step = "swap" /\ Return(c) /\ UNCHANGED <<registryVars, marker>>
    BY <1>2 DEF ActivationFails, MaySwap, At
  <2>2. /\ op \in OperationId /\ command[c].hand \subseteq Package /\ FilesTypeOK
        /\ command \in CommandType /\ Accounted /\ LockTypeOK
    BY <2>1, AccountOf DEF OperationSteps, LifecycleInv, TypeOK
  <2>3. command'[c] = Idle
    BY <2>1, <2>2, ReturnMoves
  <2>4. PICK n \in command[c].hand : Reinstate(op, n) \/ UNCHANGED staging
    BY <1>2 DEF ActivationFails
  <2>5. Fewer
    BY <2>1, <2>2, <2>4, ReinstatePutsBack DEF Fewer, StagingOnlyAt
  <2>. QED BY <2>1, <2>2, <2>3, <2>5, AccountRests DEF AccountKept, Busy, registryVars
<1>. QED BY <1>1, <1>2

(* From one loop to the next, the list is handed on.                       *)
LEMMA LoopStepAccounts ==
  ASSUME RightInv, AccountInv, NEW c \in Client,
         \/ StagingFails(c) \/ StagingDone(c) \/ RemovalManifestsDone(c) \/ CommitRefused(c)
         \/ RemovalsDone(c) \/ ActivationsDone(c) \/ Converged(c) \/ DriftRepaired(c)
  PROVE  AccountKept(c)
<1> DEFINE cmd == command[c]
           op == cmd.operation
<1>1. /\ cmd.step # "none" /\ UNCHANGED <<registryVars, fileVars>>
      /\ \/ /\ cmd.step \in {"stage", "commit"} /\ GoTo(c, "undo", Containers(op))
         \/ /\ cmd.step = "stage" /\ GoTo(c, "removals", cmd.removals)
         \/ /\ cmd.step = "removals" /\ GoTo(c, "commit", {})
         \/ /\ cmd.step = "removals" /\ GoTo(c, "remove", cmd.removals)
         \/ /\ cmd.step = "remove" /\ GoTo(c, "activate", cmd.stages)
         \/ /\ cmd.step = "activate" /\ GoTo(c, "discard", cmd.stages \cup cmd.removals)
         \/ GoTo(c, "marker", {})
         \/ GoTo(c, "observe", {})
  BY DEF StagingFails, StagingDone, RemovalManifestsDone, CommitRefused, RemovalsDone,
         ActivationsDone, Converged, DriftRepaired, Held, At
<1>2. /\ Accounted /\ Announced(cmd) /\ Listed(cmd) /\ cmd.kind \in Offered
      /\ cmd.step \in OperationSteps => op \in OperationId
      /\ cmd \in Running /\ command \in CommandType
      /\ cmd.stages \in SUBSET Package /\ cmd.removals \in SUBSET Package
      /\ Containers(op) \in SUBSET Package
      /\ cmd.stages \cup cmd.removals \in SUBSET Package
      /\ {} \in SUBSET Package
  BY <1>1, AccountOf DEF Containers
<1>3. PICK step \in Steps, todo \in SUBSET Package :
        /\ GoTo(c, step, todo)
        /\ \/ cmd.step \in {"stage", "commit"} /\ step = "undo" /\ todo = Containers(op)
           \/ /\ cmd.step \in {"stage", "removals", "remove"}
              /\ step \in {"removals", "commit", "remove", "activate"}
           \/ cmd.step = "activate" /\ step = "discard" /\ todo = cmd.stages \cup cmd.removals
           \/ step \in {"marker", "observe"}
  BY <1>1, <1>2 DEF Steps
<1>4. /\ SameTask(c) /\ command'[c].step = step /\ command'[c].todo = todo
      /\ command'[c].operation = op
  BY <1>2, <1>3, GoToMoves
<1>5. UNCHANGED <<pendingOperations, staging>> /\ Fewer
  BY <1>1 DEF registryVars, fileVars, Fewer
<1>6. Announced(command[c])'
  BY <1>2, <1>3, <1>4, <1>5 DEF Announced, SameTask
<1>7. cmd.step = "activate" => Containers(op) \subseteq cmd.stages \cup cmd.removals
  BY <1>2, RowListsContainers DEF Announced, OperationSteps
<1>8. Listed(command[c])'
  BY <1>3, <1>4, <1>5, <1>7 DEF Listed, Containers
<1>. QED BY <1>2, <1>4, <1>5, <1>6, <1>8, AccountRests DEF AccountKept, Accounts, SameTask

(* Announcing an operation adds its row, planning and starting none.       *)
LEMMA PlanningAccounts ==
  ASSUME RightInv, AccountInv, NEW c \in Client,
         \/ BeginPending(c) \/ NothingPending(c) \/ Observe(c) \/ CommitAcceptedState(c)
         \/ SyncMarker(c) \/ ObserveLocation(c) \/ RefreshObservations(c)
  PROVE  AccountKept(c)
<1> DEFINE cmd == command[c]
<1>1. cmd.step # "none" /\ UNCHANGED staging
  BY DEF BeginPending, NothingPending, Observe, CommitAcceptedState, SyncMarker,
         ObserveLocation, RefreshObservations, Held, At, MayWriteMarker, fileVars
<1>2. /\ Accounted /\ Announced(cmd) /\ Listed(cmd) /\ cmd.kind \in Offered /\ LifecycleInv
      /\ cmd.kind \in Commands /\ cmd \in Running /\ command \in CommandType
      /\ LockTypeOK /\ Fewer
  BY <1>1, AccountOf DEF LifecycleInv, TypeOK, Fewer
<1>3. CASE BeginPending(c)
  <2> DEFINE op == command'[c].operation
             actions == cmd.stages \cup cmd.removals
  <2>1. /\ SameTask(c) /\ command'[c].step = "stage" /\ op \in OperationId /\ FreshId(op)
        /\ IF cmd.kind \in {"install", "change"}
             THEN BeginPendingOperation(op, cmd.target, actions)
             ELSE BeginPendingReconciliation(op, cmd.target, actions)
    BY <1>2, <1>3, BeginPendingDoes
  <2>2. PICK base : /\ FreshOperation(op)
                    /\ pendingOperations' = pendingOperations \cup
                         {[operation |-> op, target |-> cmd.target, base |-> base,
                           next |-> base + 1, actions |-> actions]}
    BY <2>1 DEF BeginPendingOperation, BeginPendingReconciliation, InsertPending
  <2> DEFINE new == [operation |-> op, target |-> cmd.target, base |-> base,
                     next |-> base + 1, actions |-> actions]
  <2>3. new.operation = op /\ new.actions = actions
    OBVIOUS
  <2>4. pendingOperations' = pendingOperations \cup {new} /\ FreshOperation(op)
    BY <2>2
  <2> HIDE DEF new, op, actions
  <2>5. OneRowEach'
    BY <1>2, <2>3, <2>4 DEF Accounted, OneRowEach, FreshOperation
  <2>6. ContainersKnown'
    <3> SUFFICES ASSUME NEW o \in OperationId, NEW m \in Package, staging'[o][m] # NoContainer
                 PROVE  RowNames(o, m)' \/ SwapsDrift(o, m)'
      BY DEF ContainersKnown
    <3>1. o # op /\ (RowNames(o, m) \/ SwapsDrift(o, m))
      BY <1>1, <1>2, <2>1 DEF FreshId, Accounted, ContainersKnown, op
    <3>. QED BY <1>1, <2>3, <2>4, <3>1 DEF RowNames, SwapsDrift
  <2>7. Announced(command[c])' /\ Listed(command[c])'
    BY <2>1, <2>3, <2>4 DEF Announced, Listed, SameTask, op, actions
  <2>. QED BY <1>2, <2>1, <2>5, <2>6, <2>7 DEF AccountKept, Accounted, Accounts, SameTask
<1>4. CASE NothingPending(c) \/ Observe(c) \/ SyncMarker(c) \/ ObserveLocation(c)
           \/ RefreshObservations(c)
  <2>1. UNCHANGED pendingOperations
    BY <1>4 DEF NothingPending, Observe, SyncMarker, ObserveLocation, RefreshObservations,
       ObserveTargetLocation, ReplaceDependencyObservations, registryVars
  <2>2. \/ command'[c] = Idle
        \/ /\ command'[c].kind = cmd.kind
           /\ command'[c].step \in {"marker", "clean", "location", "observations", "done"}
    <3>1. CASE NothingPending(c)
      BY <1>2, <3>1, NothingPendingDoes DEF SameTask
    <3>2. CASE Observe(c)
      BY <1>2, <3>2, ObserveDoes
    <3>3. CASE SyncMarker(c)
      <4>1. PICK step \in {"location", "done", "clean"} : GoTo(c, step, {})
        BY <1>2, <3>3 DEF SyncMarker, Commands
      <4>. QED BY <1>2, <4>1, GoToMoves DEF SameTask, Steps
    <3>4. CASE ObserveLocation(c)
      BY <1>2, <3>4, ObserveLocationDoes DEF SameTask
    <3>5. CASE RefreshObservations(c)
      <4>1. Return(c) \/ GoTo(c, "done", {})
        BY <3>5 DEF RefreshObservations
      <4>. QED BY <1>2, <4>1, GoToMoves, ReturnMoves DEF SameTask, Steps
    <3>. QED BY <1>4, <3>1, <3>2, <3>3, <3>4, <3>5
  <2>. QED BY <1>2, <2>1, <2>2, AccountRests
           DEF AccountKept, Accounts, Announced, Listed, Busy
<1>5. CASE CommitAcceptedState(c)
  <2>1. /\ SameTask(c) /\ cmd.step = "commit"
        /\ command'[c].step = "remove" /\ command'[c].operation = cmd.operation
        /\ UNCHANGED pendingOperations
    BY <1>2, <1>5, CommitDoes DEF ReplaceTargetState, ReplaceFreshTargetState, ReplaceTargetRows
  <2>. QED BY <1>2, <2>1, AccountRests
           DEF AccountKept, Accounts, Announced, Listed, SameTask
<1>. QED BY <1>3, <1>4, <1>5

(* Cleanup takes its list from the row it is going to delete.              *)
LEMMA ReadPendingAccounts ==
  ASSUME RightInv, AccountInv, NEW c \in Client, ReadPending(c)
  PROVE  AccountKept(c)
<1> DEFINE cmd == command[c]
<1>1. /\ cmd.step = "clean" /\ SameTask(c) /\ UNCHANGED <<registryVars, fileVars>>
      /\ IF PendingOf(cmd.target) = {}
           THEN command'[c].step = AfterClean(c)
           ELSE \E row \in PendingOf(cmd.target) :
                  /\ command'[c].step = "cleaning" /\ command'[c].todo = row.actions
                  /\ command'[c].operation = row.operation /\ row.operation \in OperationId
  BY ReadPendingDoes DEF RightInv
<1>2. Accounted /\ cmd.kind \in Offered /\ UNCHANGED <<pendingOperations, staging>> /\ Fewer
  BY <1>1, AccountOf DEF registryVars, fileVars, Fewer
<1>3. Announced(command[c])' /\ Listed(command[c])'
  <2>1. CASE PendingOf(cmd.target) = {}
    BY <1>1, <2>1 DEF Announced, Listed, AfterClean
  <2>2. CASE PendingOf(cmd.target) # {}
    <3>1. PICK row \in pendingOperations :
            /\ command'[c].step = "cleaning" /\ command'[c].todo = row.actions
            /\ command'[c].operation = row.operation /\ row.operation \in OperationId
      BY <1>1, <2>2 DEF PendingOf
    <3>2. Containers(row.operation) \subseteq row.actions
      BY <1>2, <3>1, RowListsContainers
    <3>. QED BY <1>2, <3>1, <3>2 DEF Announced, Listed, Containers
  <2>. QED BY <2>1, <2>2
<1>. QED BY <1>1, <1>2, <1>3, AccountRests DEF AccountKept, Accounts, SameTask

(* A container comes only where the row of the operation says so.          *)
LEMMA StagingAccounts ==
  ASSUME RightInv, AccountInv, NEW c \in Client,
         StageProjection(c) \/ WriteStageManifest(c) \/ WriteRemovalManifest(c)
  PROVE  AccountKept(c)
<1> DEFINE cmd == command[c]
           op == cmd.operation
<1>1. /\ cmd.step \in {"stage", "manifest", "removals"} /\ cmd.step # "none"
      /\ UNCHANGED <<registryVars, live, marker>>
  BY DEF StageProjection, WriteStageManifest, WriteRemovalManifest, Held, At
<1>2. /\ Accounted /\ Announced(cmd) /\ cmd.kind \in Offered /\ LifecycleInv /\ PlanFits(cmd)
      /\ op \in OperationId /\ cmd \in Running /\ command \in CommandType /\ FilesTypeOK
      /\ cmd.todo \subseteq Package /\ cmd.hand \subseteq Package
      /\ cmd.kind # "recover"
      /\ \A n \in Package : /\ cmd.next[n] \in Digest \cup {NoDigest}
                            /\ cmd.current[n] \in Digest \cup {NoDigest}
  BY <1>1, AccountOf, RightRuns DEF OperationSteps, StepsOf, Content
<1>3. \E n \in cmd.stages \cup cmd.removals :
        /\ n \in Package /\ StagingOnlyAt(op, n)
        /\ SameTask(c) /\ command'[c].operation = op
        /\ command'[c].step \in {"stage", "manifest", "removals"}
  <2>1. CASE StageProjection(c)
    <3>1. PICK n \in cmd.todo :
            /\ cmd.step = "stage" /\ StageContainer(op, n, cmd.next[n])
            /\ SameTask(c) /\ command'[c].step = "manifest" /\ command'[c].operation = op
      BY <1>2, <2>1, StageProjectionDoes
    <3>. QED BY <1>1, <1>2, <3>1, StageContainerStages DEF PlanFits
  <2>2. CASE WriteStageManifest(c)
    <3>1. PICK n \in cmd.hand : /\ cmd.step = "manifest" /\ GoTo(c, "stage", cmd.todo)
                                /\ WriteManifest(op, n, "stage", cmd.current[n])
      BY <2>2 DEF WriteStageManifest, At
    <3>2. SameTask(c) /\ command'[c].step = "stage" /\ command'[c].operation = op
      BY <1>2, <3>1, GoToMoves DEF Steps
    <3>3. StagingOnlyAt(op, n)
      BY <1>1, <1>2, <3>1, WriteManifestKeeps
    <3>. QED BY <1>2, <3>1, <3>2, <3>3 DEF PlanFits
  <2>3. CASE WriteRemovalManifest(c)
    <3>1. PICK n \in cmd.todo : /\ cmd.step = "removals" /\ Ticked(c, n)
                                /\ WriteManifest(op, n, "remove", cmd.current[n])
      BY <2>3 DEF WriteRemovalManifest, Held, At
    <3>2. SameTask(c) /\ command'[c].step = "removals" /\ command'[c].operation = op
      BY <1>2, <3>1, TickedMoves
    <3>3. StagingOnlyAt(op, n)
      BY <1>1, <1>2, <3>1, WriteManifestKeeps
    <3>. QED BY <1>2, <3>1, <3>2, <3>3 DEF PlanFits
  <2>. QED BY <2>1, <2>2, <2>3
<1>4. PICK n \in cmd.stages \cup cmd.removals :
        /\ n \in Package /\ StagingOnlyAt(op, n)
        /\ SameTask(c) /\ command'[c].operation = op
        /\ command'[c].step \in {"stage", "manifest", "removals"}
  BY <1>3
<1>5. PICK row \in pendingOperations :
        row.operation = op /\ row.actions = cmd.stages \cup cmd.removals
  BY <1>1, <1>2 DEF Announced
<1>6. UNCHANGED pendingOperations
  BY <1>1 DEF registryVars
<1>7. ContainersKnown'
  <2> SUFFICES ASSUME NEW o \in OperationId, NEW m \in Package, staging'[o][m] # NoContainer
               PROVE  RowNames(o, m)' \/ SwapsDrift(o, m)'
    BY DEF ContainersKnown
  <2>1. CASE o = op /\ m = n
    BY <1>4, <1>5, <1>6, <2>1 DEF RowNames
  <2>2. CASE o # op \/ m # n
    <3>1. RowNames(o, m) \/ SwapsDrift(o, m)
      BY <1>2, <1>4, <2>2 DEF StagingOnlyAt, Accounted, ContainersKnown
    <3>2. SwapsDrift(o, m) => o # op
      BY <1>5 DEF SwapsDrift
    <3>. QED BY <1>2, <1>4, <1>6, <3>1, <3>2 DEF RowNames, SwapsDrift, StagingOnlyAt
  <2>. QED BY <2>1, <2>2
<1>8. OneRowEach'
  BY <1>2, <1>6 DEF Accounted, OneRowEach
<1>9. Announced(command[c])' /\ Listed(command[c])'
  BY <1>4, <1>5, <1>6 DEF Announced, Listed, SameTask
<1>. QED BY <1>2, <1>4, <1>7, <1>8, <1>9 DEF AccountKept, Accounted, Accounts, SameTask

(* The row goes only when no container of its operation is left.           *)
LEMMA CompletionAccounts ==
  ASSUME Accounted, NEW op \in OperationId, Containers(op) = {},
         CompletePendingOperation(op), UNCHANGED staging
  PROVE  Accounted'
<1>1. pendingOperations' = {row \in pendingOperations : row.operation # op}
  BY DEF CompletePendingOperation
<1>2. \A n \in Package : staging[op][n] = NoContainer
  BY DEF Containers
<1>3. ASSUME NEW o \in OperationId, NEW n \in Package, staging'[o][n] # NoContainer
      PROVE  RowNames(o, n)' \/ SwapsDrift(o, n)'
  <2>1. o # op /\ (RowNames(o, n) \/ SwapsDrift(o, n))
    BY <1>2, <1>3 DEF Accounted, ContainersKnown
  <2>. QED BY <1>1, <2>1 DEF RowNames, SwapsDrift
<1>. QED BY <1>1, <1>3 DEF Accounted, ContainersKnown, OneRowEach

(* Taking staging back, discarding it or cleaning it up: containers go     *)
(* first, their row goes last.                                             *)
LEMMA CleaningAccounts ==
  ASSUME RightInv, AccountInv, NEW c \in Client,
         UndoStaging(c) \/ DiscardStaging(c) \/ CleanPending(c)
  PROVE  AccountKept(c)
<1> DEFINE cmd == command[c]
           op == cmd.operation
<1>1. cmd.step \in {"undo", "discard", "cleaning"} /\ cmd.step # "none"
  BY DEF UndoStaging, DiscardStaging, CleanPending, Held, At
<1>2. /\ Accounted /\ Listed(cmd) /\ cmd.kind \in Offered /\ LifecycleInv
      /\ op \in OperationId /\ cmd \in Running /\ command \in CommandType /\ FilesTypeOK
      /\ cmd.todo \subseteq Package /\ LockTypeOK
  BY <1>1, AccountOf DEF OperationSteps, LifecycleInv, TypeOK
<1>3. \/ /\ SameTask(c) /\ command'[c].step = cmd.step /\ command'[c].operation = op
         /\ UNCHANGED registryVars
         /\ \E n \in cmd.todo : RemoveContainer(op, n) /\ command'[c].todo = cmd.todo \ {n}
      \/ /\ cmd.todo = {} /\ CompletePendingOperation(op) /\ UNCHANGED staging
         /\ \/ command'[c] = Idle
            \/ SameTask(c) /\ command'[c].step \in {"marker", "pending", "done"}
  <2>1. CASE UndoStaging(c)
    <3>1. \/ \E n \in cmd.todo : RemoveContainer(op, n) /\ Ticked(c, n) /\ UNCHANGED registryVars
          \/ cmd.todo = {} /\ CompletePendingOperation(op) /\ Return(c) /\ UNCHANGED staging
      BY <2>1 DEF UndoStaging
    <3>. QED BY <1>2, <3>1, TickedMoves, ReturnMoves
  <2>2. CASE DiscardStaging(c)
    <3>1. \/ \E n \in cmd.todo : RemoveContainer(op, n) /\ Ticked(c, n) /\ UNCHANGED registryVars
          \/ cmd.todo = {} /\ CompletePendingOperation(op) /\ GoTo(c, "marker", {}) /\ UNCHANGED staging
      BY <2>2 DEF DiscardStaging
    <3>2. GoTo(c, "marker", {}) => SameTask(c) /\ command'[c].step = "marker"
      BY <1>2, GoToMoves DEF Steps
    <3>. QED BY <1>2, <3>1, <3>2, TickedMoves
  <2>3. CASE CleanPending(c)
    BY <1>2, <2>3, CleanPendingDoes DEF AfterClean
  <2>. QED BY <2>1, <2>2, <2>3
<1>4. CASE /\ SameTask(c) /\ command'[c].step = cmd.step /\ command'[c].operation = op
           /\ UNCHANGED registryVars
           /\ \E n \in cmd.todo : RemoveContainer(op, n) /\ command'[c].todo = cmd.todo \ {n}
  <2>1. PICK n \in cmd.todo : RemoveContainer(op, n) /\ command'[c].todo = cmd.todo \ {n}
    BY <1>4
  <2>2. StagingOnlyAt(op, n) /\ staging'[op][n] = NoContainer
    BY <1>2, <2>1, RemoveContainerRemoves
  <2>3. Fewer /\ UNCHANGED pendingOperations
    BY <1>4, <2>2 DEF Fewer, StagingOnlyAt, registryVars
  <2>4. Containers(op)' \subseteq cmd.todo \ {n}
    BY <1>1, <1>2, <1>4, <2>2, <2>3 DEF Listed, Containers, Fewer
  <2>5. Announced(command[c])' /\ Listed(command[c])'
    BY <1>1, <1>4, <2>1, <2>4 DEF Announced, Listed, Containers
  <2>. QED BY <1>2, <1>4, <2>3, <2>5, AccountRests DEF AccountKept, Accounts, SameTask
<1>5. CASE /\ cmd.todo = {} /\ CompletePendingOperation(op) /\ UNCHANGED staging
           /\ \/ command'[c] = Idle
              \/ SameTask(c) /\ command'[c].step \in {"marker", "pending", "done"}
  <2>1. Accounted'
    BY <1>1, <1>2, <1>5, CompletionAccounts DEF Listed
  <2>. QED BY <1>2, <1>5, <2>1 DEF AccountKept, Accounts, Announced, Listed, SameTask, Busy
<1>. QED BY <1>3, <1>4, <1>5

(* Removing and activating neither make nor remove a container.            *)
LEMMA LiveStepAccounts ==
  ASSUME RightInv, AccountInv, NEW c \in Client,
         \/ VerifyRemoval(c) \/ RemoveProjection(c) \/ RecoverRemoval(c) \/ RecoverActivated(c)
         \/ ActivateNew(c) \/ VerifyCurrent(c) \/ RetireCurrent(c) \/ ActivateAtOnce(c)
         \/ RecoverActivation(c) \/ ActivateRetired(c)
  PROVE  AccountKept(c)
<1> DEFINE cmd == command[c]
           op == cmd.operation
<1>1. /\ cmd.step \in {"remove", "removing", "activate", "converge", "retire", "swap"}
      /\ cmd.step # "none"
      /\ UNCHANGED <<registryVars, marker>>
  BY DEF VerifyRemoval, RemoveProjection, RecoverRemoval, RecoverActivated, ActivateNew,
         VerifyCurrent, RetireCurrent, ActivateAtOnce, RecoverActivation, ActivateRetired, Held,
         At, MayRetire, MaySwap, fileVars
<1>2. /\ Accounted /\ Announced(cmd) /\ cmd.kind \in Offered /\ LifecycleInv
      /\ op \in OperationId /\ cmd \in Running /\ command \in CommandType /\ FilesTypeOK
      /\ cmd.todo \subseteq Package /\ cmd.hand \subseteq Package
      /\ cmd.kind \in Commands /\ cmd.step \in StepsOf(cmd.kind) /\ cmd.todo \in SUBSET Package
  BY <1>1, AccountOf DEF OperationSteps
<1>3. /\ \/ UNCHANGED staging
         \/ \E n \in cmd.todo \cup cmd.hand : Activate(op, n) \/ Retire(op, n)
      /\ \/ \E n \in cmd.todo : Ticked(c, n)
         \/ cmd.step \in {"remove", "converge"} /\ \E n \in cmd.todo : Half(c, "removing", n)
         \/ cmd.step = "removing" /\ GoTo(c, AfterRemoving(c), cmd.todo)
         \/ cmd.step \in {"activate", "converge"} /\ \E n \in cmd.todo : Half(c, "retire", n)
         \/ cmd.step = "retire" /\ command' = [command EXCEPT ![c].step = "swap"]
         \/ cmd.step = "retire" /\ cmd.kind = "recover" /\ GoTo(c, "converge", cmd.todo)
         \/ /\ cmd.step = "swap"
            /\ GoTo(c, IF cmd.kind = "recover" THEN "converge" ELSE "activate", cmd.todo)
  <2>1. CASE VerifyRemoval(c) \/ RecoverRemoval(c) \/ RecoverActivated(c)
    <3>1. /\ cmd.step \in {"remove", "converge"} /\ UNCHANGED staging
          /\ \E n \in cmd.todo : Ticked(c, n) \/ Half(c, "removing", n)
      BY <2>1 DEF VerifyRemoval, RecoverRemoval, RecoverActivated, Held, At, fileVars
    <3>. QED BY <3>1
  <2>2. CASE VerifyCurrent(c) \/ RecoverActivation(c)
    <3>1. /\ cmd.step \in {"activate", "converge"} /\ UNCHANGED staging
          /\ \E n \in cmd.todo : Half(c, "retire", n)
      BY <2>2 DEF VerifyCurrent, RecoverActivation, Held, At, fileVars
    <3>. QED BY <3>1
  <2>3. CASE RemoveProjection(c)
    BY <2>3 DEF RemoveProjection, At
  <2>4. CASE ActivateNew(c)
    BY <2>4 DEF ActivateNew
  <2>5. CASE RetireCurrent(c) \/ ActivateAtOnce(c)
    BY <2>5 DEF RetireCurrent, ActivateAtOnce, MayRetire, At
  <2>6. CASE ActivateRetired(c)
    BY <2>6 DEF ActivateRetired, MaySwap, At
  <2>. QED BY <2>1, <2>2, <2>3, <2>4, <2>5, <2>6
<1>4. Fewer
  <2>1. CASE UNCHANGED staging
    BY <2>1 DEF Fewer
  <2>2. CASE \E n \in cmd.todo \cup cmd.hand : Activate(op, n) \/ Retire(op, n)
    <3>1. PICK n \in Package : Activate(op, n) \/ Retire(op, n)
      BY <1>2, <2>2
    <3>2. /\ StagingOnlyAt(op, n) /\ staging[op][n] # NoContainer
          /\ staging'[op][n].action = staging[op][n].action
      BY <1>1, <1>2, <3>1, ActivateShows, RetireKeeps DEF Holds
    <3>. QED BY <3>2 DEF StagingOnlyAt, Fewer
  <2>. QED BY <1>3, <2>1, <2>2
<1>5. /\ SameTask(c) /\ command'[c].operation = op
      /\ \/ command'[c].step = cmd.step
         \/ cmd.step \in {"remove", "converge"} /\ command'[c].step = "removing"
         \/ cmd.step = "removing" /\ command'[c].step = AfterRemoving(c)
         \/ cmd.step \in {"activate", "converge"} /\ command'[c].step = "retire"
         \/ cmd.step = "retire" /\ command'[c].step = "swap"
         \/ cmd.step = "retire" /\ cmd.kind = "recover" /\ command'[c].step = "converge"
         \/ /\ cmd.step = "swap"
            /\ command'[c].step = IF cmd.kind = "recover" THEN "converge" ELSE "activate"
  <2>1. CASE \E n \in cmd.todo : Ticked(c, n)
    BY <1>2, <2>1, TickedMoves
  <2>2. CASE cmd.step \in {"remove", "converge"} /\ \E n \in cmd.todo : Half(c, "removing", n)
    BY <1>2, <2>2, HalfMoves DEF Steps
  <2>3. CASE cmd.step \in {"activate", "converge"} /\ \E n \in cmd.todo : Half(c, "retire", n)
    BY <1>2, <2>3, HalfMoves DEF Steps
  <2>4. CASE cmd.step = "retire" /\ command' = [command EXCEPT ![c].step = "swap"]
    BY <1>2, <2>4, SwapFollows
  <2>5. ASSUME NEW step \in {"remove", "activate", "converge"}, GoTo(c, step, cmd.todo)
        PROVE  SameTask(c) /\ command'[c].operation = op /\ command'[c].step = step
    BY <1>2, <2>5, GoToMoves DEF Steps
  <2>6. AfterRemoving(c) \in {"remove", "converge"}
    BY DEF AfterRemoving
  <2>. QED BY <1>3, <2>1, <2>2, <2>3, <2>4, <2>5, <2>6
<1>6. /\ cmd.step = "converge" => cmd.kind = "recover"
      /\ cmd.step \in {"remove", "activate"} => cmd.kind # "recover"
  BY <1>2 DEF StepsOf, Commands, DriftSteps
<1>7. UNCHANGED pendingOperations
  BY <1>1 DEF registryVars
<1>8. Announced(command[c])' /\ Listed(command[c])'
  BY <1>1, <1>2, <1>5, <1>6, <1>7 DEF Announced, Listed, SameTask, AfterRemoving
<1>. QED BY <1>2, <1>4, <1>5, <1>7, <1>8, AccountRests DEF AccountKept, Accounts, SameTask

(* Repair swaps what has drifted in a container of its own.                *)
LEMMA DriftAccounts ==
  ASSUME RightInv, AccountInv, NEW c \in Client,
         RepairDrift(c) \/ DriftRetire(c) \/ DriftSwap(c) \/ DriftSwapFails(c) \/ DriftDiscard(c)
  PROVE  AccountKept(c)
<1> DEFINE cmd == command[c]
           op == cmd.operation
<1>1. cmd.step \in DriftSteps /\ cmd.step # "none" /\ UNCHANGED <<registryVars, marker>>
  BY DEF RepairDrift, DriftRetire, DriftSwap, DriftSwapFails, DriftDiscard, Held, At, DriftSteps
<1>2. /\ Accounted /\ cmd.kind \in Offered /\ LifecycleInv /\ FilesTypeOK /\ LockTypeOK
      /\ cmd \in Running /\ command \in CommandType /\ UNCHANGED pendingOperations
      /\ cmd.step \in OperationSteps => op \in OperationId
      /\ cmd.todo \subseteq Package /\ cmd.hand \subseteq Package
      /\ cmd.kind = "repair"
  BY <1>1, AccountOf DEF LifecycleInv, TypeOK, StepsOf, DriftSteps, Commands, registryVars
<1>3. \/ command'[c] = Idle
      \/ command'[c].kind = cmd.kind /\ command'[c].step \in DriftSteps
  <2>1. CASE RepairDrift(c)
    BY <1>2, <2>1, RepairDriftDoes DEF SameTask, DriftSteps
  <2>2. CASE DriftDiscard(c)
    BY <1>2, <2>2, DriftDiscardDoes DEF SameTask, DriftSteps
  <2>3. CASE DriftRetire(c) \/ DriftSwap(c) \/ DriftSwapFails(c)
    <3>1. \/ Return(c)
          \/ \E step \in DriftSteps : command' = [command EXCEPT ![c].step = step]
      BY <2>3 DEF DriftRetire, DriftSwap, DriftSwapFails, DriftSteps
    <3>2. CASE Return(c)
      BY <1>2, <3>2, ReturnMoves
    <3>3. CASE \E step \in DriftSteps : command' = [command EXCEPT ![c].step = step]
      <4>1. PICK step \in DriftSteps : command' = [command EXCEPT ![c].step = step]
        BY <3>3
      <4>. QED BY <1>2, <4>1, DriftStepMoves DEF DriftSteps, Steps, SameTask
    <3>. QED BY <3>1, <3>2, <3>3
  <2>. QED BY <2>1, <2>2, <2>3
<1>4. ASSUME RepairDrift(c) PROVE Accounted'
  <2>1. PICK n \in cmd.todo :
          IF Drifted(n, cmd.next)
            THEN FreshId(command'[c].operation) /\ command'[c].operation \in OperationId
                 /\ StageContainer(command'[c].operation, n, cmd.next[n])
            ELSE UNCHANGED staging
    BY <1>2, <1>4, RepairDriftDoes
  <2>2. CASE UNCHANGED staging
    BY <1>2, <2>2, AccountRests DEF Fewer
  <2>3. CASE FreshId(command'[c].operation) /\ command'[c].operation \in OperationId
             /\ StageContainer(command'[c].operation, n, cmd.next[n])
    <3>0. PICK new \in OperationId : FreshId(new) /\ StageContainer(new, n, cmd.next[n])
      BY <2>3
    <3>1. n \in Package /\ cmd.next[n] \in Digest \cup {NoDigest}
      BY <1>2, <2>1 DEF Running, Content
    <3>2. /\ StagingOnlyAt(new, n) /\ staging'[new][n].action = "none"
          /\ FreshOperation(new) /\ \A m \in Package : staging[new][m] = NoContainer
      BY <1>2, <1>4, <3>0, <3>1, StageContainerStages DEF RepairDrift, FreshId
    <3>3. SwapsDrift(new, n)'
      BY <1>2, <3>1, <3>2 DEF SwapsDrift, StagingOnlyAt, FreshOperation
    <3>4. ASSUME NEW o \in OperationId, NEW m \in Package, staging'[o][m] # NoContainer
          PROVE  RowNames(o, m)' \/ SwapsDrift(o, m)'
      <4>1. CASE o = new
        <5>1. m = n
          BY <3>2, <3>4, <4>1 DEF StagingOnlyAt
        <5>. QED BY <3>3, <4>1, <5>1
      <4>2. CASE o # new
        <5>1. RowNames(o, m) \/ SwapsDrift(o, m)
          BY <1>2, <3>2, <3>4, <4>2 DEF StagingOnlyAt, Accounted, ContainersKnown
        <5>. QED BY <1>2, <3>2, <4>2, <5>1 DEF RowNames, SwapsDrift, StagingOnlyAt
      <4>. QED BY <4>1, <4>2
    <3>. QED BY <1>2, <3>4 DEF Accounted, ContainersKnown, OneRowEach
  <2>. QED BY <2>1, <2>2, <2>3
<1>5. ASSUME DriftRetire(c) \/ DriftSwap(c) \/ DriftSwapFails(c) \/ DriftDiscard(c)
      PROVE  Accounted'
  <2>1. cmd.step \in OperationSteps
    BY <1>5 DEF DriftRetire, DriftSwap, DriftSwapFails, DriftDiscard, Held, At, OperationSteps
  <2>2. \/ UNCHANGED staging
        \/ \E n \in cmd.hand : Activate(op, n) \/ Retire(op, n) \/ RemoveContainer(op, n)
    BY <1>5 DEF DriftRetire, DriftSwap, DriftSwapFails, DriftDiscard
  <2>3. CASE UNCHANGED staging
    BY <1>2, <2>3, AccountRests DEF Fewer
  <2>4. CASE \E n \in cmd.hand : Activate(op, n) \/ Retire(op, n) \/ RemoveContainer(op, n)
    <3>1. PICK n \in Package : Activate(op, n) \/ Retire(op, n) \/ RemoveContainer(op, n)
      BY <1>2, <2>4
    <3>2. /\ StagingOnlyAt(op, n)
          /\ \/ staging'[op][n] = NoContainer
             \/ staging[op][n] # NoContainer /\ staging'[op][n].action = staging[op][n].action
      BY <1>1, <1>2, <2>1, <3>1, ActivateShows, RetireKeeps, RemoveContainerRemoves DEF Holds
    <3>3. Fewer
      BY <3>2 DEF StagingOnlyAt, Fewer
    <3>. QED BY <1>2, <3>3, AccountRests
  <2>. QED BY <2>2, <2>3, <2>4
<1>. QED BY <1>2, <1>3, <1>4, <1>5 DEF AccountKept, Accounts, Announced, Listed, DriftSteps, Busy

(* A command that starts has neither row nor list yet.                     *)
LEMMA StartAccounts ==
  ASSUME RightInv, AccountInv, NEW c \in Client, StartStep(c)
  PROVE  AccountKept(c)
<1>1. /\ command'[c].kind \in Offered /\ UNCHANGED <<registryVars, fileVars>>
      /\ command'[c].step \in {"pending", "clean", "converge", "observe", "drift"}
  <2>1. PICK new : Start(c, new)
    BY DEF StartStep, StartInstall, StartChange, StartRecover, StartSync, StartRepair
  <2>2. command'[c] = new /\ new.kind \in Offered /\ UNCHANGED <<registryVars, fileVars>>
    BY <2>1 DEF Start, RightInv, LifecycleInv, TypeOK, CommandsTypeOK
  <2>3. command'[c].step \in {"pending", "clean", "converge", "observe", "drift"}
    BY StartInstallDoes, StartChangeDoes, StartRecoverDoes, StartSyncDoes DEF StartStep, RightInv
  <2>. QED BY <2>1, <2>2, <2>3
<1>2. Fewer /\ UNCHANGED pendingOperations
  BY <1>1 DEF registryVars, fileVars, Fewer
<1>. QED BY <1>1, <1>2, AccountRests DEF AccountInv, AccountKept, Accounts, Announced, Listed

(* Every step of a command keeps the account.                              *)
LEMMA CommandAccounts ==
  ASSUME RightInv, AccountInv, NEW c \in Client,
         CommandStep(c) \/ StartStep(c) \/ LockIsLost(c) \/ Stop(c)
  PROVE  AccountKept(c)
<1>1. CASE RepairDrift(c) \/ DriftRetire(c) \/ DriftSwap(c) \/ DriftSwapFails(c) \/ DriftDiscard(c)
  BY <1>1, DriftAccounts
<1>2. CASE ReconcileStep(c)
  BY <1>2, GivingUpAccounts, LoopStepAccounts, PlanningAccounts, ReadPendingAccounts,
     StagingAccounts, CleaningAccounts, LiveStepAccounts DEF ReconcileStep
<1>3. CASE /\ CommandStep(c) /\ ~ReconcileStep(c)
           /\ ~(RepairDrift(c) \/ DriftRetire(c) \/ DriftSwap(c) \/ DriftSwapFails(c) \/ DriftDiscard(c))
  BY <1>3, GivingUpAccounts, LoopStepAccounts, PlanningAccounts, LiveStepAccounts DEF CommandStep
<1>4. CASE StartStep(c) \/ LockIsLost(c) \/ Stop(c)
  BY <1>4, StartAccounts, GivingUpAccounts
<1>. QED BY <1>1, <1>2, <1>3, <1>4

(* As long as one command runs at a time, the account stays right.         *)
LEMMA AccountInvStep ==
  ASSUME RightInv, AccountInv, OneAtATime, OneAtATime', [Next]_vars
  PROVE  AccountInv'
<1>1. ASSUME NEW c \in Client, CommandStep(c) \/ StartStep(c) \/ LockIsLost(c) \/ Stop(c)
      PROVE  AccountInv'
  <2>1. AccountKept(c)
    BY <1>1, CommandAccounts
  <2>2. OthersWait(c)
    BY <1>1, CommandStepFits, GivingUpFits DEF Preserves, RightInv
  <2>3. Busy(c) \/ Busy(c)'
    BY <1>1, StepOfBusy, StartedIsBusy DEF RightInv
  <2>4. ASSUME NEW d \in Client, Busy(d)'
        PROVE  Accounts(command[d])'
    <3>1. d # c => Busy(d)
      BY <2>2, <2>4 DEF OthersWait, Busy
    <3>2. d = c
      BY <2>3, <2>4, <3>1 DEF OneAtATime
    <3>. QED BY <2>1, <2>4, <3>2 DEF AccountKept
  <2>. QED BY <2>1, <2>4 DEF AccountInv, AccountKept
<1>2. ASSUME UNCHANGED <<registryVars, staging, command>>
      PROVE  AccountInv'
  <2>1. Fewer /\ UNCHANGED <<pendingOperations, staging>>
    BY <1>2 DEF registryVars, Fewer
  <2>2. Accounted'
    BY <2>1, AccountRests DEF AccountInv
  <2>. QED BY <1>2, <2>1, <2>2
           DEF AccountInv, Accounts, Announced, Listed, Containers, Busy
<1>3. CASE UserEdit
  BY <1>2, <1>3 DEF UserEdit
<1>4. CASE UNCHANGED vars
  BY <1>2, <1>4 DEF vars, reconcileVars, fileVars
<1>. QED BY <1>1, <1>2, <1>3, <1>4 DEF Next, Work, fileVars

(* At the start nothing is staged or announced.                            *)
LEMMA AccountStarts == Init => AccountInv
BY DEF Init, ReconcileInit, FilesInit, RegistryInit, AccountInv, Accounted, ContainersKnown,
       OneRowEach, Busy

(* Whoever dies between staging and cleanup leaves a pending row that      *)
(* names every container it has made: the row is written before the first  *)
(* (prepareReconciliationStaging) and deleted after the last               *)
(* (cleanupPendingTargetStaging), on every path through a command.  The    *)
(* only containers without a row are those in which repair swaps a drifted *)
(* projection, one to an operation and without a manifest.                 *)
THEOREM StagingStaysKnown == Spec /\ []OneAtATime => []ContainersKnown
<1>1. Init => AccountInv
  BY AccountStarts
<1>2. RightInv /\ AccountInv /\ OneAtATime /\ OneAtATime' /\ [Next]_vars => AccountInv'
  BY AccountInvStep
<1>3. AccountInv => ContainersKnown
  BY DEF AccountInv, Accounted
<1>. QED BY <1>1, <1>2, <1>3, CommandsStayRight, PTL DEF Spec

(* Where nobody repairs drift, every container has its row.                *)
THEOREM StagingStaysAccounted ==
  ASSUME "repair" \notin Offered
  PROVE  Spec /\ []OneAtATime => []StagingAccounted
<1>1. ContainersKnown => StagingAccounted
  BY DEF ContainersKnown, RowNames, SwapsDrift, StagingAccounted
<1>. QED BY <1>1, StagingStaysKnown, PTL

----------------------------------------------------------------------------
(* A marker hides no projection that has left the accepted state.          *)

(* The marker lags behind the target that has the directory, or says what  *)
(* is accepted.                                                            *)
MarkerFits ==
  marker # NoMarker =>
    /\ Owns(marker.target)
    /\ marker.generation <= generation[marker.target]
    /\ marker.generation = generation[marker.target] =>
         marker.packages = resolvedPackages[marker.target]

(* The projections of content that is no longer accepted.                  *)
OrphansOf(t) == {n \in Package : resolvedPackages[t][n] = NoDigest /\ live[n] \in Digest}

(* Whoever comes next can tell them from the user's own files: the marker  *)
(* still has them, and so has the row of an operation whose commit it was. *)
OrphansKnown ==
  \A t \in TargetId : Owns(t) =>
    \A n \in OrphansOf(t) : marker # NoMarker /\ marker.packages[n] = live[n]

RowsKnowOrphans ==
  \A row \in pendingOperations :
    Owns(row.target) /\ generation[row.target] # row.base =>
      OrphansOf(row.target) \subseteq row.actions

(* Nothing is projected into a directory that no target has.               *)
NoneBefore == (\A t \in TargetId : ~Owns(t)) => \A n \in Package : live[n] \notin Digest

OldKnown == MarkerFits /\ OrphansKnown /\ RowsKnowOrphans /\ NoneBefore

(* What a command stages has a place in the next state, ...                *)
Wanted(cmd) ==
  /\ \A n \in cmd.stages : cmd.next[n] # NoDigest
  /\ cmd.step \in {"retire", "swap", "driftRetire", "driftSwap", "driftDiscard"} =>
       \A n \in cmd.hand : cmd.next[n] # NoDigest

(* ... and what is live without one is removed before the marker is        *)
(* written.                                                                *)
OldIn(cmd) == {n \in Package : cmd.next[n] = NoDigest /\ live[n] \in Digest}

OldPlanned(cmd) ==
  /\ cmd.kind = "change" /\ cmd.step \in BeforeCommit =>
       \A n \in OldIn(cmd) :
         cmd.current[n] # NoDigest => live[n] = cmd.current[n] /\ n \in cmd.removals
  /\ cmd.kind \in {"sync", "repair"}
       /\ cmd.step \in {"clean", "cleaning", "pending", "stage", "manifest", "removals"} =>
       OldIn(cmd) \subseteq cmd.removals
  /\ cmd.step = "remove"
       \/ (cmd.kind = "recover" /\ cmd.step \in {"converge", "retire", "swap"}) =>
       OldIn(cmd) \subseteq cmd.todo
  /\ cmd.step = "removing" => OldIn(cmd) \subseteq cmd.todo \cup cmd.hand
  /\ cmd.step \in {"activate", "discard", "marker"}
       \/ (cmd.kind # "recover" /\ cmd.step \in {"retire", "swap"}) =>
       OldIn(cmd) = {}

Sheds(cmd) == Wanted(cmd) /\ OldPlanned(cmd)

OrphanInv == OldKnown /\ \A c \in Client : Busy(c) => Sheds(command[c])

(* A change is committed only where the marker says what it replaces.      *)
Current(t) == marker # NoMarker /\ marker.generation = generation[t]

CommitsCurrent ==
  \A c \in Client :
    At(c, "commit") /\ command[c].kind = "change" /\ command'[c].step = "remove" =>
      Current(command[c].target)

----------------------------------------------------------------------------

(* What comes into the directory has a place in the next state.            *)
WantedComes(c) ==
  \A n \in Package : live'[n] \in {live[n], NoDigest} \/ command[c].next[n] # NoDigest

(* A command shows nothing that its goal does not name.                    *)
LEMMA OnlyWantedComes ==
  ASSUME RightInv, NEW c \in Client, Wanted(command[c]), CommandStep(c)
  PROVE  WantedComes(c)
<1> DEFINE cmd == command[c]
<1>1. CASE UNCHANGED live
  BY <1>1 DEF WantedComes
<1>2. ASSUME ~(UNCHANGED live)
      PROVE  \/ RemoveProjection(c) \/ RetireCurrent(c) \/ DriftRetire(c)
             \/ ActivateNew(c) \/ ActivateAtOnce(c)
             \/ ActivateRetired(c) \/ ActivationFails(c) \/ DriftSwap(c) \/ DriftSwapFails(c)
  <2>1. CASE ReconcileStep(c)
    BY <1>2, <2>1 DEF ReconcileStep, BeginPending, NothingPending, PendingConflict, StageProjection,
       WriteStageManifest, StagingFails, StagingDone, WriteRemovalManifest,
       RemovalManifestsDone, CommitAcceptedState, CommitRefused, UndoStaging, VerifyRemoval,
       RemovalRefused, RemovalsDone, VerifyCurrent, RetireFails, LiveConflict, ActivationsDone,
       DiscardStaging, AcceptedStateMismatch, ReadPending, CleanPending, fileVars
  <2>2. CASE ~ReconcileStep(c)
    BY <1>2, <2>2 DEF CommandStep, Observe, ObserveFails, RepairDrift, DriftRepaired,
       DriftDiscard, RecoverRemoval, RecoverActivated, RecoverActivation, RecoverConflict,
       Converged, SyncMarker, ObserveLocation, RefreshObservations, Done, fileVars
  <2>. QED BY <2>1, <2>2
<1>3. CASE ~(UNCHANGED live)
  <2>1. cmd.step \in {"removing", "activate", "retire", "swap", "driftRetire", "driftSwap"}
        /\ cmd.step # "none"
    BY <1>2, <1>3 DEF RemoveProjection, RetireCurrent, DriftRetire, ActivateNew, ActivateAtOnce,
       ActivateRetired, ActivationFails, DriftSwap, DriftSwapFails, Held, At, MayRetire, MaySwap
  <2>2. PlanFits(cmd) /\ live \in [Package -> LiveContent]
    BY <2>1, RightRuns DEF LifecycleInv, TypeOK, FilesTypeOK
  <2>3. CASE RemoveProjection(c) \/ RetireCurrent(c) \/ DriftRetire(c)
    BY <2>2, <2>3 DEF RemoveProjection, RetireCurrent, DriftRetire, Retire, WantedComes
  <2>4. CASE ActivateNew(c)
    BY <2>2, <2>4 DEF ActivateNew, Activate, WantedComes, Wanted, PlanFits, Held, At
  <2>5. CASE ActivateAtOnce(c)
    BY <2>2, <2>5 DEF ActivateAtOnce, MayRetire, At, Activate, WantedComes, Wanted
  <2>6. CASE ActivateRetired(c) \/ ActivationFails(c)
    BY <2>2, <2>6 DEF ActivateRetired, ActivationFails, MaySwap, At, Activate, Reinstate,
       WantedComes, Wanted
  <2>7. CASE DriftSwap(c) \/ DriftSwapFails(c)
    BY <2>2, <2>7 DEF DriftSwap, DriftSwapFails, At, Activate, WantedComes, Wanted
  <2>. QED BY <1>2, <1>3, <2>3, <2>4, <2>5, <2>6, <2>7
<1>. QED BY <1>1, <1>3

(* What is live stays, goes, or comes as accepted content of the target    *)
(* that has the directory.                                                 *)
NothingOldComes ==
  \A n \in Package :
    live'[n] \in Digest =>
      live'[n] = live[n] \/ \E t \in TargetId : Owns(t) /\ resolvedPackages[t][n] # NoDigest

(* Where nothing old is live, there is nothing to know.                    *)
LEMMA NothingOld ==
  ASSUME RightInv, NEW c \in Client, Wanted(command[c]), CommandStep(c)
  PROVE  NothingOldComes
<1> DEFINE cmd == command[c]
<1>1. WantedComes(c) /\ LiveMoves(c)
  BY OnlyWantedComes, CommandRuns DEF StepRight
<1>2. CASE UNCHANGED live
  BY <1>2 DEF NothingOldComes
<1>3. CASE Settles(cmd)
  <2>1. Busy(c)
    BY StepOfBusy
  <2>2. RunsRight(cmd) /\ cmd \in Running
    BY <2>1 DEF RightInv, CommandsRunRight, LifecycleInv, TypeOK, CommandsTypeOK, Busy
  <2>3. /\ cmd.target \in TargetId /\ Owns(cmd.target)
        /\ cmd.next = resolvedPackages[cmd.target]
    BY <1>3, <2>2 DEF RunsRight, AimsRight, Running
  <2>. QED BY <1>1, <2>3, NoDigestAssumption DEF WantedComes, NothingOldComes
<1>. QED BY <1>1, <1>2, <1>3 DEF LiveMoves

(* While the owner and its state stay, what is known of the old stays      *)
(* known; a new row must know it too.                                      *)
OwnersStay ==
  \A t \in TargetId :
    /\ Owns(t)' <=> Owns(t)
    /\ Owns(t) => generation'[t] = generation[t] /\ resolvedPackages'[t] = resolvedPackages[t]

RowsStay ==
  \A row \in pendingOperations' :
    \/ row \in pendingOperations
    \/ /\ row.target \in TargetId
       /\ Owns(row.target) /\ generation[row.target] # row.base =>
            OrphansOf(row.target) \subseteq row.actions

(* A target whose accepted state stays gains no orphan.                    *)
LEMMA OrphansFade ==
  ASSUME RightInv, OwnersStay, NothingOldComes, NEW t \in TargetId, Owns(t)
  PROVE  \A n \in OrphansOf(t)' : n \in OrphansOf(t) /\ live'[n] = live[n]
<1>1. \A u \in TargetId : Owns(u) => u = t
  BY OwnerIsOne DEF RightInv, LifecycleInv, TypeOK
<1>. QED BY <1>1 DEF OrphansOf, OwnersStay, NothingOldComes

(* While markers, rows and owners stay, what is old stays known.           *)
LEMMA OldStaysKnown ==
  ASSUME RightInv, OldKnown, OwnersStay, RowsStay, NothingOldComes, UNCHANGED marker
  PROVE  OldKnown'
<1>1. marker # NoMarker => marker.target \in TargetId
  BY DEF RightInv, LifecycleInv, TypeOK, FilesTypeOK, Marker
<1>2. \A row \in pendingOperations : row.target \in TargetId
  BY DEF RightInv, LifecycleInv, TypeOK, RegistryTypeOK, PendingRow
<1>3. MarkerFits'
  BY <1>1 DEF OldKnown, MarkerFits, OwnersStay
<1>4. OrphansKnown'
  BY OrphansFade DEF OldKnown, OrphansKnown, OwnersStay
<1>5. RowsKnowOrphans'
  <2> SUFFICES ASSUME NEW row \in pendingOperations', Owns(row.target)',
                      generation'[row.target] # row.base
               PROVE  OrphansOf(row.target)' \subseteq row.actions
    BY DEF RowsKnowOrphans
  <2>1. row.target \in TargetId
    BY <1>2 DEF RowsStay
  <2>2. Owns(row.target) /\ generation[row.target] # row.base
    BY <2>1 DEF OwnersStay
  <2>3. OrphansOf(row.target) \subseteq row.actions
    BY <2>2 DEF RowsStay, OldKnown, RowsKnowOrphans
  <2>. QED BY <2>1, <2>2, <2>3, OrphansFade
<1>6. NoneBefore'
  BY DEF OldKnown, NoneBefore, OwnersStay, NothingOldComes
<1>. QED BY <1>3, <1>4, <1>5, <1>6 DEF OldKnown

(* What the invariants say of the command of c, when it is at work.        *)
LEMMA ShedsOf ==
  ASSUME RightInv, OrphanInv, NEW c \in Client, command[c].step # "none"
  PROVE  /\ Wanted(command[c]) /\ OldPlanned(command[c]) /\ OldKnown
         /\ AimsRight(command[c]) /\ PlanFits(command[c])
         /\ command[c].step \in StepsOf(command[c].kind) /\ command[c].kind \in Commands
         /\ command[c].kind \in {"change", "sync", "repair"} => Owns(command[c].target)
         /\ command[c].target \in TargetId /\ command[c].next \in Content
         /\ command[c].current \in Content
         /\ command[c] \in Running /\ command \in CommandType
         /\ LifecycleInv /\ RegistryInv /\ RegistryTypeOK /\ FilesTypeOK /\ LockTypeOK
         /\ \A t, u \in TargetId : Owns(t) /\ Owns(u) => t = u
         /\ \A t \in TargetId : Owns(t) => generation[t] \in Nat /\ generation[t] >= 1
<1>1. /\ Busy(c) /\ command \in CommandType /\ command[c] \in Running
      /\ Fits(command[c]) /\ FilesTypeOK /\ LockTypeOK /\ RegistryInv /\ RegistryTypeOK
  BY BusyRuns DEF RightInv
<1>2. Sheds(command[c]) /\ OldKnown
  BY <1>1 DEF OrphanInv
<1>. QED BY <1>1, <1>2, RightRuns, OwnerIsOne DEF Sheds, Fits

(* A row is added only with its operation, and by whoever knows the old.   *)
LEMMA NewRowKnows ==
  ASSUME RightInv, OrphanInv, NEW c \in Client, BeginPending(c)
  PROVE  RowsStay
<1> DEFINE cmd == command[c]
           t == cmd.target
<1>1. cmd.step = "pending" /\ cmd.step # "none"
  BY DEF BeginPending, Held, At
<1>2. /\ OldPlanned(cmd) /\ AimsRight(cmd) /\ t \in TargetId /\ RegistryTypeOK
      /\ cmd.kind \in Commands /\ cmd.step \in StepsOf(cmd.kind)
      /\ Owns(t) => generation[t] \in Nat /\ generation[t] >= 1
  BY <1>1, ShedsOf
<1>3. PICK op, base :
        /\ pendingOperations' = pendingOperations \cup
             {[operation |-> op, target |-> t, base |-> base, next |-> base + 1,
               actions |-> cmd.stages \cup cmd.removals]}
        /\ cmd.kind \in {"install", "change"} => base = InsertedGeneration(t)
  BY DEF BeginPending, BeginPendingOperation, BeginPendingReconciliation, InsertPending
<1> DEFINE new == [operation |-> op, target |-> t, base |-> base, next |-> base + 1,
                   actions |-> cmd.stages \cup cmd.removals]
<1>4. /\ pendingOperations' = pendingOperations \cup {new}
      /\ new.target = t /\ new.base = base /\ new.actions = cmd.stages \cup cmd.removals
  BY <1>3
<1> HIDE DEF new
<1>5. CASE cmd.kind \in {"install", "change"}
  BY <1>2, <1>3, <1>4, <1>5 DEF RowsStay, InsertedGeneration, NoRow
<1>6. CASE cmd.kind \in {"sync", "repair"}
  <2>1. cmd.next = resolvedPackages[t]
    BY <1>1, <1>2, <1>6 DEF AimsRight, Settles
  <2>2. OrphansOf(t) \subseteq cmd.removals
    BY <1>1, <1>2, <1>6, <2>1 DEF OldPlanned, OldIn, OrphansOf
  <2>. QED BY <1>2, <1>4, <2>2 DEF RowsStay
<1>. QED BY <1>1, <1>2, <1>5, <1>6 DEF Commands, StepsOf

(* Every step but a commit and the marker's leaves the old known.          *)
LEMMA CommandKnows ==
  ASSUME RightInv, OrphanInv, NEW c \in Client, CommandStep(c),
         ~CommitAcceptedState(c), ~SyncMarker(c)
  PROVE  OldKnown' /\ UNCHANGED marker
<1>1. /\ Wanted(command[c]) /\ OldKnown /\ RegistryInv
      /\ \A row \in pendingOperations : row.target \in TargetId
  <2>1. Busy(c) /\ Sheds(command[c])
    BY StepOfBusy DEF OrphanInv
  <2>. QED BY <2>1 DEF OrphanInv, Sheds, RightInv, LifecycleInv, TypeOK, RegistryTypeOK, PendingRow
<1>2. NothingOldComes /\ OwnersStay
  BY <1>1, NothingOld, AcceptedStays DEF OwnersStay
<1>3. UNCHANGED marker /\ (\/ UNCHANGED pendingOperations \/ BeginPending(c)
                           \/ CompletePendingOperation(command[c].operation))
  <2>1. CASE ReconcileStep(c)
    BY <2>1 DEF ReconcileStep, BeginPending, NothingPending, PendingConflict, StageProjection,
       WriteStageManifest, StagingFails, StagingDone, WriteRemovalManifest,
       RemovalManifestsDone, CommitRefused, UndoStaging, VerifyRemoval, RemoveProjection,
       RemovalRefused, RemovalsDone, ActivateNew, VerifyCurrent, RetireCurrent, ActivateAtOnce,
       RetireFails, ActivateRetired, ActivationFails, LiveConflict, ActivationsDone,
       DiscardStaging, AcceptedStateMismatch, ReadPending, CleanPending, fileVars, registryVars
  <2>2. CASE ~ReconcileStep(c)
    BY <2>2 DEF CommandStep, Observe, ObserveFails, RepairDrift, DriftRepaired, DriftRetire,
       DriftSwap, DriftSwapFails, DriftDiscard, RecoverRemoval, RecoverActivated,
       RecoverActivation, RecoverConflict, Converged, ObserveLocation,
       RefreshObservations, Done, fileVars, registryVars, ObserveTargetLocation,
       ReplaceDependencyObservations
  <2>. QED BY <2>1, <2>2
<1>4. RowsStay
  BY <1>1, <1>3, NewRowKnows, CompletionKeeps DEF RowsStay
<1>. QED BY <1>1, <1>2, <1>3, <1>4, OldStaysKnown

(* The marker is written when nothing old is left.                         *)
LEMMA MarkerKnows ==
  ASSUME RightInv, OrphanInv, NEW c \in Client, SyncMarker(c)
  PROVE  /\ OldKnown'
         /\ \A n \in Package : marker'.packages[n] = NoDigest => live[n] \notin Digest
<1> DEFINE cmd == command[c]
           t == cmd.target
<1>1. /\ cmd.step = "marker" /\ cmd.step # "none" /\ UNCHANGED <<registryVars, live, staging>>
      /\ marker' = [target |-> t, generation |-> cmd.generation, packages |-> cmd.next]
  BY DEF SyncMarker, MayWriteMarker, At, WriteMarker
<1>2. /\ OldPlanned(cmd) /\ AimsRight(cmd) /\ OldKnown /\ t \in TargetId
      /\ cmd.kind \in Commands /\ cmd.step \in StepsOf(cmd.kind)
      /\ \A u \in TargetId : Owns(u) /\ Owns(t) => u = t
      /\ Owns(t) => generation[t] \in Nat
  BY <1>1, ShedsOf
<1>3. Settles(cmd) /\ cmd.step \notin DriftSteps
  BY <1>1, <1>2 DEF Settles, AimsRight, AfterCommit, StepsOf, Commands, DriftSteps
<1>4. Owns(t) /\ cmd.next = resolvedPackages[t] /\ cmd.generation = generation[t]
  BY <1>2, <1>3 DEF AimsRight
<1>5. OldIn(cmd) = {}
  BY <1>1, <1>2 DEF OldPlanned
<1>6. OrphansOf(t) = {}
  BY <1>4, <1>5 DEF OldIn, OrphansOf
<1>7. MarkerFits'
  BY <1>1, <1>2, <1>4 DEF MarkerFits, registryVars, Owns
<1>8. OrphansKnown'
  BY <1>1, <1>2, <1>4, <1>6 DEF OrphansKnown, OrphansOf, registryVars, Owns
<1>9. RowsKnowOrphans' /\ NoneBefore'
  BY <1>1, <1>2 DEF OldKnown, RowsKnowOrphans, NoneBefore, OrphansOf, registryVars, Owns
<1>. QED BY <1>1, <1>5, <1>7, <1>8, <1>9 DEF OldKnown, OldIn

(* After a commit its target, and no other, has the directory.             *)
LEMMA CommitOwns ==
  ASSUME RightInv, NEW c \in Client, CommitAcceptedState(c)
  PROVE  \A u \in TargetId : Owns(u)' <=> u = command[c].target
<1> DEFINE cmd == command[c]
<1>0. PICK t : t = cmd.target
  OBVIOUS
<1>1. /\ cmd.step # "none" /\ CommitPermitted(c)
      /\ cmd.kind \in {"change", "install"}
  BY CommitDoes DEF RightInv
<1>2. /\ t \in TargetId /\ LifecycleInv
      /\ cmd.kind = "change" => Owns(t)
  BY <1>0, <1>1, RightRuns DEF Fits
<1>3. \A row \in targetLocations' : row.path = TargetRoot => row.target = t
  <2>1. CASE ReplaceTargetState(cmd.operation, t, cmd.next)
    BY <1>0, <1>1, <2>1 DEF ReplaceTargetState, ReplaceTargetRows, LocationsOf, CommitPermitted
  <2>2. CASE ReplaceFreshTargetState(cmd.operation, t, TargetRoot, cmd.next)
    BY <1>0, <1>1, <2>2 DEF ReplaceFreshTargetState, ReplaceTargetRows, FreshLocation,
       CommitPermitted
  <2>. QED BY <1>0, <2>1, <2>2 DEF CommitAcceptedState
<1>4. ASSUME cmd.kind = "change" PROVE Owns(t)'
  BY <1>2, <1>4, CommitFits DEF Preserves, RegistrySteps
<1>5. ASSUME cmd.kind = "install" PROVE Owns(t)'
  <2> DEFINE row == [path |-> TargetRoot, target |-> t, observed |-> NotObserved]
  <2>1. row \in targetLocations' /\ row.path = TargetRoot /\ row.target = t
    BY <1>0, <1>5 DEF CommitAcceptedState, ReplaceFreshTargetState, ReplaceTargetRows, FreshLocation
  <2>2. \E r \in targetLocations' : r.path = TargetRoot /\ r.target = t
    BY <2>1
  <2>. QED BY <2>2 DEF Owns
<1>. QED BY <1>0, <1>1, <1>3, <1>4, <1>5 DEF Owns

(* The row of what is committed names all that was planned.                *)
LEMMA CommittedRow ==
  ASSUME RightInv, AccountInv, NEW c \in Client, CommitAcceptedState(c)
  PROVE  \E row \in pendingOperations :
           /\ row.operation = command[c].operation /\ row.target = command[c].target
           /\ row.actions = command[c].stages \cup command[c].removals
           /\ row.next = generation'[command[c].target]
<1> DEFINE cmd == command[c]
<1>1. /\ cmd.step = "commit" /\ cmd.step # "none" /\ CommitPermitted(c)
      /\ generation'[cmd.target] = InsertedGeneration(cmd.target) + 1
  BY CommitDoes DEF RightInv
<1>2. PICK row \in pendingOperations :
        row.operation = cmd.operation /\ row.actions = cmd.stages \cup cmd.removals
  BY <1>1, AccountOf DEF Announced
<1>3. PendingPermits(cmd.operation, cmd.target) /\ cmd.operation \in OperationId
  BY <1>1, AccountOf DEF CommitPermitted, OperationSteps
<1>4. \E r \in PendingOf(cmd.target) :
        r.operation = cmd.operation /\ r.next = InsertedGeneration(cmd.target) + 1
  BY <1>3, NoOperationAssumption DEF PendingPermits
<1>5. OneRowEach
  BY DEF AccountInv, Accounted
<1>. QED BY <1>1, <1>2, <1>4, <1>5 DEF PendingOf, OneRowEach

(* A commit over a current marker: the old is what is to be removed, the   *)
(* marker still has it, and the row names it.                              *)
LEMMA CommitKnows ==
  ASSUME RightInv, OrphanInv, AccountInv, NEW c \in Client, CommitAcceptedState(c),
         command[c].kind = "change" => Current(command[c].target)
  PROVE  OldKnown' /\ OldIn(command[c]) \subseteq command[c].removals
<1> DEFINE cmd == command[c]
<1>0. PICK t : t = cmd.target
  OBVIOUS
<1>1. /\ cmd.step = "commit" /\ cmd.step # "none" /\ CommitPermitted(c)
      /\ UNCHANGED <<live, staging, marker, pendingOperations>>
      /\ generation'[t] = InsertedGeneration(t) + 1
      /\ resolvedPackages' = [resolvedPackages EXCEPT ![t] = cmd.next]
      /\ cmd.kind \in {"change", "install"}
      /\ cmd.kind = "install" => ~Accepted(t)
  BY <1>0, CommitDoes DEF fileVars, CommitAcceptedState, Held, At, RightInv, ReplaceFreshTargetState
<1>2. /\ OldPlanned(cmd) /\ AimsRight(cmd) /\ OldKnown /\ t \in TargetId
      /\ cmd.kind = "change" => Owns(t)
      /\ LifecycleInv /\ RegistryInv /\ RegistryTypeOK /\ cmd.next \in Content
      /\ \A u, v \in TargetId : Owns(u) /\ Owns(v) => u = v
      /\ \A u \in TargetId : Owns(u) => generation[u] \in Nat /\ generation[u] >= 1
      /\ FilesTypeOK
  BY <1>0, <1>1, ShedsOf
<1>3. cmd.current = resolvedPackages[t] /\ resolvedPackages'[t] = cmd.next
  BY <1>0, <1>1, <1>2 DEF AimsRight, BeforeCommit, RegistryTypeOK
<1>4. Owns(t)'
  BY <1>0, <1>2, CommitOwns
<1>5. \A u \in TargetId : Owns(u)' => u = t
  BY <1>0, CommitOwns
<1>6. PICK row \in pendingOperations :
        /\ row.operation = cmd.operation /\ row.target = t
        /\ row.actions = cmd.stages \cup cmd.removals
  BY <1>0, CommittedRow
<1>7. \A r \in pendingOperations : r.target = t => r = row
  BY <1>2, <1>6 DEF RegistryInv, PendingSound, AtMostOnePending
<1>8. CASE cmd.kind = "install"
  <2>1. \A u \in TargetId : ~Owns(u)
    <3>1. \A u \in TargetId : Owns(u) => u = t
      BY <1>0, <1>1, <1>2 DEF CommitPermitted, Owns
    <3>. QED BY <1>1, <1>2, <1>8, <3>1 DEF Accepted
  <2>2. marker = NoMarker
    BY <1>2, <2>1 DEF OldKnown, MarkerFits, FilesTypeOK, Marker
  <2>3. \A n \in Package : live[n] \notin Digest
    BY <1>2, <2>1 DEF OldKnown, NoneBefore
  <2>4. OldIn(cmd) = {} /\ \A u \in TargetId : OrphansOf(u)' = {}
    BY <1>1, <2>3 DEF OldIn, OrphansOf
  <2>5. \A r \in pendingOperations' : r.target \in TargetId
    BY <1>1, <1>2 DEF RegistryTypeOK, PendingRow
  <2>. QED BY <1>1, <2>2, <2>3, <2>4, <2>5
           DEF OldKnown, MarkerFits, OrphansKnown, RowsKnowOrphans, NoneBefore
<1>9. CASE cmd.kind = "change"
  <2>1. /\ Owns(t) /\ marker # NoMarker /\ marker.generation = generation[t]
        /\ marker.target \in TargetId /\ Owns(marker.target)
    BY <1>0, <1>2, <1>9 DEF Current, OldKnown, MarkerFits, FilesTypeOK, Marker
  <2>2. marker.target = t /\ marker.packages = resolvedPackages[t]
    BY <1>2, <2>1 DEF OldKnown, MarkerFits
  <2>3. \A n \in OldIn(cmd) : marker.packages[n] = live[n] /\ n \in cmd.removals
    <3> SUFFICES ASSUME NEW n \in OldIn(cmd)
                 PROVE  marker.packages[n] = live[n] /\ n \in cmd.removals
      OBVIOUS
    <3>1. n \in Package /\ live[n] \in Digest
      BY DEF OldIn
    <3>2. resolvedPackages[t][n] # NoDigest
      <4>1. resolvedPackages[t][n] = NoDigest => marker.packages[n] = live[n]
        BY <1>2, <2>1, <3>1 DEF OldKnown, OrphansKnown, OrphansOf
      <4>. QED BY <2>2, <3>1, <4>1, NoDigestAssumption
    <3>. QED BY <1>1, <1>2, <1>3, <1>9, <2>2, <3>2 DEF OldPlanned, BeforeCommit
  <2>4. OrphansOf(t)' = OldIn(cmd)
    BY <1>1, <1>3 DEF OldIn, OrphansOf
  <2>5. generation'[t] = generation[t] + 1 /\ generation[t] \in Nat
    BY <1>1, <1>2, <2>1 DEF InsertedGeneration, NoRow
  <2>6. MarkerFits'
    BY <1>1, <1>4, <2>1, <2>2, <2>5 DEF MarkerFits
  <2>7. OrphansKnown'
    BY <1>1, <1>5, <2>1, <2>3, <2>4 DEF OrphansKnown
  <2>8. RowsKnowOrphans'
    <3> SUFFICES ASSUME NEW r \in pendingOperations, Owns(r.target)'
                 PROVE  OrphansOf(r.target)' \subseteq r.actions
      BY <1>1 DEF RowsKnowOrphans
    <3>1. r.target = t
      BY <1>2, <1>5 DEF RegistryTypeOK, PendingRow
    <3>2. r = row
      BY <1>7, <3>1
    <3>. QED BY <1>6, <2>3, <2>4, <3>1, <3>2
  <2>9. NoneBefore'
    BY <1>2, <1>4 DEF NoneBefore
  <2>. QED BY <2>3, <2>6, <2>7, <2>8, <2>9 DEF OldKnown
<1>. QED BY <1>1, <1>8, <1>9

----------------------------------------------------------------------------
(* The commands shed what is old, step by step.                            *)

ShedsOn(c) == Busy(c)' => Sheds(command[c])'

(* With the plan unchanged and nothing unwanted coming in, what is old can *)
(* only fade.                                                              *)
LEMMA OldFades ==
  ASSUME NEW c \in Client, WantedComes(c), SameGoal(c)
  PROVE  OldIn(command[c])' \subseteq OldIn(command[c])
BY NoDigestAssumption DEF WantedComes, SameGoal, OldIn

(* From one loop to the next.                                              *)
LEMMA LoopStepSheds ==
  ASSUME RightInv, OrphanInv, NEW c \in Client,
         \/ StagingFails(c) \/ StagingDone(c) \/ RemovalManifestsDone(c) \/ CommitRefused(c)
         \/ RemovalsDone(c) \/ ActivationsDone(c) \/ Converged(c) \/ DriftRepaired(c)
  PROVE  ShedsOn(c)
<1> DEFINE cmd == command[c]
           op == cmd.operation
<1>1. /\ cmd.step # "none" /\ UNCHANGED live
      /\ \/ /\ cmd.step \in {"stage", "commit"} /\ GoTo(c, "undo", Containers(op))
         \/ /\ cmd.step = "stage" /\ GoTo(c, "removals", cmd.removals)
         \/ /\ cmd.step = "removals" /\ cmd.kind \in {"install", "change"}
            /\ GoTo(c, "commit", {})
         \/ /\ cmd.step = "removals" /\ cmd.kind \notin {"install", "change"}
            /\ GoTo(c, "remove", cmd.removals)
         \/ /\ cmd.step = "remove" /\ cmd.todo = {} /\ GoTo(c, "activate", cmd.stages)
         \/ /\ cmd.step = "activate" /\ GoTo(c, "marker", {})
         \/ /\ cmd.step = "activate" /\ GoTo(c, "discard", cmd.stages \cup cmd.removals)
         \/ /\ cmd.step = "converge" /\ cmd.todo = {} /\ GoTo(c, "marker", {})
         \/ GoTo(c, "observe", {})
  BY DEF StagingFails, StagingDone, RemovalManifestsDone, CommitRefused, RemovalsDone,
         ActivationsDone, Converged, DriftRepaired, Held, At, fileVars
<1>2. /\ Wanted(cmd) /\ OldPlanned(cmd) /\ cmd.kind \in Commands /\ cmd.step \in StepsOf(cmd.kind)
      /\ cmd \in Running /\ command \in CommandType
      /\ cmd.stages \in SUBSET Package /\ cmd.removals \in SUBSET Package
      /\ Containers(op) \in SUBSET Package
      /\ cmd.stages \cup cmd.removals \in SUBSET Package
      /\ {} \in SUBSET Package
  BY <1>1, ShedsOf DEF Containers, Running
<1>3. PICK step \in Steps, todo \in SUBSET Package :
        /\ GoTo(c, step, todo)
        /\ \/ step \in {"undo", "observe"}
           \/ cmd.step = "stage" /\ step = "removals"
           \/ cmd.step = "removals" /\ step = "commit" /\ cmd.kind \in {"install", "change"}
           \/ /\ cmd.step = "removals" /\ step = "remove" /\ todo = cmd.removals
              /\ cmd.kind \notin {"install", "change"}
           \/ cmd.step = "remove" /\ cmd.todo = {} /\ step = "activate"
           \/ cmd.step = "activate" /\ step \in {"marker", "discard"}
           \/ cmd.step = "converge" /\ cmd.todo = {} /\ step = "marker"
  BY <1>1, <1>2 DEF Steps
<1>4. /\ SameTask(c) /\ SameGoal(c) /\ command'[c].step = step /\ command'[c].todo = todo
  BY <1>2, <1>3, GoToMoves
<1>5. OldIn(command[c])' = OldIn(cmd)
  BY <1>1, <1>4 DEF OldIn, SameGoal
<1>6. Wanted(command[c])'
  BY <1>2, <1>3, <1>4 DEF Wanted, SameTask, SameGoal
<1>7. OldPlanned(command[c])'
  BY <1>1, <1>2, <1>3, <1>4, <1>5
     DEF OldPlanned, SameTask, SameGoal, BeforeCommit, StepsOf, Commands, DriftSteps
<1>. QED BY <1>6, <1>7 DEF ShedsOn, Sheds

(* Announcing an operation, staging for it and cleaning up after it.       *)
LEMMA StagingSheds ==
  ASSUME RightInv, OrphanInv, NEW c \in Client,
         \/ BeginPending(c) \/ NothingPending(c) \/ ReadPending(c)
         \/ StageProjection(c) \/ WriteStageManifest(c) \/ WriteRemovalManifest(c)
         \/ UndoStaging(c) \/ DiscardStaging(c) \/ CleanPending(c)
  PROVE  ShedsOn(c)
<1> DEFINE cmd == command[c]
<1>1. cmd.step # "none" /\ UNCHANGED live
  BY DEF BeginPending, NothingPending, ReadPending, StageProjection, WriteStageManifest,
         WriteRemovalManifest, UndoStaging, DiscardStaging, CleanPending, Held, At, fileVars
<1>2. /\ Wanted(cmd) /\ OldPlanned(cmd) /\ cmd.kind \in Commands /\ cmd.step \in StepsOf(cmd.kind)
      /\ cmd \in Running /\ command \in CommandType /\ LifecycleInv /\ LockTypeOK
      /\ cmd.todo \in SUBSET Package /\ cmd.todo \subseteq Package
  BY <1>1, ShedsOf DEF Running
<1>3. CASE command'[c] = Idle
  BY <1>3 DEF ShedsOn, Busy
<1>4. ASSUME command'[c] # Idle
      PROVE  /\ SameTask(c) /\ SameGoal(c)
             /\ \/ cmd.step = "pending" /\ command'[c].step = "stage"
                \/ /\ cmd.step = "pending" /\ cmd.removals = {} /\ command'[c].step = "marker"
                   /\ cmd.kind \in {"sync", "repair"}
                \/ cmd.step = "stage" /\ command'[c].step = "manifest"
                \/ cmd.step = "manifest" /\ command'[c].step = "stage"
                \/ cmd.step = "removals" /\ command'[c].step = "removals"
                \/ command'[c].step \in {"undo", "done"}
                \/ cmd.step = "discard" /\ command'[c].step \in {"discard", "marker"}
                \/ cmd.step \in {"clean", "cleaning"} /\ command'[c].step = "cleaning"
                \/ /\ cmd.step \in {"clean", "cleaning"} /\ command'[c].step = "pending"
                   /\ cmd.kind \in {"sync", "repair"}
  <2>1. CASE BeginPending(c)
    BY <1>2, <2>1, BeginPendingDoes
  <2>2. CASE NothingPending(c)
    BY <1>2, <2>2, NothingPendingDoes DEF StepsOf, Commands
  <2>3. CASE ReadPending(c)
    BY <1>2, <2>3, ReadPendingDoes DEF AfterClean
  <2>4. CASE StageProjection(c)
    BY <1>2, <2>4, StageProjectionDoes
  <2>5. CASE WriteStageManifest(c)
    <3>1. cmd.step = "manifest" /\ GoTo(c, "stage", cmd.todo)
      BY <2>5 DEF WriteStageManifest, At
    <3>. QED BY <1>2, <3>1, GoToMoves DEF Steps
  <2>6. CASE WriteRemovalManifest(c)
    <3>1. cmd.step = "removals" /\ \E n \in cmd.todo : Ticked(c, n)
      BY <2>6 DEF WriteRemovalManifest, Held, At
    <3>. QED BY <1>2, <3>1, TickedMoves
  <2>7. CASE UndoStaging(c)
    <3>1. cmd.step = "undo" /\ (Return(c) \/ \E n \in cmd.todo : Ticked(c, n))
      BY <2>7 DEF UndoStaging, Held, At
    <3>. QED BY <1>2, <1>4, <3>1, TickedMoves, ReturnMoves
  <2>8. CASE DiscardStaging(c)
    <3>1. cmd.step = "discard" /\ (GoTo(c, "marker", {}) \/ \E n \in cmd.todo : Ticked(c, n))
      BY <2>8 DEF DiscardStaging, Held, At
    <3>. QED BY <1>2, <3>1, TickedMoves, GoToMoves DEF Steps
  <2>9. CASE CleanPending(c)
    BY <1>2, <2>9, CleanPendingDoes DEF AfterClean
  <2>. QED BY <2>1, <2>2, <2>3, <2>4, <2>5, <2>6, <2>7, <2>8, <2>9
<1>5. CASE command'[c] # Idle
  <2>1. OldIn(command[c])' = OldIn(cmd)
    BY <1>1, <1>4, <1>5 DEF OldIn, SameGoal
  <2>2. Wanted(command[c])'
    BY <1>2, <1>4, <1>5 DEF Wanted, SameTask, SameGoal
  <2>3. OldPlanned(command[c])'
    BY <1>1, <1>2, <1>4, <1>5, <2>1
       DEF OldPlanned, SameTask, SameGoal, BeforeCommit, StepsOf, Commands, DriftSteps
  <2>. QED BY <2>2, <2>3 DEF ShedsOn, Sheds
<1>. QED BY <1>3, <1>5

(* A reconciliation finds what is old in the marker that lags behind.      *)
LEMMA ObserveSheds ==
  ASSUME RightInv, OrphanInv, NEW c \in Client, Observe(c)
  PROVE  ShedsOn(c)
<1> DEFINE cmd == command[c]
<1>0. PICK t : t = cmd.target
  OBVIOUS
<1>1. /\ cmd.step = "observe" /\ cmd.step # "none" /\ MarkerReadable(t) /\ UNCHANGED live
  BY <1>0 DEF Observe, Held, At, fileVars
<1>2. /\ OldKnown /\ LifecycleInv /\ t \in TargetId /\ FilesTypeOK
      /\ Owns(t) => generation[t] \in Nat
  BY <1>0, <1>1, ShedsOf
<1>3. /\ Owns(t) /\ cmd.kind \in {"sync", "repair"}
      /\ command'[c].kind = cmd.kind /\ command'[c].step = "clean"
      /\ command'[c].next = resolvedPackages[t]
      /\ command'[c].stages = StagesOf(Baseline(t), resolvedPackages[t])
      /\ command'[c].removals = RemovalsOf(Baseline(t), resolvedPackages[t])
  BY <1>0, <1>2, ObserveDoes
<1>4. OldIn(command[c])' = OrphansOf(t)
  BY <1>1, <1>3 DEF OldIn, OrphansOf
<1>5. ASSUME NEW n \in OrphansOf(t)
      PROVE  n \in RemovalsOf(Baseline(t), resolvedPackages[t])
  <2>1. /\ n \in Package /\ resolvedPackages[t][n] = NoDigest /\ live[n] \in Digest
        /\ marker # NoMarker /\ marker.packages[n] = live[n]
    BY <1>2, <1>3 DEF OldKnown, OrphansKnown, OrphansOf
  <2>2. marker.target = t /\ marker.generation <= generation[t] /\ marker.generation \in Nat
    BY <1>1, <1>2, <2>1 DEF MarkerReadable, FilesTypeOK, Marker
  <2>3. live[n] # NoDigest
    BY <2>1, NoDigestAssumption
  <2>4. Lags(t)
    BY <1>2, <1>3, <2>1, <2>2, <2>3 DEF Lags, OldKnown, MarkerFits
  <2>. QED BY <2>1, <2>3, <2>4 DEF Baseline, RemovalsOf, Shows
<1>6. Wanted(command[c])'
  BY <1>3 DEF Wanted, StagesOf
<1>7. OldPlanned(command[c])'
  BY <1>3, <1>4, <1>5 DEF OldPlanned
<1>. QED BY <1>6, <1>7 DEF ShedsOn, Sheds

(* A commit goes on to the removals, which take all that is old.           *)
LEMMA CommitSheds ==
  ASSUME RightInv, OrphanInv, NEW c \in Client, CommitAcceptedState(c),
         OldIn(command[c]) \subseteq command[c].removals
  PROVE  ShedsOn(c)
<1> DEFINE cmd == command[c]
<1>1. cmd.step = "commit" /\ cmd.step # "none"
  BY DEF CommitAcceptedState, Held, At
<1>2. /\ cmd.kind \in {"change", "install"} /\ SameTask(c)
      /\ command'[c].next = cmd.next /\ command'[c].step = "remove"
      /\ command'[c].todo = cmd.removals /\ UNCHANGED live
  BY CommitDoes DEF RightInv, fileVars
<1>3. Wanted(cmd)
  BY <1>1, ShedsOf
<1>4. OldIn(command[c])' = OldIn(cmd)
  BY <1>2 DEF OldIn
<1>5. Wanted(command[c])'
  BY <1>2, <1>3 DEF Wanted, SameTask
<1>6. OldPlanned(command[c])'
  BY <1>2, <1>4 DEF OldPlanned, BeforeCommit, SameTask
<1>. QED BY <1>5, <1>6 DEF ShedsOn, Sheds

(* Removing and activating take what is old off the list, and bring none.  *)
LEMMA LiveStepSheds ==
  ASSUME RightInv, OrphanInv, NEW c \in Client,
         \/ VerifyRemoval(c) \/ RemoveProjection(c) \/ RecoverRemoval(c) \/ RecoverActivated(c)
         \/ ActivateNew(c) \/ VerifyCurrent(c) \/ RetireCurrent(c) \/ ActivateAtOnce(c)
         \/ RecoverActivation(c) \/ ActivateRetired(c)
  PROVE  ShedsOn(c)
<1> DEFINE cmd == command[c]
<1>1. cmd.step \in {"remove", "removing", "converge", "activate", "retire", "swap"}
      /\ cmd.step # "none"
  BY DEF VerifyRemoval, RemoveProjection, RecoverRemoval, RecoverActivated, ActivateNew,
         VerifyCurrent, RetireCurrent, ActivateAtOnce, RecoverActivation, ActivateRetired, Held,
         At, MayRetire, MaySwap
<1>2. /\ Wanted(cmd) /\ OldPlanned(cmd) /\ cmd.kind \in Commands /\ cmd.step \in StepsOf(cmd.kind)
      /\ cmd \in Running /\ command \in CommandType /\ FilesTypeOK /\ PlanFits(cmd)
      /\ cmd.todo \in SUBSET Package /\ cmd.todo \subseteq Package
  BY <1>1, ShedsOf DEF Running
<1>3. WantedComes(c)
  BY <1>2, OnlyWantedComes DEF CommandStep, ReconcileStep
<1>4. CASE VerifyRemoval(c) \/ RecoverRemoval(c) \/ RecoverActivated(c)
  <2>1. /\ UNCHANGED live
        /\ \E n \in cmd.todo : \/ Ticked(c, n) /\ (live[n] = NoDigest \/ cmd.next[n] # NoDigest)
                               \/ Half(c, "removing", n)
    BY <1>4 DEF VerifyRemoval, RecoverRemoval, RecoverActivated, Shows, Missing, fileVars
  <2>2. PICK n \in cmd.todo : \/ Ticked(c, n) /\ (live[n] = NoDigest \/ cmd.next[n] # NoDigest)
                              \/ Half(c, "removing", n)
    BY <2>1
  <2>3. /\ SameTask(c) /\ SameGoal(c) /\ command'[c].todo = cmd.todo \ {n}
        /\ \/ /\ command'[c].step = cmd.step /\ command'[c].hand = cmd.hand
              /\ live[n] = NoDigest \/ cmd.next[n] # NoDigest
           \/ command'[c].step = "removing" /\ command'[c].hand = {n}
    BY <1>2, <2>2, TickedMoves, HalfMoves DEF Steps
  <2>4. cmd.step \in {"remove", "converge"} /\ (cmd.step = "converge" => cmd.kind = "recover")
    BY <1>2, <1>4 DEF VerifyRemoval, RecoverRemoval, RecoverActivated, Held, At, StepsOf,
       Commands, DriftSteps
  <2>5. OldIn(command[c])' = OldIn(cmd) /\ OldIn(cmd) \subseteq cmd.todo
    BY <1>2, <2>1, <2>3, <2>4 DEF OldIn, SameGoal, OldPlanned
  <2>6. live[n] = NoDigest \/ cmd.next[n] # NoDigest => n \notin OldIn(cmd)
    BY NoDigestAssumption DEF OldIn
  <2>7. Wanted(command[c])'
    BY <1>2, <2>3, <2>4 DEF Wanted, SameTask, SameGoal
  <2>8. OldPlanned(command[c])'
    BY <2>3, <2>4, <2>5, <2>6 DEF OldPlanned, BeforeCommit, SameTask
  <2>. QED BY <2>7, <2>8 DEF ShedsOn, Sheds
<1>5. CASE RemoveProjection(c)
  <2>1. /\ cmd.step = "removing" /\ GoTo(c, AfterRemoving(c), cmd.todo)
        /\ \E n \in cmd.hand : live' = [live EXCEPT ![n] = NoDigest]
    BY <1>5 DEF RemoveProjection, At
  <2>2. /\ SameTask(c) /\ SameGoal(c) /\ command'[c].todo = cmd.todo
        /\ command'[c].step = IF cmd.kind = "recover" THEN "converge" ELSE "remove"
    <3>1. ASSUME NEW step \in {"remove", "converge"}, GoTo(c, step, cmd.todo)
          PROVE  /\ SameTask(c) /\ SameGoal(c) /\ command'[c].todo = cmd.todo
                 /\ command'[c].step = step
      BY <1>2, <3>1, GoToMoves DEF Steps
    <3>2. CASE cmd.kind = "recover"
      BY <2>1, <3>1, <3>2 DEF AfterRemoving
    <3>3. CASE cmd.kind # "recover"
      BY <2>1, <3>1, <3>3 DEF AfterRemoving
    <3>. QED BY <3>2, <3>3
  <2>3. PICK n \in cmd.hand : n \in Package /\ live'[n] = NoDigest
    BY <1>2, <2>1 DEF FilesTypeOK, Running
  <2>4. \A m \in cmd.hand : m = n
    BY <1>2, <2>3 DEF PlanFits
  <2>5. OldIn(command[c])' \subseteq cmd.todo
    <3>1. OldIn(command[c])' \subseteq OldIn(cmd) /\ n \notin OldIn(command[c])'
      BY <1>3, <2>2, <2>3, OldFades, NoDigestAssumption DEF OldIn
    <3>2. OldIn(cmd) \subseteq cmd.todo \cup cmd.hand
      BY <1>2, <2>1 DEF OldPlanned
    <3>. QED BY <2>4, <3>1, <3>2
  <2>6. Wanted(command[c])'
    BY <1>2, <2>2 DEF Wanted, SameTask, SameGoal
  <2>7. OldPlanned(command[c])'
    BY <2>2, <2>5 DEF OldPlanned, BeforeCommit, SameTask
  <2>. QED BY <2>6, <2>7 DEF ShedsOn, Sheds
<1>6. CASE ActivateNew(c) \/ VerifyCurrent(c)
  <2>1. /\ cmd.step = "activate"
        /\ \E n \in cmd.todo : Ticked(c, n) \/ Half(c, "retire", n)
    BY <1>6 DEF ActivateNew, VerifyCurrent, Held, At
  <2>2. PICK n \in cmd.todo : Ticked(c, n) \/ Half(c, "retire", n)
    BY <2>1
  <2>3. /\ SameTask(c) /\ SameGoal(c)
        /\ \/ command'[c].step = "activate"
           \/ command'[c].step = "retire" /\ command'[c].hand = {n}
    BY <1>2, <2>1, <2>2, TickedMoves, HalfMoves DEF Steps
  <2>4. cmd.kind # "recover" /\ n \in cmd.stages
    BY <1>2, <2>1, <2>2 DEF StepsOf, PlanFits
  <2>5. OldIn(command[c])' = {}
    BY <1>2, <1>3, <2>1, <2>3, OldFades DEF OldPlanned
  <2>6. Wanted(command[c])'
    BY <1>2, <2>3, <2>4 DEF Wanted, SameTask, SameGoal
  <2>7. OldPlanned(command[c])'
    BY <2>3, <2>4, <2>5 DEF OldPlanned, BeforeCommit, SameTask
  <2>. QED BY <2>6, <2>7 DEF ShedsOn, Sheds
<1>8. CASE RecoverActivation(c)
  <2>1. /\ cmd.step = "converge"
        /\ \E n \in cmd.todo : cmd.next[n] # NoDigest /\ Half(c, "retire", n)
    BY <1>8 DEF RecoverActivation, Activatable, Held, At
  <2>2. PICK n \in cmd.todo : cmd.next[n] # NoDigest /\ Half(c, "retire", n)
    BY <2>1
  <2>3. /\ SameTask(c) /\ SameGoal(c) /\ command'[c].todo = cmd.todo \ {n}
        /\ command'[c].step = "retire" /\ command'[c].hand = {n}
    BY <1>2, <2>2, HalfMoves DEF Steps
  <2>4. cmd.kind = "recover"
    BY <1>2, <2>1 DEF StepsOf, Commands, DriftSteps
  <2>5. OldIn(command[c])' \subseteq command'[c].todo
    <3>1. OldIn(command[c])' \subseteq OldIn(cmd) /\ OldIn(cmd) \subseteq cmd.todo
      BY <1>2, <1>3, <2>1, <2>3, <2>4, OldFades DEF OldPlanned
    <3>. QED BY <2>2, <2>3, <3>1 DEF OldIn
  <2>6. Wanted(command[c])'
    BY <1>2, <2>2, <2>3 DEF Wanted, SameTask, SameGoal
  <2>7. OldPlanned(command[c])'
    BY <2>3, <2>4, <2>5 DEF OldPlanned, BeforeCommit, SameTask
  <2>. QED BY <2>6, <2>7 DEF ShedsOn, Sheds
<1>9. CASE RetireCurrent(c) \/ ActivateAtOnce(c)
  <2>1. /\ cmd.step = "retire"
        /\ \/ command' = [command EXCEPT ![c].step = "swap"]
           \/ cmd.kind = "recover" /\ GoTo(c, "converge", cmd.todo)
    BY <1>9 DEF RetireCurrent, ActivateAtOnce, MayRetire, At
  <2>2. /\ SameTask(c) /\ SameGoal(c) /\ command'[c].todo = cmd.todo
        /\ \/ command'[c].step = "swap" /\ command'[c].hand = cmd.hand
           \/ cmd.kind = "recover" /\ command'[c].step = "converge"
    BY <1>2, <2>1, SwapFollows, GoToMoves DEF Steps
  <2>3. OldIn(command[c])' \subseteq OldIn(cmd)
    BY <1>3, <2>2, OldFades
  <2>4. Wanted(command[c])'
    BY <1>2, <2>1, <2>2 DEF Wanted, SameTask, SameGoal
  <2>5. OldPlanned(command[c])'
    BY <1>2, <2>1, <2>2, <2>3 DEF OldPlanned, BeforeCommit, SameTask
  <2>. QED BY <2>4, <2>5 DEF ShedsOn, Sheds
<1>7. CASE ActivateRetired(c)
  <2>1. /\ cmd.step = "swap"
        /\ GoTo(c, IF cmd.kind = "recover" THEN "converge" ELSE "activate", cmd.todo)
    BY <1>7 DEF ActivateRetired, MaySwap, At
  <2>2. /\ SameTask(c) /\ SameGoal(c) /\ command'[c].todo = cmd.todo
        /\ command'[c].step = IF cmd.kind = "recover" THEN "converge" ELSE "activate"
    <3>1. CASE cmd.kind = "recover"
      BY <1>2, <2>1, <3>1, GoToMoves DEF Steps
    <3>2. CASE cmd.kind # "recover"
      BY <1>2, <2>1, <3>2, GoToMoves DEF Steps
    <3>. QED BY <3>1, <3>2
  <2>3. OldIn(command[c])' \subseteq OldIn(cmd)
    BY <1>3, <2>2, OldFades
  <2>4. Wanted(command[c])'
    BY <1>2, <2>2 DEF Wanted, SameTask, SameGoal
  <2>5. OldPlanned(command[c])'
    BY <1>2, <2>1, <2>2, <2>3 DEF OldPlanned, BeforeCommit, SameTask
  <2>. QED BY <2>4, <2>5 DEF ShedsOn, Sheds
<1>. QED BY <1>4, <1>5, <1>6, <1>7, <1>8, <1>9

(* Repair swaps in only what is accepted.                                  *)
LEMMA DriftSheds ==
  ASSUME RightInv, OrphanInv, NEW c \in Client,
         RepairDrift(c) \/ DriftRetire(c) \/ DriftSwap(c) \/ DriftSwapFails(c) \/ DriftDiscard(c)
  PROVE  ShedsOn(c)
<1> DEFINE cmd == command[c]
<1>1. cmd.step \in DriftSteps /\ cmd.step # "none"
  BY DEF RepairDrift, DriftRetire, DriftSwap, DriftSwapFails, DriftDiscard, Held, At, DriftSteps
<1>2. /\ Wanted(cmd) /\ cmd \in Running /\ command \in CommandType /\ LifecycleInv /\ LockTypeOK
      /\ cmd.kind = "repair"
  BY <1>1, ShedsOf DEF StepsOf, Commands, DriftSteps
<1>3. \/ command'[c] = Idle
      \/ /\ SameTask(c) /\ SameGoal(c) /\ command'[c].step \in DriftSteps
         /\ command'[c].step # "drift" =>
              \A n \in command'[c].hand : cmd.next[n] # NoDigest
  <2>1. CASE RepairDrift(c)
    BY <1>2, <2>1, RepairDriftDoes DEF DriftSteps, Drifted
  <2>2. CASE DriftDiscard(c)
    BY <1>2, <2>2, DriftDiscardDoes DEF DriftSteps
  <2>3. CASE DriftRetire(c) \/ DriftSwap(c) \/ DriftSwapFails(c)
    <3>1. /\ cmd.step \in {"driftRetire", "driftSwap"}
          /\ \/ Return(c)
             \/ \E step \in DriftSteps : command' = [command EXCEPT ![c].step = step]
      BY <2>3 DEF DriftRetire, DriftSwap, DriftSwapFails, DriftSteps, At
    <3>. QED BY <1>2, <3>1, ReturnMoves, DriftStepMoves DEF Wanted, DriftSteps, Steps
  <2>. QED BY <2>1, <2>2, <2>3
<1>. QED BY <1>2, <1>3 DEF ShedsOn, Sheds, Wanted, OldPlanned, SameTask, SameGoal, DriftSteps, Busy

(* The marker's steps are the last, with nothing left to shed.             *)
LEMMA MarkerSheds ==
  ASSUME RightInv, OrphanInv, NEW c \in Client,
         SyncMarker(c) \/ ObserveLocation(c) \/ RefreshObservations(c)
  PROVE  ShedsOn(c)
<1> DEFINE cmd == command[c]
<1>1. cmd.step # "none"
  BY DEF SyncMarker, MayWriteMarker, ObserveLocation, RefreshObservations, Held, At
<1>2. /\ Wanted(cmd) /\ cmd \in Running /\ command \in CommandType /\ LifecycleInv /\ LockTypeOK
      /\ AimsRight(cmd) /\ cmd.kind \in Commands
  BY <1>1, ShedsOf
<1>3. \/ command'[c] = Idle
      \/ /\ SameTask(c) /\ command'[c].next = cmd.next
         /\ \/ command'[c].step \in {"location", "observations", "done"}
            \/ command'[c].step = "clean" /\ cmd.kind \notin {"sync", "repair"}
  <2>1. CASE SyncMarker(c)
    <3>1. PICK step \in {"location", "done", "clean"} :
            GoTo(c, step, {}) /\ (step = "clean" => cmd.kind \notin {"sync", "repair"})
      BY <1>2, <2>1 DEF SyncMarker, Commands
    <3>. QED BY <1>2, <3>1, GoToMoves DEF SameGoal, Steps
  <2>2. CASE ObserveLocation(c)
    BY <1>2, <2>2, ObserveLocationDoes DEF AimsRight, Settles
  <2>3. CASE RefreshObservations(c)
    <3>1. Return(c) \/ GoTo(c, "done", {})
      BY <2>3 DEF RefreshObservations
    <3>. QED BY <1>2, <3>1, GoToMoves, ReturnMoves DEF SameGoal, Steps
  <2>. QED BY <2>1, <2>2, <2>3
<1>. QED BY <1>2, <1>3 DEF ShedsOn, Sheds, Wanted, OldPlanned, SameTask, BeforeCommit, Busy

(* A command starts with a plan for all that is old.                       *)
LEMMA StartSheds ==
  ASSUME RightInv, OrphanInv, NEW c \in Client, StartStep(c)
  PROVE  ShedsOn(c)
<1>1. /\ LifecycleInv /\ RegistryInv /\ OldKnown
      /\ \A row \in pendingOperations : row.base \in Nat /\ row.next = row.base + 1
  BY DEF RightInv, LifecycleInv, OrphanInv, RegistryInv, PendingSound, PendingClassifies, TypeOK,
     RegistryTypeOK, PendingRow
<1>2. CASE StartInstall(c)
  BY <1>1, <1>2, StartInstallDoes DEF ShedsOn, Sheds, Wanted, OldPlanned, StagesOf
<1>3. CASE StartChange(c)
  <2>1. PICK t \in TargetId, next \in Content :
          /\ MayReplace(resolvedPackages[t], next)
          /\ command'[c].kind = "change" /\ command'[c].step = "pending"
          /\ command'[c].next = next /\ command'[c].current = resolvedPackages[t]
          /\ command'[c].stages = StagesOf(resolvedPackages[t], next)
          /\ command'[c].removals = RemovalsOf(resolvedPackages[t], next)
          /\ UNCHANGED fileVars
    BY <1>1, <1>3, StartChangeDoes
  <2>2. ASSUME NEW n \in OldIn(command[c])', resolvedPackages[t][n] # NoDigest
        PROVE  /\ live'[n] = resolvedPackages[t][n]
               /\ n \in RemovalsOf(resolvedPackages[t], next)
    BY <2>1, <2>2, NoDigestAssumption
       DEF OldIn, MayReplace, MayStage, Missing, Shows, RemovalsOf, fileVars
  <2>3. Wanted(command[c])'
    BY <2>1 DEF Wanted, StagesOf
  <2>4. OldPlanned(command[c])'
    BY <2>1, <2>2 DEF OldPlanned
  <2>. QED BY <2>3, <2>4 DEF ShedsOn, Sheds
<1>4. CASE StartRecover(c)
  <2>1. PICK row \in pendingOperations :
           /\ command'[c].kind = "recover" /\ command'[c].stages = {} /\ command'[c].hand = {}
           /\ IF generation[row.target] = row.base
                THEN command'[c].step = "clean"
                ELSE /\ generation[row.target] = row.next /\ Owns(row.target)
                     /\ command'[c].step = "converge"
                     /\ command'[c].next = resolvedPackages[row.target]
                     /\ command'[c].todo = row.actions
           /\ UNCHANGED fileVars
    BY <1>1, <1>4, StartRecoverDoes
  <2>2. CASE generation[row.target] = row.base
    BY <2>1, <2>2 DEF ShedsOn, Sheds, Wanted, OldPlanned
  <2>3. CASE generation[row.target] # row.base
    <3>1. OrphansOf(row.target) \subseteq row.actions
      BY <1>1, <2>1, <2>3 DEF OldKnown, RowsKnowOrphans
    <3>2. OldIn(command[c])' = OrphansOf(row.target)
      BY <2>1, <2>3 DEF OldIn, OrphansOf, fileVars
    <3>. QED BY <2>1, <2>3, <3>1, <3>2 DEF ShedsOn, Sheds, Wanted, OldPlanned
  <2>. QED BY <2>2, <2>3
<1>5. CASE StartSync(c) \/ StartRepair(c)
  BY <1>1, <1>5, StartSyncDoes DEF ShedsOn, Sheds, Wanted, OldPlanned
<1>. QED BY <1>2, <1>3, <1>4, <1>5 DEF StartStep

(* What a step keeps of it, and what a marker that is written hides.       *)
OrphansKept(c) == OldKnown' /\ ShedsOn(c)

HidesNothing ==
  marker' # marker =>
    \A n \in Package : marker'.packages[n] = NoDigest => live[n] \notin Digest

(* Every step of a command keeps what is old known and hides none of it.   *)
LEMMA CommandSheds ==
  ASSUME RightInv, AccountInv, OrphanInv, CommitsCurrent,
         NEW c \in Client, CommandStep(c) \/ StartStep(c) \/ LockIsLost(c) \/ Stop(c)
  PROVE  OrphansKept(c) /\ HidesNothing
<1>1. CASE CommitAcceptedState(c)
  <2>1. /\ At(c, "commit") /\ command'[c].step = "remove" /\ UNCHANGED marker
    BY <1>1, CommitDoes DEF RightInv, At, fileVars
  <2>2. OldKnown' /\ OldIn(command[c]) \subseteq command[c].removals
    BY <1>1, <2>1, CommitKnows DEF CommitsCurrent
  <2>. QED BY <1>1, <2>1, <2>2, CommitSheds DEF OrphansKept, HidesNothing
<1>2. CASE SyncMarker(c)
  BY <1>2, MarkerKnows, MarkerSheds DEF OrphansKept, HidesNothing
<1>3. CASE CommandStep(c) /\ ~CommitAcceptedState(c) /\ ~SyncMarker(c)
  <2>1. OldKnown' /\ UNCHANGED marker
    BY <1>3, CommandKnows
  <2>2. CASE \/ PendingConflict(c) \/ LiveConflict(c) \/ AcceptedStateMismatch(c)
             \/ RemovalRefused(c) \/ RetireFails(c)
             \/ ObserveFails(c) \/ RecoverConflict(c) \/ Done(c) \/ ActivationFails(c)
    <3>1. command'[c] = Idle
      BY <2>2, GivingUpFits, FailingRight DEF RightInv
    <3>. QED BY <2>1, <3>1 DEF OrphansKept, HidesNothing, ShedsOn, Busy
  <2>3. CASE ReconcileStep(c)
    <3>1. ShedsOn(c) \/ PendingConflict(c) \/ LiveConflict(c) \/ AcceptedStateMismatch(c)
          \/ RemovalRefused(c) \/ RetireFails(c) \/ ActivationFails(c)
      BY <1>3, <2>3, LoopStepSheds, StagingSheds, LiveStepSheds DEF ReconcileStep
    <3>. QED BY <2>1, <2>2, <3>1 DEF OrphansKept, HidesNothing
  <2>4. CASE ~ReconcileStep(c)
    <3>1. ShedsOn(c) \/ ObserveFails(c) \/ RecoverConflict(c) \/ Done(c)
      BY <1>3, <2>4, LoopStepSheds, ObserveSheds, LiveStepSheds, DriftSheds, MarkerSheds
         DEF CommandStep
    <3>. QED BY <2>1, <2>2, <3>1 DEF OrphansKept, HidesNothing
  <2>. QED BY <2>3, <2>4
<1>4. CASE StartStep(c) \/ LockIsLost(c) \/ Stop(c)
  <2>1. UNCHANGED <<registryVars, fileVars>>
    BY <1>4, StartedIsBusy DEF LockIsLost, Stop, RightInv
  <2>2. OldKnown' /\ UNCHANGED marker
    BY <2>1 DEF OrphanInv, OldKnown, MarkerFits, OrphansKnown, OrphansOf, RowsKnowOrphans,
       NoneBefore, Owns, registryVars, fileVars
  <2>3. ShedsOn(c)
    <3>1. LockIsLost(c) \/ Stop(c) => command'[c] = Idle
      BY GivingUpFits DEF RightInv
    <3>. QED BY <1>4, <3>1, StartSheds DEF ShedsOn, Busy
  <2>. QED BY <2>2, <2>3 DEF OrphansKept, HidesNothing
<1>. QED BY <1>1, <1>2, <1>3, <1>4

(* The user's edits only take away what is old.                            *)
LEMMA UserEditSheds ==
  ASSUME RightInv, OrphanInv, UserEdit
  PROVE  OrphanInv'
<1>1. UNCHANGED <<registryVars, staging, marker, command>>
      /\ \A n \in Package : live'[n] = live[n] \/ live'[n] \notin Digest
  <2>1. live \in [Package -> LiveContent]
    BY DEF RightInv, LifecycleInv, TypeOK, FilesTypeOK
  <2>. QED BY <2>1, NoDigestAssumption, ForeignAssumption DEF UserEdit
<1>2. OldKnown'
  <2>1. NothingOldComes
    BY <1>1 DEF NothingOldComes
  <2>2. OwnersStay /\ RowsStay
    BY <1>1 DEF OwnersStay, RowsStay, Owns, registryVars
  <2>. QED BY <1>1, <2>1, <2>2, OldStaysKnown DEF OrphanInv
<1>3. ASSUME NEW c \in Client, Busy(c)' PROVE Sheds(command[c])'
  <2>1. Sheds(command[c]) /\ OldIn(command[c])' \subseteq OldIn(command[c])
    BY <1>1, <1>3 DEF OrphanInv, Busy, OldIn
  <2>2. Wanted(command[c])'
    BY <1>1, <2>1 DEF Sheds, Wanted
  <2>3. OldPlanned(command[c])'
    <3>1. \A n \in OldIn(command[c])' : live'[n] = live[n]
      BY <1>1 DEF OldIn
    <3>. QED BY <1>1, <2>1, <3>1 DEF Sheds, OldPlanned
  <2>. QED BY <2>2, <2>3 DEF Sheds
<1>. QED BY <1>2, <1>3 DEF OrphanInv

(* As long as one command runs at a time and changes are committed over a  *)
(* current marker, what is old is known and shed.                          *)
LEMMA OrphanInvStep ==
  ASSUME RightInv, AccountInv, OrphanInv, OneAtATime, OneAtATime',
         [Next]_vars, [CommitsCurrent]_vars
  PROVE  OrphanInv' /\ HidesNothing
<1>1. ASSUME NEW c \in Client, CommandStep(c) \/ StartStep(c) \/ LockIsLost(c) \/ Stop(c),
             CommitsCurrent
      PROVE  OrphanInv' /\ HidesNothing
  <2>1. OrphansKept(c) /\ HidesNothing
    BY <1>1, CommandSheds
  <2>2. OthersWait(c)
    BY <1>1, CommandStepFits, GivingUpFits DEF Preserves, RightInv
  <2>3. Busy(c) \/ Busy(c)'
    BY <1>1, StepOfBusy, StartedIsBusy DEF RightInv
  <2>4. ASSUME NEW d \in Client, Busy(d)'
        PROVE  Sheds(command[d])'
    <3>1. d # c => Busy(d)
      BY <2>2, <2>4 DEF OthersWait, Busy
    <3>2. d = c
      BY <2>3, <2>4, <3>1 DEF OneAtATime
    <3>. QED BY <2>1, <2>4, <3>2 DEF OrphansKept, ShedsOn
  <2>. QED BY <2>1, <2>4 DEF OrphanInv, OrphansKept
<1>2. ASSUME UNCHANGED <<registryVars, fileVars, command>>
      PROVE  OrphanInv' /\ HidesNothing
  <2>1. OldKnown' /\ UNCHANGED marker
    BY <1>2 DEF OrphanInv, OldKnown, MarkerFits, OrphansKnown, OrphansOf, RowsKnowOrphans,
       NoneBefore, Owns, registryVars, fileVars
  <2>2. \A c \in Client : Busy(c)' => Sheds(command[c])'
    BY <1>2 DEF OrphanInv, Sheds, Wanted, OldPlanned, OldIn, Busy, fileVars
  <2>. QED BY <2>1, <2>2 DEF OrphanInv, HidesNothing
<1>3. CASE UserEdit
  BY <1>3, UserEditSheds DEF UserEdit, HidesNothing
<1>4. CASE UNCHANGED vars
  BY <1>2, <1>4 DEF vars, reconcileVars
<1>5. CASE Next /\ CommitsCurrent
  BY <1>1, <1>2, <1>3, <1>5 DEF Next, Work
<1>. QED BY <1>4, <1>5

(* At the start nothing is live.                                           *)
LEMMA OrphansStart == Init => OrphanInv
BY NoDigestAssumption
   DEF Init, ReconcileInit, FilesInit, RegistryInit, OrphanInv, OldKnown, MarkerFits, OrphansKnown,
       RowsKnowOrphans, NoneBefore, Owns, Busy

(* A marker never hides a projection that has left the accepted state, if  *)
(* changes are committed only over a marker that is up to date.            *)
THEOREM CurrentMarkersHideNothing ==
  Spec /\ []OneAtATime /\ [][CommitsCurrent]_vars => MarkerLeavesNoOrphan
<1>1. Init => RightInv /\ AccountInv /\ OrphanInv
  BY RightStarts, AccountStarts, OrphansStart
<1>2. RightInv /\ AccountInv /\ OrphanInv /\ OneAtATime /\ OneAtATime' /\ [Next]_vars
        /\ [CommitsCurrent]_vars => (RightInv /\ AccountInv /\ OrphanInv)'
  BY RightInvStep, AccountInvStep, OrphanInvStep
<1>3. RightInv /\ AccountInv /\ OrphanInv /\ OneAtATime /\ OneAtATime' /\ [Next]_vars
        /\ [CommitsCurrent]_vars =>
          [marker' # marker =>
             \A n \in Package : marker'.packages[n] = NoDigest => live[n] \notin Digest]_vars
  BY OrphanInvStep DEF HidesNothing
<1>. QED BY <1>1, <1>2, <1>3, PTL DEF Spec, MarkerLeavesNoOrphan

=============================================================================
