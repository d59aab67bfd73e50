---------------------- MODULE LocalProjections_proofs ----------------------
(* Proofs about the commands for single projections, for any packages,     *)
(* names and dependencies and without a bound on failures and edits.       *)
EXTENDS LocalProjections, FiniteSetTheorems, WellFoundedInduction, TLAPS

----------------------------------------------------------------------------
(* The invariant.                                                          *)

States == UNION {[D -> Projection] : D \in SUBSET Package}

Command ==
  [kind: Kinds, step: Steps, next: States, current: States,
   stages: SUBSET Name, removals: SUBSET Name, copies: SUBSET Name, todo: SUBSET Name,
   existed: SUBSET Name, swapping: SUBSET Name, invalid: BOOLEAN]

Container == {NoContainer} \cup [kind: {"staged"}, made: Content, retired: Content]

Marker == [generation |-> generation, projections |-> accepted]

LocalTypeOK ==
  /\ TypeOK
  /\ accepted \in States
  /\ marker \in [generation: Nat, projections: States]
  /\ stage \in [Name -> Container]
  /\ cmd \in Command \cup {Idle}
  /\ touched \subseteq Name /\ raced \subseteq Name

(* What is no link to the package itself is a copy.                        *)
CopiesWhereNeeded(x) == \A p \in ManagedIn(x) : Direct(p, x[p].view) \/ x[p].mat = "copy"

(* A projection that looks the same is made the same way.                  *)
SameWhereAlike(x, y) ==
  \A p \in ManagedIn(x) \cap ManagedIn(y) : x[p].view = y[p].view => x[p].mat = y[p].mat

Acceptable(x) == AcceptedPlanOk(x) /\ CopiesWhereNeeded(x)

(* The marker is at most one commit behind.                                *)
MarkerFits ==
  /\ marker.generation = generation => marker = Marker
  /\ SameWhereAlike(marker.projections, accepted)

Proposes == cmd.kind \in {"rename", "rebind", "forget"}
BeforeCommit == Commits /\ cmd.step \in {"pending", "stage", "commit"}

(* What a command brings about is not accepted yet, or it is.              *)
GoalFits ==
  /\ BeforeCommit =>
       /\ generation < MaxGeneration /\ marker = Marker
       /\ cmd.current = accepted
       /\ Acceptable(cmd.next) /\ SameWhereAlike(accepted, cmd.next)
  /\ ~BeforeCommit => cmd.next = accepted

(* What the requests of the command ask for.                               *)
RequestsFit ==
  /\ Proposes \/ (cmd.kind = "sync" /\ cmd.step # "clean") => ~cmd.invalid
  /\ cmd.kind \in {"sync", "recover"} \/ Proposes =>
       cmd.invalid \/
         /\ \A n \in cmd.removals : Named(cmd.next, n) = {}
         /\ \A n \in cmd.stages : \E p \in ManagedIn(cmd.next) : cmd.next[p].name = n
  /\ cmd.kind = "detach" =>
       /\ cmd.removals = {}
       /\ \A n \in cmd.stages : Named(cmd.next, n) # {}
       /\ \A n \in cmd.stages : \A p \in CurrentAt(n) : cmd.current[p].mat = "link"
  /\ cmd.kind = "recover" =>
       \A n \in cmd.copies : \E p \in DetachedIn(accepted) : accepted[p].name = n

(* Where the command is.                                                   *)
StepFits ==
  /\ cmd.kind = "mark" => cmd.step = "marker"
  /\ cmd.kind = "recover" => cmd.step # "marker"
  /\ cmd.step = "clean" => cmd.kind \in {"sync", "recover"}
  /\ cmd.step = "commit" => Commits
  /\ cmd.step \in {"remove", "removing"} => cmd.todo \subseteq ToRemove
  /\ cmd.step \in {"activate", "retire", "swap"} => cmd.todo \subseteq ToStage
  /\ cmd.step \in {"removing", "retire", "swap"} => cmd.swapping \subseteq cmd.todo
  /\ cmd.step \in {"removing", "retire"} => \A n \in cmd.swapping : n \in raced \/ Replaceable(n)

NoContainers == \A n \in Name : stage[n] = NoContainer

(* The containers are those of the pending operation.                      *)
ContainersFit ==
  /\ \A n \in Name : stage[n] # NoContainer => n \in PendingNames
  /\ cmd.step = "stage" => NoContainers /\ PendingNames = ToStage \cup ToRemove
  /\ cmd.step \in {"commit", "remove", "removing"} =>
       \A n \in ToStage : stage[n] # NoContainer /\ stage[n].made = Wanted(n)
  /\ cmd.step \in {"activate", "retire", "swap"} =>
       \A n \in cmd.todo : stage[n] # NoContainer /\ stage[n].made = Wanted(n)
  /\ cmd.kind = "sync" /\ cmd.step = "marker" => NoContainers /\ pending = {}

LocalInv ==
  /\ LocalTypeOK
  /\ Acceptable(accepted) /\ MarkerFits /\ ContainersFit
  /\ cmd # Idle => GoalFits /\ RequestsFit /\ StepFits

Shown(p) == Verified(p, cmd.next[p]) \/ cmd.next[p].name \in touched

(* The commands that report that the target is as the registry says.       *)
Answers == cmd.kind \in {"sync", "recover"} \/ Proposes

ShownBut(names) == \A p \in ManagedIn(cmd.next) : cmd.next[p].name \in names \/ Shown(p)

(* What is not staged is there from the beginning, the rest comes.         *)
ShownFits ==
  Answers =>
    /\ cmd.invalid \/ ShownBut(cmd.stages)
    /\ cmd.kind # "recover" /\ cmd.step \in {"activate", "retire", "swap"} => ShownBut(cmd.todo)
    /\ cmd.kind # "recover" /\ cmd.step \in {"finish", "marker"} => ShownBut({})
    /\ Proposes /\ cmd.step = "finish" => marker = Marker

SuccessInv ==
  /\ SuccessMeansAgreement
  /\ cmd # Idle => report = "none" /\ ShownFits

----------------------------------------------------------------------------
(* The planner.                                                            *)

(* A nonempty set of natural numbers has a least element, which is how the *)
(* recursive definitions are reasoned about.                               *)
LEMMA LeastElement ==
  ASSUME NEW T \in SUBSET Nat, T # {}
  PROVE  \E x \in T : \A y \in T : x <= y
<1>1. IsWellFoundedOn(OpToRel(<, Nat), Nat)
  BY NatLessThanWellFounded
<1>2. PICK x \in T : \A y \in T : <<y, x>> \notin OpToRel(<, Nat)
  BY <1>1, WFMin
<1>3. ASSUME NEW y \in T
      PROVE  x <= y
  <2>1. <<y, x>> \in Nat \X Nat
    OBVIOUS
  <2>2. ~(y < x)
    BY <1>2, <2>1 DEF OpToRel
  <2>. QED BY <2>2
<1>. QED BY <1>3

(* From all packages every package is reached, and nothing else.           *)
LEMMA AllReachable ==
  ASSUME DependsOn \subseteq Package \X Package, Cardinality(Package) \in Nat
  PROVE  Reachable(DependsOn, Package) = Package
<1> DEFINE n == Cardinality(Package)
           IsWithin(f) == f = [i \in 0..n |-> IF i = 0 THEN Package
                                              ELSE Beyond(DependsOn, f[i - 1])]
           within == CHOOSE f : IsWithin(f)
<1>1. Beyond(DependsOn, Package) = Package
  BY DEF Beyond
<1>2. IsWithin([i \in 0..n |-> Package])
  BY <1>1
<1>3. IsWithin(within)
  BY <1>2
<1>4. \A i \in 0..n : within[i] = Package
  <2> DEFINE wrong == {i \in 0..n : within[i] # Package}
  <2>1. SUFFICES ASSUME wrong # {}
                 PROVE  FALSE
    OBVIOUS
  <2>2. PICK i \in wrong : \A j \in wrong : i <= j
    <3>1. wrong \in SUBSET Nat
      OBVIOUS
    <3> HIDE DEF wrong
    <3>. QED BY <2>1, <3>1, LeastElement
  <2>3. i # 0
    BY <1>3, <2>2
  <2>4. within[i - 1] = Package
    BY <2>2, <2>3
  <2>. QED BY <1>1, <1>3, <2>2, <2>3, <2>4
<1>5. Reachable(DependsOn, Package) = within[n]
  BY DEF Reachable
<1>. QED BY <1>4, <1>5

(* The names and the views that the planner gives.                         *)
LEMMA StatesAre ==
  \A x : x \in States <=> x \in [DOMAIN x -> Projection] /\ DOMAIN x \subseteq Package
BY DEF States

(* A view is made of names, and has the name of its package.               *)
LEMMA ViewsAre ==
  ASSUME NEW names \in [Package -> Name], NEW p \in Package
  PROVE  /\ ViewOf(DependsOn, names, p) \in View
         /\ ViewOf(DependsOn, names, p).name = names[p]
<1> DEFINE routes == {<<q, names[q]>> : q \in {q \in DOMAIN names :
                                    <<p, q>> \in DependsOn /\ names[q] # Default[q]}}
<1>1. ASSUME NEW r \in routes
      PROVE  r \in Package \X Name
  <2>1. PICK q \in DOMAIN names : r = <<q, names[q]>>
    OBVIOUS
  <2>. QED BY <2>1
<1>2. ViewOf(DependsOn, names, p) = [name |-> names[p], routes |-> routes]
  BY DEF ViewOf
<1> HIDE DEF routes
<1>. QED BY <1>1, <1>2 DEF View

(* The names of a plan are those of the projections, and the default names.*)
LEMMA NamesAre ==
  ASSUME NEW x \in States
  PROVE  /\ NamesOf(x) \in [Package -> Name]
         /\ \A p \in DOMAIN x : p \in Package /\ NamesOf(x)[p] = x[p].name
         /\ \A p \in Package : ActivationOf(RenamesOf(x), p) = NamesOf(x)[p]
<1>1. x \in [DOMAIN x -> Projection] /\ DOMAIN x \subseteq Package
  BY StatesAre
<1>2. \A p \in DOMAIN x : x[p].name \in Name
  BY <1>1 DEF Projection
<1>3. ASSUME NEW p \in Package
      PROVE  ActivationOf(RenamesOf(x), p) = NamesOf(x)[p]
  <2>1. CASE p \in DOMAIN x /\ x[p].name # Default[p]
    <3>1. \A r \in RenamesOf(x) : r[1] = p => r = <<p, x[p].name>>
      BY DEF RenamesOf
    <3>2. <<p, x[p].name>> \in RenamesOf(x)
      BY <2>1 DEF RenamesOf
    <3>3. (CHOOSE r \in RenamesOf(x) : r[1] = p) = <<p, x[p].name>>
      BY <3>1, <3>2
    <3>4. \E r \in RenamesOf(x) : r[1] = p
      BY <3>2
    <3> DEFINE rename == CHOOSE r \in RenamesOf(x) : r[1] = p
    <3>5. ActivationOf(RenamesOf(x), p) = rename[2]
      BY <3>4, Zenon DEF ActivationOf
    <3>6. rename = <<p, x[p].name>>
      BY <3>3
    <3> HIDE DEF rename
    <3>. QED BY <2>1, <3>5, <3>6 DEF NamesOf
  <2>2. CASE ~(p \in DOMAIN x /\ x[p].name # Default[p])
    <3>1. ~\E r \in RenamesOf(x) : r[1] = p
      BY <2>2 DEF RenamesOf
    <3>. QED BY <2>2, <3>1 DEF ActivationOf, NamesOf
  <2>. QED BY <2>1, <2>2
<1>. QED BY <1>1, <1>2, <1>3, DefaultAssumption DEF NamesOf

(* A plan has a view for every package, and is good if no name is taken twice.*)
LEMMA PlanGives ==
  ASSUME NEW x \in States
  PROVE  /\ Planned(x) = [p \in Package |-> ViewOf(DependsOn, NamesOf(x), p)]
         /\ PlannedOk(x) <=> ~ActivationConflict(NamesOf(x))
<1>1. Reachable(DependsOn, Package) = Package
  BY AllReachable, LocalAssumption, FS_CardinalityType
<1>2. /\ NamesOf(x) = [p \in Reachable(DependsOn, Package) |-> ActivationOf(RenamesOf(x), p)]
      /\ DOMAIN NamesOf(x) = Package
  BY <1>1, NamesAre DEF NamesOf
<1>3. Planned(x) = [p \in Package |-> ViewOf(DependsOn, NamesOf(x), p)]
  BY <1>2 DEF Planned, PlanProjections
<1>4. PlannerInputOk(Package, DependsOn, Package, RenamesOf(x))
  <2>1. DOMAIN x \subseteq Package
    BY StatesAre
  <2>2. \A e \in DependsOn : e[1] \in Package /\ e[2] \in Package
    BY LocalAssumption
  <2>. QED BY <2>1, <2>2 DEF PlannerInputOk, RenamesOf
<1>. QED BY <1>2, <1>3, <1>4 DEF PlannedOk, PlanOk

(* Where a package is planned under the name it has, names are unique.     *)
LEMMA NamesApart ==
  ASSUME NEW x \in States, PlannedOk(x)
  PROVE  /\ \A p, q \in DOMAIN x : x[p].name = x[q].name => p = q
         /\ \A p \in DOMAIN x : TheNamed(x, x[p].name) = p
<1>1. ASSUME NEW p \in DOMAIN x, NEW q \in DOMAIN x, x[p].name = x[q].name
      PROVE  p = q
  <2>1. /\ ~ActivationConflict(NamesOf(x)) /\ DOMAIN NamesOf(x) = Package
        /\ NamesOf(x)[p] = x[p].name /\ NamesOf(x)[q] = x[q].name
        /\ p \in Package /\ q \in Package
    BY NamesAre, PlanGives
  <2>. QED BY <1>1, <2>1 DEF ActivationConflict
<1>2. ASSUME NEW p \in DOMAIN x
      PROVE  TheNamed(x, x[p].name) = p
  <2>1. Named(x, x[p].name) = {p}
    BY <1>1 DEF Named
  <2>. QED BY <2>1 DEF TheNamed
<1>. QED BY <1>1, <1>2

(* The projections that a plan brings about: names and owners stay, the    *)
(* managed ones look as planned, and the same plan comes out again.        *)
LEMMA NextIs ==
  ASSUME NEW x \in States, PlannedOk(x), NEW y, y = NextProjections(x)
  PROVE  /\ y \in States /\ DOMAIN y = DOMAIN x
         /\ \A p \in DOMAIN x : y[p].owner = x[p].owner /\ y[p].name = x[p].name
         /\ DetachedIn(y) = DetachedIn(x) /\ ManagedIn(y) = ManagedIn(x)
         /\ \A p \in ManagedIn(x) :
              /\ y[p].view = Planned(x)[p]
              /\ y[p].mat = IF Direct(p, y[p].view) THEN x[p].mat ELSE "copy"
         /\ Acceptable(y)
<1>1. x \in [DOMAIN x -> Projection] /\ DOMAIN x \subseteq Package
  BY StatesAre
<1>2. ASSUME NEW p \in DOMAIN x
      PROVE  /\ y[p] \in Projection /\ y[p].owner = x[p].owner /\ y[p].name = x[p].name
             /\ x[p].owner # "detached" =>
                  /\ y[p].view = Planned(x)[p]
                  /\ y[p].mat = IF Direct(p, y[p].view) THEN x[p].mat ELSE "copy"
  <2>1. CASE x[p].owner = "detached"
    <3>1. y[p] = x[p]
      BY <2>1 DEF NextProjections
    <3>. QED BY <1>1, <2>1, <3>1
  <2>2. CASE x[p].owner # "detached"
    <3> DEFINE view == Planned(x)[p]
    <3>1. view \in View /\ view.name = x[p].name
      BY <1>1, NamesAre, PlanGives, ViewsAre
    <3>2. y[p] = [x[p] EXCEPT !.name = view.name, !.view = view,
                              !.mat = IF Direct(p, view) THEN x[p].mat ELSE "copy"]
      BY <2>2 DEF NextProjections
    <3> HIDE DEF view
    <3>3. x[p] \in Projection /\ view.name \in Name
      BY <1>1, <3>1 DEF Projection
    <3>4. /\ y[p] \in Projection /\ y[p].owner = x[p].owner /\ y[p].name = x[p].name
          /\ y[p].view = view
          /\ y[p].mat = IF Direct(p, view) THEN x[p].mat ELSE "copy"
      BY <3>1, <3>2, <3>3 DEF Projection
    <3>. QED BY <3>4 DEF view
  <2>. QED BY <2>1, <2>2
<1>3. DOMAIN y = DOMAIN x /\ y = [p \in DOMAIN x |-> y[p]]
  BY DEF NextProjections
<1>4. y \in States
  <2>1. y \in [DOMAIN x -> Projection]
    BY <1>2, <1>3
  <2>. QED BY <1>1, <1>3, <2>1, StatesAre
<1>5. DetachedIn(y) = DetachedIn(x) /\ ManagedIn(y) = ManagedIn(x)
  BY <1>2, <1>3 DEF DetachedIn, ManagedIn
<1>6. NamesOf(y) = NamesOf(x)
  BY <1>2, <1>3 DEF NamesOf
<1>7. PlannedOk(y) /\ Planned(y) = Planned(x)
  BY <1>4, <1>6, PlanGives
<1>8. Acceptable(y)
  BY <1>2, <1>3, <1>5, <1>7
     DEF Acceptable, AcceptedPlanOk, CopiesWhereNeeded, ManagedIn, DetachedIn
<1>. QED BY <1>2, <1>3, <1>4, <1>5, <1>8 DEF ManagedIn, DetachedIn

----------------------------------------------------------------------------
(* How a command begins and moves on.                                      *)

(* A command that is idle has no step and no kind.                         *)
LEMMA IdleIsNot ==
  /\ Idle \notin Command /\ Idle.kind = "none" /\ Idle.step = "none"
  /\ \A c \in Command : c.step # "none" /\ c.kind # "none"
BY DEF Idle, Command, Kinds, Steps

(* The plan stays the same.                                                *)
SamePlan ==
  /\ cmd' \in Command
  /\ cmd'.kind = cmd.kind /\ cmd'.next = cmd.next /\ cmd'.current = cmd.current
  /\ cmd'.stages = cmd.stages /\ cmd'.removals = cmd.removals /\ cmd'.copies = cmd.copies
  /\ cmd'.invalid = cmd.invalid

(* A command that goes on keeps its plan and changes only where it is.      *)
LEMMA GoToMoves ==
  ASSUME cmd \in Command, NEW step \in Steps, NEW todo \in SUBSET Name, GoTo(step, todo)
  PROVE  /\ SamePlan /\ cmd'.step = step /\ cmd'.todo = todo
         /\ cmd'.existed = cmd.existed /\ cmd'.swapping = cmd.swapping
         /\ UNCHANGED <<report, userMarks>>
BY DEF GoTo, Command, SamePlan

(* What a projection looks like in a directory.                            *)
LEMMA ExpectedIs ==
  ASSUME NEW p \in Package, NEW projection \in Projection
  PROVE  /\ Expected(p, projection) \in Content
         /\ Expected(p, projection) # User /\ Expected(p, projection) # Nothing
         /\ projection.mat = "link" => Expected(p, projection).kind = "link"
BY DEF Expected, Content, Projection, Link, Copy, User, Nothing

(* The actions of a preflight are about names, ...                         *)
LEMMA ActionsAre ==
  ASSUME NEW x \in States, NEW current \in States, NEW observed,
         NEW actions, actions = PreflightActions(DesiredOf(x), current, observed)
  PROVE  /\ NamesToStage(actions) \in SUBSET Name
         /\ NamesToRemove(actions) \in SUBSET Name
<1>1. \A p \in DOMAIN current : current[p].name \in Name
  BY StatesAre DEF Projection
<1>2. \A p \in DOMAIN DesiredOf(x) : DesiredOf(x)[p].name \in Name
  <2>1. ASSUME NEW p \in DOMAIN x
        PROVE  Planned(x)[p].name \in Name
    BY NamesAre, PlanGives, ViewsAre
  <2>. QED BY <2>1 DEF DesiredOf
<1>3. \A a \in actions : a.name \in Name
  <2>1. ASSUME NEW a \in actions
        PROVE  a.name \in Name
    <3>1. CASE \E p \in DetachedIn(current) : a = DetachedAction(DesiredOf(x), current, observed, p)
      BY <1>1, <3>1 DEF DetachedAction, DetachedIn
    <3>2. CASE \E p \in ManagedIn(current) : a = ManagedAction(DesiredOf(x), current, observed, p)
      BY <1>1, <3>2 DEF ManagedAction, ManagedIn
    <3>3. CASE \E q \in DOMAIN DesiredOf(x) :
                 a = [name |-> DesiredOf(x)[q].name, from |-> NoPackage, to |-> q,
                      action |-> "materialize"]
      BY <1>2, <3>3
    <3>. QED BY <3>1, <3>2, <3>3 DEF PreflightActions, Fresh
  <2>. QED BY <2>1
<1>. QED BY <1>3 DEF NamesToStage, NamesToRemove

(* ... and requests that are in order show what is to be staged and leave  *)
(* out what is to be removed.                                              *)
LEMMA RequestsAsk ==
  ASSUME NEW actions, NEW next, RequestsOk(actions, next)
  PROVE  /\ \A n \in NamesToRemove(actions) : Named(next, n) = {}
         /\ \A n \in NamesToStage(actions) : \E p \in ManagedIn(next) : next[p].name = n
<1>1. ASSUME NEW n \in NamesToRemove(actions)
      PROVE  Named(next, n) = {}
  BY DEF RequestsOk, NamesToRemove
<1>2. ASSUME NEW n \in NamesToStage(actions)
      PROVE  \E p \in ManagedIn(next) : next[p].name = n
  <2>1. PICK a \in actions : a.name = n /\ a.action \in {"materialize", "replace"}
    BY DEF NamesToStage
  <2>2. a.to \in DOMAIN next /\ next[a.to].owner = "managed" /\ next[a.to].name = a.name
    BY <2>1 DEF RequestsOk
  <2>. QED BY <2>1, <2>2 DEF ManagedIn, DetachedIn
<1>. QED BY <1>1, <1>2

(* The directory, the containers and the pending row stay well typed.      *)
Rest ==
  /\ dir' \in [Name -> Content] /\ stage' \in [Name -> Container]
  /\ pending' \in SUBSET SUBSET Name /\ Cardinality(pending') <= 1
  /\ touched' \subseteq Name /\ raced' \subseteq Name

(* The types and the marker, whatever step it is.                          *)
LEMMA TypeGoesOn ==
  ASSUME LocalInv, Rest, UNCHANGED <<accepted, generation>>,
         marker' = marker \/ marker' = Marker, cmd' \in Command \cup {Idle}
  PROVE  LocalTypeOK' /\ Acceptable(accepted)' /\ MarkerFits'
<1>1. /\ DOMAIN accepted \subseteq Package /\ \A p \in DOMAIN accepted : accepted[p] \in Projection
      /\ generation \in Nat /\ generation \in 1..MaxGeneration /\ marker.generation \in 1..generation
      /\ accepted \in States /\ marker \in [generation: Nat, projections: States]
  BY BoundAssumption DEF LocalInv, LocalTypeOK, TypeOK
<1>2. /\ marker' \in [generation: Nat, projections: States]
      /\ marker'.generation \in 1..generation
  BY <1>1 DEF Marker
<1>3. \A n \in Name : stage'[n] = NoContainer \/ stage'[n].kind = "staged"
  BY DEF Rest, Container
<1>4. cmd' # Idle => cmd'.kind \in Kinds /\ cmd'.step \in Steps
  BY DEF Command
<1>5. TypeOK'
  BY <1>1, <1>2, <1>3, <1>4 DEF Rest, TypeOK
<1>6. LocalTypeOK'
  BY <1>1, <1>2, <1>5 DEF LocalTypeOK, Rest
<1>7. Acceptable(accepted)'
  BY DEF LocalInv, Acceptable, AcceptedPlanOk, CopiesWhereNeeded, PlannedOk, Planned, RenamesOf,
         ManagedIn, DetachedIn
<1>8. MarkerFits'
  <2>1. CASE marker' = marker
    BY <2>1 DEF LocalInv, MarkerFits, Marker, SameWhereAlike, ManagedIn, DetachedIn
  <2>2. CASE marker' = Marker
    <3>1. marker' = Marker' /\ marker'.projections = accepted'
      BY <2>2 DEF Marker
    <3>. QED BY <3>1 DEF MarkerFits, SameWhereAlike
  <2>. QED BY <2>1, <2>2
<1>. QED BY <1>6, <1>7, <1>8

(* A command ends.                                                         *)
LEMMA EndsWell ==
  ASSUME LocalInv, Rest, UNCHANGED <<accepted, generation>>,
         marker' = marker \/ marker' = Marker, cmd' = Idle,
         \A n \in Name : stage'[n] # NoContainer => n \in PendingNames'
  PROVE  LocalInv'
<1>1. LocalTypeOK' /\ Acceptable(accepted)' /\ MarkerFits'
  BY TypeGoesOn
<1>2. ContainersFit'
  BY IdleIsNot DEF ContainersFit, Idle
<1>. QED BY <1>1, <1>2 DEF LocalInv

(* A command goes on.                                                      *)
LEMMA GoesOn ==
  ASSUME LocalInv, cmd \in Command, Rest, SamePlan, UNCHANGED <<accepted, generation>>,
         marker' = marker \/ marker' = Marker,
         Commits => (cmd'.step \in {"pending", "stage", "commit"}
                       <=> cmd.step \in {"pending", "stage", "commit"}),
         cmd.kind = "sync" /\ cmd'.step # "clean" => ~cmd.invalid,
         StepFits', ContainersFit'
  PROVE  LocalInv'
<1>1. LocalTypeOK' /\ Acceptable(accepted)' /\ MarkerFits'
  BY TypeGoesOn DEF SamePlan
<1>2. cmd # Idle /\ GoalFits /\ RequestsFit
  BY IdleIsNot DEF LocalInv
<1>3. BeforeCommit' <=> BeforeCommit
  BY DEF BeforeCommit, Commits, SamePlan
<1>4. GoalFits'
  <2>1. BeforeCommit => marker' = Marker'
    BY <1>2 DEF GoalFits, Marker
  <2>2. Acceptable(cmd.next) => Acceptable(cmd.next)'
    BY DEF SamePlan, Acceptable, AcceptedPlanOk, CopiesWhereNeeded, PlannedOk, Planned, RenamesOf,
           ManagedIn, DetachedIn
  <2>3. SameWhereAlike(accepted, cmd.next) => SameWhereAlike(accepted, cmd.next)'
    BY DEF SamePlan, SameWhereAlike, ManagedIn, DetachedIn
  <2>. QED BY <1>2, <1>3, <2>1, <2>2, <2>3 DEF GoalFits, SamePlan
<1>5. RequestsFit'
  BY <1>2 DEF RequestsFit, Proposes, SamePlan, Named, ManagedIn, DetachedIn, CurrentAt
<1>. QED BY <1>1, <1>4, <1>5 DEF LocalInv

(* What does not move.                                                     *)
LEMMA Unmoved ==
  ASSUME LocalInv
  PROVE  /\ dir \in [Name -> Content] /\ stage \in [Name -> Container]
         /\ pending \in SUBSET SUBSET Name /\ Cardinality(pending) <= 1
         /\ touched \subseteq Name /\ raced \subseteq Name
         /\ cmd.step # "none" => cmd # Idle /\ cmd \in Command /\ StepFits
         /\ cmd.step = "none" => cmd = Idle
         /\ \A n \in Name : stage[n] # NoContainer => n \in PendingNames
         /\ User \in Content /\ Nothing \in Content
BY IdleIsNot DEF LocalInv, LocalTypeOK, TypeOK, ContainersFit, Idle, Content

(* The steps before a commit.                                              *)
LEMMA PreparingKeeps ==
  ASSUME LocalInv, CleanPending \/ BeginPending \/ StageAll \/ StagingFails
  PROVE  LocalInv'
<1> USE Unmoved
<1>1. cmd \in Command /\ StepFits /\ cmd.stages \subseteq Name /\ cmd.removals \subseteq Name
      /\ cmd.copies \subseteq Name
  BY DEF CleanPending, BeginPending, StageAll, StagingFails, Command
<1>2. ToStage \subseteq Name /\ ToRemove \subseteq Name
  BY <1>1 DEF ToStage, ToRemove
<1>3. Cardinality({}) = 0 /\ \A S : Cardinality({S}) = 1
  BY FS_EmptySet, FS_Singleton
<1>4. CASE CleanPending
  <2>1. /\ cmd.step = "clean" /\ pending' = {} /\ UNCHANGED <<accepted, generation, dir, marker>>
        /\ stage' = [n \in Name |-> IF n \in PendingNames THEN NoContainer ELSE stage[n]]
    BY <1>4 DEF CleanPending
  <2>2. stage' \in [Name -> Container] /\ \A n \in Name : stage'[n] = NoContainer
    BY <2>1 DEF Container
  <2>3. cmd.kind \in {"sync", "recover"}
    BY <1>1, <2>1 DEF StepFits
  <2>4. CASE Fail
    BY <1>3, <2>1, <2>2, <2>4, EndsWell DEF Fail, Rest
  <2>5. CASE \/ GoTo("marker", {}) /\ cmd.kind = "sync" /\ ~cmd.invalid
             \/ GoTo("pending", {}) /\ ~(cmd.kind = "sync" /\ cmd.invalid)
    <3>1. /\ SamePlan /\ UNCHANGED <<touched, raced>>
          /\ \/ cmd'.step = "marker" /\ cmd.kind = "sync"
             \/ cmd'.step = "pending"
          /\ cmd.kind = "sync" => ~cmd.invalid
      BY <1>1, <2>5, GoToMoves DEF Steps, userMarks
    <3>2. StepFits'
      BY <2>3, <3>1 DEF StepFits, SamePlan
    <3>3. ContainersFit'
      BY <2>1, <2>2, <3>1 DEF ContainersFit, NoContainers
    <3>4. Rest /\ ~Commits
      BY <1>3, <2>1, <2>2, <2>3, <3>1 DEF Rest, Commits
    <3>. QED BY <1>1, <2>1, <3>1, <3>2, <3>3, <3>4, GoesOn
  <2>. QED BY <1>4, <2>4, <2>5 DEF CleanPending
<1>5. CASE BeginPending
  <2>1. /\ cmd.step = "pending"
        /\ UNCHANGED <<accepted, generation, dir, stage, marker>>
    BY <1>5 DEF BeginPending, files
  <2>2. CASE Fail /\ UNCHANGED pending
    BY <2>1, <2>2, EndsWell DEF Fail, Rest, PendingNames
  <2>3. CASE pending = {} /\ pending' = {ToStage \cup ToRemove} /\ GoTo("stage", {})
    <3>1. SamePlan /\ UNCHANGED <<touched, raced>> /\ cmd'.step = "stage"
      BY <1>1, <2>3, GoToMoves DEF Steps, userMarks
    <3>2. StepFits'
      BY <1>1, <2>1, <3>1 DEF StepFits, SamePlan
    <3>3. NoContainers'
      BY <2>1, <2>3 DEF NoContainers, PendingNames
    <3>4. PendingNames' = (ToStage \cup ToRemove)'
      BY <2>3, <3>1 DEF PendingNames, ToStage, ToRemove, SamePlan
    <3>5. ContainersFit'
      BY <3>1, <3>3, <3>4 DEF ContainersFit, NoContainers
    <3>6. Rest
      <4>1. pending' \in SUBSET SUBSET Name
        BY <1>2, <2>3
      <4>2. Cardinality(pending') = 1
        BY <1>3, <2>3
      <4>. QED BY <2>1, <3>1, <4>1, <4>2 DEF Rest
    <3>7. cmd.kind = "sync" => ~cmd.invalid
      BY <1>1, <2>1 DEF LocalInv, RequestsFit
    <3>. QED BY <1>1, <2>1, <3>1, <3>2, <3>5, <3>6, <3>7, GoesOn
  <2>. QED BY <1>5, <2>2, <2>3 DEF BeginPending
<1>6. CASE StageAll
  <2>1. /\ cmd.step = "stage" /\ UNCHANGED <<accepted, generation, pending, dir, marker>>
        /\ UNCHANGED <<touched, raced>>
        /\ stage' = [n \in Name |->
             IF n \in ToStage THEN [kind |-> "staged", made |-> Wanted(n), retired |-> Nothing]
             ELSE stage[n]]
        /\ cmd' = [cmd EXCEPT !.step = IF Commits THEN "commit" ELSE "remove",
                              !.todo = IF Commits THEN {} ELSE ToRemove,
                              !.existed = {n \in ToStage : ~Missing(n)}]
    BY <1>6 DEF StageAll, registryFacts, userMarks
  <2>2. /\ SamePlan /\ cmd'.step = IF Commits THEN "commit" ELSE "remove"
        /\ cmd'.todo = IF Commits THEN {} ELSE ToRemove
    <3>1. {n \in ToStage : ~Missing(n)} \in SUBSET Name
      BY <1>2
    <3>. QED BY <1>1, <1>2, <2>1, <3>1 DEF SamePlan, Command, Steps
  <2>3. ASSUME NEW n \in ToStage
        PROVE  Wanted(n) \in Content
    <3>1. /\ GoalFits /\ RequestsFit /\ cmd.next \in States
          /\ ~BeforeCommit => cmd.next = accepted
      BY <1>1, <2>1 DEF LocalInv, GoalFits, Command
    <3>2. Named(cmd.next, n) # {}
      <4>1. CASE cmd.kind = "recover"
        <5>1. cmd.next = accepted /\ n \in cmd.copies
          BY <2>3, <3>1, <4>1 DEF BeforeCommit, Commits, ToStage
        <5>. QED BY <3>1, <4>1, <5>1 DEF RequestsFit, Named, DetachedIn
      <4>2. CASE cmd.kind # "recover"
        <5>1. n \in cmd.stages /\ cmd.kind \in Kinds /\ cmd.kind # "mark"
          BY <1>1, <2>1, <2>3, <4>2 DEF ToStage, StepFits, Command
        <5>. QED BY <2>1, <3>1, <4>2, <5>1
                 DEF RequestsFit, Proposes, Kinds, Named, ManagedIn
      <4>. QED BY <4>1, <4>2
    <3>3. TheNamed(cmd.next, n) \in DOMAIN cmd.next
      BY <3>2 DEF TheNamed, Named
    <3>4. TheNamed(cmd.next, n) \in Package /\ cmd.next[TheNamed(cmd.next, n)] \in Projection
      BY <3>1, <3>3, StatesAre
    <3>. QED BY <3>4, ExpectedIs DEF Wanted
  <2>4. stage' \in [Name -> Container]
    BY <2>1, <2>3 DEF Container, Content
  <2>5. StepFits'
    BY <1>1, <2>1, <2>2 DEF StepFits, SamePlan, Commits, ToRemove
  <2>6. ContainersFit'
    <3>1. NoContainers /\ PendingNames = ToStage \cup ToRemove
      BY <2>1 DEF LocalInv, ContainersFit
    <3>2. /\ PendingNames' = PendingNames /\ ToStage' = ToStage
          /\ \A n : Wanted(n)' = Wanted(n)
      BY <2>1, <2>2 DEF PendingNames, ToStage, Wanted, SamePlan
    <3>3. \A n \in Name : IF n \in ToStage THEN stage'[n] # NoContainer /\ stage'[n].made = Wanted(n)
                                           ELSE stage'[n] = NoContainer
      BY <2>1, <3>1 DEF NoContainers, NoContainer
    <3>. QED BY <1>2, <2>2, <3>1, <3>2, <3>3 DEF ContainersFit, NoContainers
  <2>7. Rest
    BY <2>1, <2>4 DEF Rest
  <2>8. cmd.kind = "sync" => ~cmd.invalid
    BY <1>1, <2>1 DEF LocalInv, RequestsFit
  <2>. QED BY <1>1, <2>1, <2>2, <2>5, <2>6, <2>7, <2>8, GoesOn
<1>7. CASE StagingFails
  <2>1. /\ cmd.step = "stage" /\ pending' = {} /\ cmd' = Idle /\ touched' = {} /\ raced' = {}
        /\ UNCHANGED <<accepted, generation, dir, stage, marker>>
    BY <1>7 DEF StagingFails, Fail, files
  <2>2. \A n \in Name : stage'[n] = NoContainer
    BY <2>1 DEF LocalInv, ContainersFit, NoContainers
  <2>. QED BY <1>3, <2>1, <2>2, EndsWell DEF Rest
<1>. QED BY <1>4, <1>5, <1>6, <1>7

(* The commit.                                                             *)
LEMMA CommitKeeps ==
  ASSUME LocalInv, Commit \/ CommitRefused
  PROVE  LocalInv'
<1> USE Unmoved
<1>1. /\ cmd.step = "commit" /\ cmd \in Command /\ StepFits /\ Commits
      /\ GoalFits /\ RequestsFit /\ BeforeCommit
      /\ UNCHANGED <<dir, stage, marker>> /\ pending' = pending
  <2>1. cmd.step = "commit"
    BY DEF Commit, CommitRefused
  <2>. QED BY <2>1 DEF LocalInv, StepFits, BeforeCommit, Commit, CommitRefused, files, registryFacts
<1>2. CASE CommitRefused
  BY <1>1, <1>2, EndsWell DEF CommitRefused, Fail, Rest, registryFacts, PendingNames
<1>3. CASE Commit
  <2>1. accepted' = cmd.next /\ generation' = generation + 1
    BY <1>3 DEF Commit
  <2>2. /\ generation < MaxGeneration /\ generation \in Nat /\ MaxGeneration \in Nat
        /\ marker = Marker /\ Acceptable(cmd.next) /\ SameWhereAlike(accepted, cmd.next)
        /\ cmd.next \in States /\ accepted \in States
    BY <1>1, BoundAssumption DEF GoalFits, LocalInv, LocalTypeOK, TypeOK, Command
  <2>3. /\ SamePlan /\ UNCHANGED <<report, userMarks>>
        /\ \/ cmd.kind = "detach" /\ cmd'.step = "marker"
           \/ cmd.kind = "detach" /\ cmd'.step = "activate" /\ cmd'.todo = cmd.stages
           \/ cmd'.step = "remove" /\ cmd'.todo = cmd.removals
    <3>1. cmd.stages \in SUBSET Name /\ cmd.removals \in SUBSET Name
      BY <1>1 DEF Command
    <3>. QED BY <1>1, <1>3, <3>1, GoToMoves DEF Commit, Steps
  <2>4. LocalTypeOK'
    <3>1. /\ accepted' \in States /\ DOMAIN accepted' \subseteq Package
          /\ \A p \in DOMAIN accepted' : accepted'[p] \in Projection
      BY <2>1, <2>2, StatesAre
    <3>2. generation' \in 1..MaxGeneration /\ marker.generation \in 1..generation'
      BY <2>1, <2>2 DEF LocalInv, LocalTypeOK, TypeOK
    <3>3. cmd'.kind \in Kinds /\ cmd'.step \in Steps
      BY <2>3 DEF SamePlan, Command
    <3>4. TypeOK'
      BY <1>1, <3>1, <3>2, <3>3 DEF LocalInv, LocalTypeOK, TypeOK
    <3>. QED BY <1>1, <2>3, <3>1, <3>4 DEF LocalInv, LocalTypeOK, SamePlan, userMarks
  <2>5. Acceptable(accepted)'
    BY <2>1, <2>2 DEF Acceptable, AcceptedPlanOk, CopiesWhereNeeded, PlannedOk, Planned, RenamesOf,
                      ManagedIn, DetachedIn
  <2>6. MarkerFits'
    <3>1. marker'.generation # generation' /\ marker'.projections = accepted
      BY <1>1, <2>1, <2>2 DEF Marker
    <3>. QED BY <2>1, <2>2, <3>1 DEF MarkerFits, SameWhereAlike, ManagedIn, DetachedIn
  <2>7. ContainersFit'
    <3>1. ContainersFit /\ ToStage' = ToStage /\ (\A n : Wanted(n)' = Wanted(n))
          /\ PendingNames' = PendingNames /\ ToStage = cmd.stages
      BY <1>1, <2>3 DEF LocalInv, ToStage, Wanted, SamePlan, PendingNames, Commits
    <3>. QED BY <1>1, <2>3, <3>1 DEF ContainersFit, SamePlan, Commits
  <2>8. GoalFits'
    BY <2>1, <2>3 DEF GoalFits, BeforeCommit, SamePlan
  <2>9. RequestsFit'
    BY <1>1, <2>3 DEF RequestsFit, Proposes, SamePlan, Named, ManagedIn, DetachedIn, CurrentAt, Commits
  <2>10. StepFits'
    BY <1>1, <2>3 DEF StepFits, SamePlan, Commits, ToStage, ToRemove
  <2>. QED BY <2>4, <2>5, <2>6, <2>7, <2>8, <2>9, <2>10 DEF LocalInv
<1>. QED BY <1>2, <1>3

(* Removal and activation.                                                 *)
LEMMA ActingKeeps ==
  ASSUME LocalInv, Remove \/ RemoveVerified \/ Activate \/ Retire \/ Swap \/ SwapFails
  PROVE  LocalInv'
<1> USE Unmoved
<1>1. /\ cmd \in Command /\ StepFits /\ ContainersFit /\ cmd.todo \subseteq Name
      /\ cmd.swapping \subseteq Name /\ RequestsFit
      /\ cmd.step \in {"remove", "removing", "activate", "retire", "swap"}
      /\ ToStage \subseteq Name /\ ToRemove \subseteq Name
  BY DEF Remove, RemoveVerified, Activate, Retire, Swap, SwapFails, Command, LocalInv, ToStage, ToRemove
<1>2. UNCHANGED <<accepted, generation, pending, marker>>
  BY DEF Remove, RemoveVerified, Activate, Retire, Swap, SwapFails, registryFacts, files
<1>3. cmd.kind = "sync" => ~cmd.invalid
  BY <1>1 DEF RequestsFit
<1>4. ASSUME SamePlan, dir' \in [Name -> Content], stage' \in [Name -> Container],
             UNCHANGED <<touched, raced>>,
             \A n \in Name : stage'[n] # NoContainer => stage[n] # NoContainer,
             cmd'.step \in {"remove", "removing", "activate", "retire", "swap", "finish", "marker"},
             cmd'.step = "marker" => cmd.kind \in {"rename", "rebind", "forget"},
             cmd'.step \in {"remove", "removing"} =>
               cmd.step \in {"remove", "removing"} /\ stage' = stage,
             cmd'.step \in {"remove", "removing"} => cmd'.todo \subseteq ToRemove,
             cmd'.step \in {"activate", "retire", "swap"} =>
               cmd'.todo \subseteq ToStage,
             cmd'.step \in {"activate", "retire", "swap"} =>
               \A n \in cmd'.todo : stage'[n] # NoContainer /\ stage'[n].made = Wanted(n),
             cmd'.step \in {"removing", "retire", "swap"} => cmd'.swapping \subseteq cmd'.todo,
             cmd'.step \in {"removing", "retire"} =>
               UNCHANGED dir /\ \A n \in cmd'.swapping : Replaceable(n)
      PROVE  LocalInv'
  <2>1. /\ ToStage' = ToStage /\ ToRemove' = ToRemove /\ (\A n : Wanted(n)' = Wanted(n))
        /\ PendingNames' = PendingNames
        /\ UNCHANGED dir => \A n : Replaceable(n)' <=> Replaceable(n)
    BY <1>2, <1>4 DEF ToStage, ToRemove, Wanted, SamePlan, PendingNames, Replaceable, StillCurrent,
                      CurrentAt, Verified, ManagedIn, DetachedIn
  <2>2. StepFits'
    BY <1>1, <1>4, <2>1 DEF StepFits, SamePlan
  <2>3. ContainersFit'
    BY <1>1, <1>4, <2>1 DEF ContainersFit, SamePlan
  <2>4. Rest
    BY <1>2, <1>4 DEF Rest
  <2>. QED BY <1>1, <1>2, <1>3, <1>4, <2>2, <2>3, <2>4, GoesOn
<1>5. ASSUME Fail, dir' \in [Name -> Content], stage' \in [Name -> Container],
             \A n \in Name : stage'[n] # NoContainer => stage[n] # NoContainer
      PROVE  LocalInv'
  BY <1>2, <1>5, EndsWell DEF Fail, Rest, PendingNames
<1>6. ASSUME NEW n \in Name, stage[n] # NoContainer
      PROVE  /\ stage[n].made \in Content /\ stage[n].retired \in Content
             /\ \A content \in Content :
                  /\ [stage[n] EXCEPT !.made = content] \in Container \ {NoContainer}
                  /\ [stage[n] EXCEPT !.retired = content] \in Container \ {NoContainer}
                  /\ [stage[n] EXCEPT !.retired = content].made = stage[n].made
  BY <1>6 DEF Container, NoContainer
<1>7. Nothing \in Content /\ \A n \in Name : dir[n] \in Content
  OBVIOUS
<1>8. CASE Remove
  <2>1. cmd.step = "remove" /\ UNCHANGED <<dir, stage>> /\ cmd.todo \subseteq ToRemove
    BY <1>1, <1>8 DEF Remove, files, StepFits
  <2>2. CASE GoTo("activate", ToStage)
    <3>1. SamePlan /\ UNCHANGED <<touched, raced>> /\ cmd'.step = "activate" /\ cmd'.todo = ToStage
      BY <1>1, <2>2, GoToMoves DEF Steps, userMarks
    <3>. QED BY <1>1, <1>4, <2>1, <3>1 DEF ContainersFit
  <2>3. ASSUME NEW n \in cmd.todo, GoTo("remove", cmd.todo \ {n})
        PROVE  LocalInv'
    <3>1. cmd.todo \ {n} \in SUBSET Name
      BY <1>1
    <3>2. /\ SamePlan /\ UNCHANGED <<touched, raced>> /\ cmd'.step = "remove"
          /\ cmd'.todo = cmd.todo \ {n}
      BY <1>1, <2>3, <3>1, GoToMoves DEF Steps, userMarks
    <3>. QED BY <1>4, <2>1, <3>2
  <2>4. ASSUME NEW n \in cmd.todo, Replaceable(n), UNCHANGED <<report, userMarks>>,
               cmd' = [cmd EXCEPT !.step = "removing", !.swapping = {n}]
        PROVE  LocalInv'
    <3>1. n \in Name
      BY <1>1
    <3>2. SamePlan /\ cmd'.step = "removing" /\ cmd'.todo = cmd.todo /\ cmd'.swapping = {n}
      BY <1>1, <2>4, <3>1 DEF Command, SamePlan, Steps
    <3>. QED BY <1>4, <2>1, <2>4, <3>2 DEF userMarks
  <2>5. CASE Fail
    BY <1>5, <2>1, <2>5
  <2>6. \/ GoTo("activate", ToStage)
        \/ \E n \in cmd.todo :
             \/ GoTo("remove", cmd.todo \ {n})
             \/ /\ Replaceable(n) /\ UNCHANGED <<report, userMarks>>
                /\ cmd' = [cmd EXCEPT !.step = "removing", !.swapping = {n}]
             \/ Fail
    BY <1>8 DEF Remove
  <2>. QED BY <2>2, <2>3, <2>4, <2>5, <2>6
<1>13. CASE RemoveVerified
  <2>1. PICK n \in cmd.swapping :
          \/ /\ dir' = [dir EXCEPT ![n] = Nothing]
             /\ cmd' = [cmd EXCEPT !.step = "remove", !.todo = @ \ {n}, !.swapping = {}]
             /\ UNCHANGED <<report, userMarks>>
          \/ Fail /\ UNCHANGED dir
    BY <1>13 DEF RemoveVerified
  <2>2. cmd.step = "removing" /\ stage' = stage /\ cmd.todo \subseteq ToRemove
    BY <1>1, <1>13 DEF RemoveVerified, StepFits
  <2>3. CASE /\ dir' = [dir EXCEPT ![n] = Nothing]
             /\ cmd' = [cmd EXCEPT !.step = "remove", !.todo = @ \ {n}, !.swapping = {}]
             /\ UNCHANGED <<report, userMarks>>
    <3>1. SamePlan /\ cmd'.step = "remove" /\ cmd'.todo = cmd.todo \ {n}
      BY <1>1, <2>3 DEF Command, SamePlan, Steps
    <3>2. dir' \in [Name -> Content]
      BY <1>7, <2>3
    <3>. QED BY <1>4, <2>2, <2>3, <3>1, <3>2 DEF userMarks
  <2>. QED BY <1>5, <2>1, <2>2, <2>3
<1>9. CASE Activate
  <2>1. /\ cmd.step = "activate" /\ cmd.todo \subseteq ToStage
        /\ \A n \in cmd.todo : stage[n] # NoContainer /\ stage[n].made = Wanted(n)
    BY <1>1, <1>9 DEF Activate, StepFits, ContainersFit
  <2>2. CASE /\ cmd.todo = {} /\ UNCHANGED <<dir, stage>>
             /\ GoTo(IF Commits /\ cmd.kind # "detach" THEN "marker" ELSE "finish", {})
    <3>1. /\ SamePlan /\ UNCHANGED <<touched, raced>>
          /\ cmd'.step = IF Commits /\ cmd.kind # "detach" THEN "marker" ELSE "finish"
      BY <1>1, <2>2, GoToMoves DEF Steps, userMarks
    <3>. QED BY <1>4, <2>2, <3>1 DEF Commits
  <2>3. ASSUME NEW n \in cmd.todo,
               \/ /\ dir' = [dir EXCEPT ![n] = stage[n].made]
                  /\ stage' = [stage EXCEPT ![n].made = Nothing]
                  /\ GoTo("activate", cmd.todo \ {n})
               \/ /\ Replaceable(n) /\ UNCHANGED <<dir, stage, report, userMarks>>
                  /\ cmd' = [cmd EXCEPT !.step = "retire", !.swapping = {n}]
               \/ Fail /\ UNCHANGED <<dir, stage>>
        PROVE  LocalInv'
    <3>1. ASSUME /\ dir' = [dir EXCEPT ![n] = stage[n].made]
                 /\ stage' = [stage EXCEPT ![n].made = Nothing]
                 /\ GoTo("activate", cmd.todo \ {n})
          PROVE  LocalInv'
      <4>1. cmd.todo \ {n} \in SUBSET Name
        BY <1>1
      <4>2. /\ SamePlan /\ UNCHANGED <<touched, raced>> /\ cmd'.step = "activate"
            /\ cmd'.todo = cmd.todo \ {n}
        BY <1>1, <3>1, <4>1, GoToMoves DEF Steps, userMarks
      <4>3. dir' \in [Name -> Content] /\ stage' \in [Name -> Container]
        BY <1>1, <1>6, <1>7, <2>1, <3>1
      <4>4. \A m \in Name : m # n => stage'[m] = stage[m]
        BY <3>1
      <4>5. \A m \in Name : stage'[m] # NoContainer => stage[m] # NoContainer
        BY <2>1, <4>4
      <4>. QED BY <1>1, <1>4, <2>1, <4>2, <4>3, <4>4, <4>5
    <3>2. ASSUME /\ Replaceable(n) /\ UNCHANGED <<dir, stage, report, userMarks>>
                 /\ cmd' = [cmd EXCEPT !.step = "retire", !.swapping = {n}]
          PROVE  LocalInv'
      <4>1. SamePlan /\ cmd'.step = "retire" /\ cmd'.todo = cmd.todo /\ cmd'.swapping = {n}
        <5>1. n \in Name
          BY <1>1, <2>3
        <5>. QED BY <1>1, <3>2, <5>1 DEF Command, SamePlan, Steps
      <4>. QED BY <1>4, <2>1, <3>2, <4>1 DEF userMarks
    <3>3. ASSUME Fail /\ UNCHANGED <<dir, stage>>
          PROVE  LocalInv'
      BY <1>5, <3>3
    <3>. QED BY <2>3, <3>1, <3>2, <3>3
  <2>4. \/ /\ cmd.todo = {} /\ UNCHANGED <<dir, stage>>
           /\ GoTo(IF Commits /\ cmd.kind # "detach" THEN "marker" ELSE "finish", {})
        \/ \E n \in cmd.todo :
             \/ /\ dir' = [dir EXCEPT ![n] = stage[n].made]
                /\ stage' = [stage EXCEPT ![n].made = Nothing]
                /\ GoTo("activate", cmd.todo \ {n})
             \/ /\ Replaceable(n) /\ UNCHANGED <<dir, stage, report, userMarks>>
                /\ cmd' = [cmd EXCEPT !.step = "retire", !.swapping = {n}]
             \/ Fail /\ UNCHANGED <<dir, stage>>
    BY <1>9 DEF Activate
  <2>. QED BY <2>2, <2>3, <2>4
<1>10. CASE Retire
  <2>1. PICK n \in cmd.swapping :
          IF Missing(n) THEN Fail /\ UNCHANGED <<dir, stage>>
          ELSE /\ stage' = [stage EXCEPT ![n].retired = dir[n]]
               /\ dir' = [dir EXCEPT ![n] = Nothing]
               /\ GoTo("swap", cmd.todo)
    BY <1>10 DEF Retire
  <2>2. /\ cmd.step = "retire" /\ cmd.todo \subseteq ToStage /\ cmd.swapping \subseteq cmd.todo
        /\ \A m \in cmd.todo : stage[m] # NoContainer /\ stage[m].made = Wanted(m)
    BY <1>1, <1>10 DEF Retire, StepFits, ContainersFit
  <2>3. CASE ~Missing(n)
    <3>1. /\ SamePlan /\ UNCHANGED <<touched, raced>> /\ cmd'.step = "swap"
          /\ cmd'.todo = cmd.todo /\ cmd'.swapping = cmd.swapping
      BY <1>1, <2>1, <2>3, GoToMoves DEF Steps, userMarks
    <3>2. n \in Name /\ stage[n] # NoContainer /\ dir[n] \in Content
      BY <1>1, <1>7, <2>2
    <3>3. /\ stage'[n] = [stage[n] EXCEPT !.retired = dir[n]]
          /\ \A m \in Name : m # n => stage'[m] = stage[m]
      BY <2>1, <2>3, <3>2
    <3>4. stage'[n] \in Container \ {NoContainer} /\ stage'[n].made = stage[n].made
      <4>1. [stage[n] EXCEPT !.retired = dir[n]] \in Container \ {NoContainer}
        BY <1>6, <3>2
      <4>2. [stage[n] EXCEPT !.retired = dir[n]].made = stage[n].made
        BY <1>6, <3>2
      <4>. QED BY <3>3, <4>1, <4>2
    <3>5. dir' \in [Name -> Content] /\ stage' \in [Name -> Container]
      <4>1. dir' = [dir EXCEPT ![n] = Nothing] /\ DOMAIN stage' = Name
        BY <2>1, <2>3
      <4>2. stage' = [m \in Name |-> stage'[m]]
        BY <2>1, <2>3
      <4>. QED BY <1>7, <3>3, <3>4, <4>1, <4>2
    <3>6. \A m \in cmd.todo : stage'[m] # NoContainer /\ stage'[m].made = Wanted(m)
      BY <1>1, <2>2, <3>3, <3>4
    <3>7. \A m \in Name : stage'[m] # NoContainer => stage[m] # NoContainer
      BY <3>2, <3>3
    <3>. QED BY <1>4, <2>2, <3>1, <3>5, <3>6, <3>7
  <2>. QED BY <1>5, <2>1, <2>3
<1>11. CASE Swap
  <2>1. PICK n \in cmd.swapping :
          /\ dir' = [dir EXCEPT ![n] = stage[n].made]
          /\ stage' = [stage EXCEPT ![n].made = Nothing]
          /\ cmd' = [cmd EXCEPT !.step = "activate", !.todo = @ \ {n}, !.swapping = {}]
    BY <1>11 DEF Swap
  <2>2. /\ cmd.step = "swap" /\ cmd.todo \subseteq ToStage /\ cmd.swapping \subseteq cmd.todo
        /\ \A m \in cmd.todo : stage[m] # NoContainer /\ stage[m].made = Wanted(m)
        /\ UNCHANGED <<touched, raced>>
    BY <1>1, <1>11 DEF Swap, StepFits, ContainersFit, userMarks
  <2>3. SamePlan /\ cmd'.step = "activate" /\ cmd'.todo = cmd.todo \ {n} /\ cmd'.swapping = {}
    BY <1>1, <2>1 DEF Command, SamePlan, Steps
  <2>4. n \in Name /\ stage[n] # NoContainer
    BY <1>1, <2>2
  <2>5. dir' \in [Name -> Content] /\ stage' \in [Name -> Container]
    BY <1>6, <1>7, <2>1, <2>4
  <2>6. \A m \in Name : m # n => stage'[m] = stage[m]
    BY <2>1
  <2>7. \A m \in Name : stage'[m] # NoContainer => stage[m] # NoContainer
    BY <2>4, <2>6
  <2>. QED BY <1>1, <1>4, <2>2, <2>3, <2>5, <2>6, <2>7
<1>12. CASE SwapFails
  <2>1. PICK n \in cmd.swapping :
          \/ /\ dir' = [dir EXCEPT ![n] = stage[n].retired]
             /\ stage' = [stage EXCEPT ![n].retired = Nothing]
          \/ UNCHANGED <<dir, stage>>
    BY <1>12 DEF SwapFails
  <2>2. Fail /\ n \in Name /\ stage[n] # NoContainer
    BY <1>1, <1>12, <2>1 DEF SwapFails, StepFits, ContainersFit
  <2>3. dir' \in [Name -> Content] /\ stage' \in [Name -> Container]
    <3>1. stage[n].retired \in Content
          /\ [stage[n] EXCEPT !.retired = Nothing] \in Container \ {NoContainer}
      BY <1>6, <1>7, <2>2
    <3>. QED BY <2>1, <2>2, <3>1
  <2>4. \A m \in Name : stage'[m] # NoContainer => stage[m] # NoContainer
    BY <2>1, <2>2
  <2>. QED BY <1>5, <2>2, <2>3, <2>4
<1>. QED BY <1>8, <1>9, <1>10, <1>11, <1>12, <1>13
(* The end of a command.                                                   *)
LEMMA EndingKeeps ==
  ASSUME LocalInv, Finish \/ WriteMarker \/ MarkerFails \/ Crash
  PROVE  LocalInv'
<1> USE Unmoved
<1>1. Cardinality({}) = 0
  BY FS_EmptySet
<1>2. ASSUME MarkerFails \/ Crash
      PROVE  LocalInv'
  <2>1. /\ cmd' = Idle /\ touched' = {} /\ raced' = {}
        /\ UNCHANGED <<accepted, generation, pending, dir, stage, marker>>
    BY <1>2 DEF MarkerFails, Crash, Fail, registryFacts, files
  <2>. QED BY <2>1, EndsWell DEF Rest, PendingNames
<1>3. ASSUME WriteMarker
      PROVE  LocalInv'
  <2>1. /\ cmd.step = "marker" /\ cmd \in Command /\ StepFits /\ marker' = Marker
        /\ UNCHANGED <<accepted, generation, pending, dir, stage>>
    BY <1>3 DEF WriteMarker, registryFacts, Marker
  <2>2. CASE cmd.kind \in {"rename", "rebind", "forget"} /\ GoTo("finish", {})
    <3>1. SamePlan /\ UNCHANGED <<touched, raced>> /\ cmd'.step = "finish"
      BY <2>1, <2>2, GoToMoves DEF Steps, userMarks
    <3>2. StepFits'
      BY <2>1, <2>2, <3>1 DEF StepFits, SamePlan
    <3>3. ContainersFit'
      BY <2>1, <3>1 DEF ContainersFit, PendingNames
    <3>4. Rest
      BY <2>1, <3>1 DEF Rest
    <3>. QED BY <2>1, <2>2, <3>1, <3>2, <3>3, <3>4, GoesOn
  <2>3. CASE Succeed
    <3>1. cmd' = Idle /\ raced' = {} /\ touched' = touched
      BY <2>3 DEF Succeed
    <3>. QED BY <2>1, <3>1, EndsWell DEF Rest, PendingNames
  <2>. QED BY <1>3, <2>2, <2>3 DEF WriteMarker
<1>4. ASSUME Finish
      PROVE  LocalInv'
  <2>1. /\ cmd.step = "finish" /\ cmd \in Command /\ StepFits /\ GoalFits /\ RequestsFit
        /\ cmd.kind # "mark"
        /\ pending' = {} /\ UNCHANGED <<accepted, generation, dir, marker>>
        /\ stage' = [n \in Name |-> IF n \in PendingNames THEN NoContainer ELSE stage[n]]
    BY <1>4 DEF Finish, LocalInv, StepFits
  <2>2. stage' \in [Name -> Container] /\ \A n \in Name : stage'[n] = NoContainer
    BY <2>1 DEF Container
  <2>3. CASE /\ cmd.kind = "recover" /\ UNCHANGED <<report, userMarks>>
             /\ cmd' = [cmd EXCEPT !.kind = "sync", !.step = "clean", !.existed = {}]
    <3>1. /\ cmd' \in Command /\ cmd'.kind = "sync" /\ cmd'.step = "clean"
          /\ cmd'.next = cmd.next /\ cmd'.stages = cmd.stages /\ cmd'.removals = cmd.removals
          /\ cmd'.invalid = cmd.invalid /\ UNCHANGED <<touched, raced>>
      BY <2>1, <2>3 DEF Command, Kinds, Steps, userMarks
    <3>2. Rest
      BY <1>1, <2>1, <2>2, <3>1 DEF Rest
    <3>3. LocalTypeOK' /\ Acceptable(accepted)' /\ MarkerFits'
      BY <2>1, <3>1, <3>2, TypeGoesOn
    <3>4. ContainersFit'
      BY <2>2, <3>1 DEF ContainersFit
    <3>5. GoalFits'
      BY <2>1, <2>3, <3>1 DEF GoalFits, BeforeCommit, Commits
    <3>6. RequestsFit'
      BY <2>1, <2>3, <3>1 DEF RequestsFit, Proposes, Named, ManagedIn, DetachedIn
    <3>7. StepFits'
      BY <3>1 DEF StepFits
    <3>. QED BY <3>3, <3>4, <3>5, <3>6, <3>7 DEF LocalInv
  <2>4. CASE Succeed
    <3>1. cmd' = Idle /\ raced' = {} /\ touched' = touched
      BY <2>4 DEF Succeed
    <3>. QED BY <1>1, <2>1, <2>2, <3>1, EndsWell DEF Rest
  <2>5. CASE cmd.kind \notin {"recover", "rename", "rebind", "forget"} /\ GoTo("marker", {})
    <3>1. SamePlan /\ UNCHANGED <<touched, raced>> /\ cmd'.step = "marker"
      BY <2>1, <2>5, GoToMoves DEF Steps, userMarks
    <3>2. StepFits'
      BY <2>1, <2>5, <3>1 DEF StepFits, SamePlan
    <3>3. ContainersFit'
      BY <2>1, <2>2, <3>1 DEF ContainersFit, NoContainers
    <3>4. Rest
      BY <1>1, <2>1, <2>2, <3>1 DEF Rest
    <3>5. cmd.kind = "sync" => ~cmd.invalid
      BY <2>1 DEF RequestsFit
    <3>. QED BY <2>1, <3>1, <3>2, <3>3, <3>4, <3>5, GoesOn
  <2>. QED BY <1>4, <2>3, <2>4, <2>5 DEF Finish
<1>. QED BY <1>2, <1>3, <1>4

(* The user edits.                                                         *)
LEMMA EditsKeep ==
  ASSUME LocalInv, UserWrites \/ UserDeletes \/ UserMoves
  PROVE  LocalInv'
<1> USE Unmoved
<1> DEFINE Edited(names) ==
             /\ dir' \in [Name -> Content] /\ \A n \in Name : dir'[n] = dir[n] \/ n \in names
             /\ touched' = touched \cup names
             /\ raced' = (IF cmd.step \in {"removing", "retire"} THEN raced \cup names ELSE raced)
             /\ cmd' = cmd /\ UNCHANGED <<accepted, generation, pending, stage, marker>>
<1>1. ASSUME UserWrites
      PROVE  \E names \in SUBSET Name : Edited(names)
  <2>1. PICK n \in Name : Edit([dir EXCEPT ![n] = User], {n})
    BY <1>1 DEF UserWrites
  <2>2. Edited({n})
    BY <2>1 DEF Edit, registryFacts
  <2> HIDE DEF Edited
  <2>. QED BY <2>2
<1>2. ASSUME UserDeletes \/ UserMoves
      PROVE  \E names \in SUBSET Name : Edited(names)
  <2>1. CASE UserDeletes
    <3>1. PICK n \in Name : Edit([dir EXCEPT ![n] = Nothing], {n})
      BY <2>1 DEF UserDeletes
    <3>2. Edited({n})
      BY <3>1 DEF Edit, registryFacts
    <3> HIDE DEF Edited
    <3>. QED BY <3>2
  <2>2. CASE UserMoves
    <3>1. PICK n \in Name, m \in Name : Edit([dir EXCEPT ![n] = Nothing, ![m] = dir[n]], {n, m})
      BY <2>2 DEF UserMoves
    <3>2. Edited({n, m})
      BY <3>1 DEF Edit, registryFacts
    <3> HIDE DEF Edited
    <3>. QED BY <3>2
  <2>. QED BY <1>2, <2>1, <2>2
<1> HIDE DEF Edited
<1>3. PICK names \in SUBSET Name : Edited(names)
  BY <1>1, <1>2
<1> USE DEF Edited
<1>4. Rest /\ PendingNames' = PendingNames
  BY <1>3 DEF Rest, PendingNames
<1>5. CASE cmd = Idle
  BY <1>3, <1>4, <1>5, EndsWell
<1>6. CASE cmd # Idle
  <2>1. cmd \in Command /\ SamePlan /\ StepFits /\ ContainersFit /\ RequestsFit
    BY <1>3, <1>6 DEF LocalInv, LocalTypeOK, SamePlan
  <2>2. ASSUME NEW n \in Name, n \notin names, Replaceable(n)
        PROVE  Replaceable(n)'
    <3>1. dir'[n] = dir[n]
      BY <1>3, <2>2
    <3>. QED BY <1>3, <2>2, <3>1 DEF Replaceable, StillCurrent, CurrentAt, Verified, ManagedIn, DetachedIn
  <2>3. cmd.swapping \subseteq Name
    BY <2>1 DEF Command
  <2>4. StepFits'
    BY <1>3, <2>1, <2>2, <2>3 DEF StepFits, ToStage, ToRemove, Commits
  <2>5. ContainersFit'
    BY <1>3, <1>4, <2>1 DEF ContainersFit, NoContainers, ToStage, ToRemove, Wanted
  <2>6. cmd.kind = "sync" /\ cmd'.step # "clean" => ~cmd.invalid
    BY <1>3, <2>1 DEF RequestsFit
  <2>. QED BY <1>3, <1>4, <2>1, <2>4, <2>5, <2>6, GoesOn
<1>. QED BY <1>5, <1>6

(* A command starts.                                                       *)
LEMMA StartsWell ==
  ASSUME LocalInv, cmd' \in Command, UNCHANGED <<registryFacts, files>>,
         touched' = {}, raced' = {}, GoalFits', RequestsFit', StepFits',
         cmd'.step \in {"clean", "pending", "commit", "marker"},
         cmd'.step = "commit" => ToStage' = {},
         ~(cmd'.step = "marker" /\ cmd'.kind = "sync")
  PROVE  LocalInv'
<1> USE Unmoved
<1>1. Rest /\ UNCHANGED <<accepted, generation, pending, dir, stage, marker>>
  BY DEF Rest, registryFacts, files
<1>2. LocalTypeOK' /\ Acceptable(accepted)' /\ MarkerFits'
  BY <1>1, TypeGoesOn
<1>3. ContainersFit'
  BY <1>1 DEF ContainersFit, PendingNames
<1>. QED BY <1>2, <1>3 DEF LocalInv

(* A plan with some of the projections, under other names.                 *)
LEMMA ChangeStarts ==
  ASSUME LocalInv, MayStart, NEW kind \in {"rename", "rebind", "forget"}, NEW x \in States,
         DOMAIN x \subseteq DOMAIN accepted,
         \A p \in DOMAIN x : x[p].owner = accepted[p].owner /\ x[p].mat = accepted[p].mat,
         StartChange(kind, x)
  PROVE  LocalInv'
<1> DEFINE actions == PreflightActions(DesiredOf(x), accepted, Observed(accepted, DesiredOf(x)))
           next == NextProjections(x)
<1>1. /\ generation < MaxGeneration /\ PlannedOk(x) /\ RequestsOk(actions, next)
      /\ Do(Running(kind, "pending", next, accepted, actions))
      /\ UNCHANGED <<registryFacts, files>>
  BY DEF StartChange
<1> HIDE DEF next, actions
<1>2. cmd = Idle /\ marker = Marker /\ accepted \in States /\ CopiesWhereNeeded(accepted)
  <2>1. marker.generation \in 1..generation /\ generation \in Nat
    BY BoundAssumption DEF LocalInv, LocalTypeOK, TypeOK
  <2>. QED BY <2>1 DEF MayStart, LocalInv, LocalTypeOK, Acceptable, MarkerFits
<1>3. /\ next \in States /\ Acceptable(next) /\ ManagedIn(next) = ManagedIn(x)
      /\ \A p \in ManagedIn(x) : next[p].mat = IF Direct(p, next[p].view) THEN x[p].mat ELSE "copy"
  BY <1>1, NextIs DEF next
<1>4. SameWhereAlike(accepted, next)
  <2>1. \A p \in ManagedIn(x) : x[p].mat = accepted[p].mat
    BY DEF ManagedIn
  <2>. QED BY <1>2, <1>3, <2>1 DEF SameWhereAlike, CopiesWhereNeeded
<1>5. NamesToStage(actions) \in SUBSET Name /\ NamesToRemove(actions) \in SUBSET Name
  BY <1>2, ActionsAre DEF actions
<1>6. /\ \A n \in NamesToRemove(actions) : Named(next, n) = {}
      /\ \A n \in NamesToStage(actions) : \E p \in ManagedIn(next) : next[p].name = n
  BY <1>1, RequestsAsk
<1>7. /\ cmd' \in Command /\ cmd'.kind = kind /\ cmd'.step = "pending"
      /\ cmd'.next = next /\ cmd'.current = accepted
      /\ cmd'.stages = NamesToStage(actions) /\ cmd'.removals = NamesToRemove(actions)
      /\ ~cmd'.invalid /\ touched' = {} /\ raced' = {}
  BY <1>1, <1>2, <1>3, <1>5 DEF Do, Running, Command, Kinds, Steps
<1>8. GoalFits'
  <2>1. UNCHANGED <<accepted, generation, marker>>
    BY <1>1 DEF registryFacts, files
  <2>2. Acceptable(cmd.next)'
    BY <1>3, <1>7 DEF Acceptable, AcceptedPlanOk, CopiesWhereNeeded, PlannedOk, Planned, RenamesOf,
                      ManagedIn, DetachedIn
  <2>3. SameWhereAlike(accepted, cmd.next)'
    BY <1>4, <1>7, <2>1 DEF SameWhereAlike, ManagedIn, DetachedIn
  <2>4. BeforeCommit'
    BY <1>7 DEF BeforeCommit, Commits
  <2>. QED BY <1>1, <1>2, <1>7, <2>1, <2>2, <2>3, <2>4 DEF GoalFits, Marker
<1>9. RequestsFit'
  BY <1>6, <1>7 DEF RequestsFit, Proposes, Named, ManagedIn, DetachedIn
<1>10. StepFits'
  BY <1>7 DEF StepFits
<1>11. /\ cmd'.step \in {"clean", "pending", "commit", "marker"}
       /\ cmd'.step = "commit" => ToStage' = {}
       /\ ~(cmd'.step = "marker" /\ cmd'.kind = "sync")
  BY <1>7
<1>. QED BY <1>1, <1>7, <1>8, <1>9, <1>10, <1>11, StartsWell

(* A detach starts: the names and the views stay what they are.            *)
LEMMA DetachStarts ==
  ASSUME LocalInv, StartDetach
  PROVE  LocalInv'
<1>1. PICK p \in DOMAIN accepted :
        /\ DetachPermitted(p)
        /\ Do([Running("detach", IF accepted[p].mat = "copy" THEN "commit" ELSE "pending",
                       DetachedState(p), accepted, {})
               EXCEPT !.stages = IF accepted[p].mat = "copy" THEN {} ELSE {accepted[p].name},
                      !.invalid = FALSE])
  BY DEF StartDetach
<1>2. /\ MayStart /\ generation < MaxGeneration /\ UNCHANGED <<registryFacts, files>>
      /\ accepted[p].owner = "managed"
  BY <1>1 DEF StartDetach, DetachPermitted
<1>3. /\ marker = Marker /\ accepted \in States /\ Acceptable(accepted)
      /\ accepted \in [DOMAIN accepted -> Projection] /\ p \in Package
  <2>1. marker.generation \in 1..generation /\ generation \in Nat
    BY BoundAssumption DEF LocalInv, LocalTypeOK, TypeOK
  <2>. QED BY <1>2, <2>1, StatesAre DEF MayStart, LocalInv, LocalTypeOK, MarkerFits
<1>4. accepted[p] \in Projection /\ accepted[p].name \in Name
  BY <1>3 DEF Projection
<1> DEFINE next == DetachedState(p)
<1>5. /\ DOMAIN next = DOMAIN accepted
      /\ next[p] = [accepted[p] EXCEPT !.owner = "detached", !.mat = "copy"]
      /\ \A q \in DOMAIN accepted : q # p => next[q] = accepted[q]
  BY DEF DetachedState
<1>6. next \in States
  <2>1. next[p] \in Projection
    BY <1>4, <1>5 DEF Projection
  <2>2. next \in [DOMAIN next -> Projection]
    BY <1>3, <1>5, <2>1 DEF DetachedState
  <2>. QED BY <1>3, <1>5, <2>2, StatesAre
<1> HIDE DEF next
<1>7. next[p].owner = "detached" /\ next[p].name = accepted[p].name
  BY <1>4, <1>5 DEF Projection
<1>8. /\ ManagedIn(next) = ManagedIn(accepted) \ {p}
      /\ \A q \in DOMAIN accepted : next[q].name = accepted[q].name
  BY <1>2, <1>5, <1>7 DEF ManagedIn, DetachedIn
<1>9. Acceptable(next)
  <2>1. NamesOf(next) = NamesOf(accepted)
    BY <1>5, <1>8 DEF NamesOf
  <2>2. PlannedOk(next) <=> PlannedOk(accepted)
    BY <1>3, <1>6, <2>1, PlanGives
  <2>3. Planned(next) = Planned(accepted)
    BY <1>3, <1>6, <2>1, PlanGives
  <2>4. \A q \in DOMAIN next : next[q].owner = "managed" => next[q] = accepted[q]
    BY <1>5, <1>7
  <2>5. \A q \in ManagedIn(next) : q \in ManagedIn(accepted) /\ next[q] = accepted[q]
    BY <1>5, <1>8 DEF ManagedIn
  <2>6. AcceptedPlanOk(next)
    BY <1>3, <1>5, <2>2, <2>3, <2>4 DEF Acceptable, AcceptedPlanOk
  <2>7. CopiesWhereNeeded(next)
    BY <1>3, <2>5 DEF Acceptable, CopiesWhereNeeded
  <2>. QED BY <2>6, <2>7 DEF Acceptable
<1>10. SameWhereAlike(accepted, next)
  BY <1>5, <1>8 DEF SameWhereAlike, ManagedIn
<1>11. /\ cmd' \in Command /\ cmd'.kind = "detach" /\ cmd'.next = next /\ cmd'.current = accepted
       /\ cmd'.removals = {} /\ touched' = {} /\ raced' = {}
       /\ cmd'.stages = (IF accepted[p].mat = "copy" THEN {} ELSE {accepted[p].name})
       /\ cmd'.step = IF accepted[p].mat = "copy" THEN "commit" ELSE "pending"
  <2> DEFINE first == Running("detach", IF accepted[p].mat = "copy" THEN "commit" ELSE "pending",
                              next, accepted, {})
             stages == IF accepted[p].mat = "copy" THEN {} ELSE {accepted[p].name}
  <2>1. /\ cmd' = [first EXCEPT !.stages = stages, !.invalid = FALSE]
        /\ touched' = {} /\ raced' = {}
    BY <1>1 DEF Do, next
  <2>2. /\ first \in Command /\ first.kind = "detach" /\ first.next = next
        /\ first.current = accepted /\ first.removals = {}
        /\ first.step = IF accepted[p].mat = "copy" THEN "commit" ELSE "pending"
    BY <1>3, <1>6 DEF Running, Command, Kinds, Steps, NamesToStage, NamesToRemove
  <2>3. stages \in SUBSET Name
    BY <1>4
  <2> HIDE DEF first, stages
  <2>4. /\ cmd' \in Command /\ cmd'.stages = stages
        /\ cmd'.kind = first.kind /\ cmd'.next = first.next /\ cmd'.current = first.current
        /\ cmd'.removals = first.removals /\ cmd'.step = first.step
    BY <2>1, <2>2, <2>3 DEF Command
  <2>. QED BY <2>1, <2>2, <2>4 DEF stages
<1>12. GoalFits'
  <2>1. UNCHANGED <<accepted, generation, marker>>
    BY <1>2 DEF registryFacts, files
  <2>2. Acceptable(cmd.next)'
    BY <1>9, <1>11 DEF Acceptable, AcceptedPlanOk, CopiesWhereNeeded, PlannedOk, Planned, RenamesOf,
                       ManagedIn, DetachedIn
  <2>3. SameWhereAlike(accepted, cmd.next)'
    BY <1>10, <1>11, <2>1 DEF SameWhereAlike, ManagedIn, DetachedIn
  <2>4. BeforeCommit'
    BY <1>11 DEF BeforeCommit, Commits
  <2>. QED BY <1>2, <1>3, <1>11, <2>1, <2>2, <2>3, <2>4 DEF GoalFits, Marker
<1>13. RequestsFit'
  <2>1. \A n \in cmd'.stages : n = accepted[p].name /\ accepted[p].mat = "link"
    BY <1>4, <1>11 DEF Projection
  <2>2. p \in {q \in DOMAIN cmd'.next : cmd'.next[q].name = accepted[p].name}
    BY <1>5, <1>7, <1>11
  <2>3. \A q \in DOMAIN accepted : accepted[q].name = accepted[p].name => q = p
    BY <1>3, NamesApart DEF Acceptable, AcceptedPlanOk
  <2>4. \A n \in cmd'.stages : \A q \in CurrentAt(n)' : cmd'.current[q].mat = "link"
    BY <1>11, <2>1, <2>3 DEF CurrentAt, ManagedIn
  <2>5. \A n \in cmd'.stages : Named(cmd.next, n)' # {}
    BY <2>1, <2>2 DEF Named
  <2>. QED BY <1>11, <2>4, <2>5 DEF RequestsFit, Proposes
<1>14. StepFits'
  BY <1>11 DEF StepFits, Commits
<1>15. /\ cmd'.step \in {"clean", "pending", "commit", "marker"}
       /\ cmd'.step = "commit" => ToStage' = {}
       /\ ~(cmd'.step = "marker" /\ cmd'.kind = "sync")
  BY <1>11 DEF ToStage
<1>. QED BY <1>2, <1>11, <1>12, <1>13, <1>14, <1>15, StartsWell

(* A sync or a recovery starts, from what the marker says if it lags.      *)
LEMMA SyncStarts ==
  ASSUME LocalInv, StartSync
  PROVE  LocalInv'
<1> DEFINE actions == PreflightActions(DesiredOf(accepted), Current, Observed(Current, <<>>))
           sync == Running("sync", "clean", accepted, Current, actions)
<1>1. /\ Do(IF NeedsCopy = {} THEN sync
            ELSE [sync EXCEPT !.kind = "recover",
                              !.copies = {accepted[p].name : p \in NeedsCopy}])
      /\ UNCHANGED <<registryFacts, files>>
  BY DEF StartSync
<1> HIDE DEF actions
<1>2. accepted \in States /\ Current \in States /\ accepted \in [DOMAIN accepted -> Projection]
  BY StatesAre DEF LocalInv, LocalTypeOK, Current
<1>3. NamesToStage(actions) \in SUBSET Name /\ NamesToRemove(actions) \in SUBSET Name
  BY <1>2, ActionsAre DEF actions
<1>4. /\ {accepted[p].name : p \in NeedsCopy} \in SUBSET Name
      /\ \A n \in {accepted[p].name : p \in NeedsCopy} :
           \E p \in DetachedIn(accepted) : accepted[p].name = n
  BY <1>2 DEF NeedsCopy, Interrupted, DetachedIn, Projection
<1>5. /\ cmd' \in Command /\ cmd'.kind \in {"sync", "recover"} /\ cmd'.step = "clean"
      /\ cmd'.next = accepted
      /\ cmd'.stages = NamesToStage(actions) /\ cmd'.removals = NamesToRemove(actions)
      /\ cmd'.invalid = ~RequestsOk(actions, accepted) /\ touched' = {} /\ raced' = {}
      /\ cmd'.kind = "recover" => cmd'.copies = {accepted[p].name : p \in NeedsCopy}
  BY <1>1, <1>2, <1>3, <1>4 DEF Do, Running, Command, Kinds, Steps
<1>6. UNCHANGED accepted
  BY <1>1 DEF registryFacts
<1>7. GoalFits'
  BY <1>5, <1>6 DEF GoalFits, BeforeCommit, Commits
<1>8. RequestsFit'
  <2>1. cmd'.invalid \/ /\ \A n \in cmd'.removals : Named(cmd.next, n)' = {}
                        /\ \A n \in cmd'.stages :
                             \E p \in ManagedIn(cmd.next)' : cmd'.next[p].name = n
    <3>1. SUFFICES ASSUME RequestsOk(actions, accepted)
                   PROVE  /\ \A n \in cmd'.removals : Named(cmd.next, n)' = {}
                          /\ \A n \in cmd'.stages :
                               \E p \in ManagedIn(cmd.next)' : cmd'.next[p].name = n
      BY <1>5
    <3>2. /\ \A n \in NamesToRemove(actions) : Named(accepted, n) = {}
          /\ \A n \in NamesToStage(actions) : \E p \in ManagedIn(accepted) : accepted[p].name = n
      BY <3>1, RequestsAsk
    <3>. QED BY <1>5, <3>2 DEF Named, ManagedIn, DetachedIn
  <2>2. cmd'.kind = "recover" =>
          \A n \in cmd'.copies : \E p \in DetachedIn(accepted)' : accepted'[p].name = n
    BY <1>4, <1>5, <1>6 DEF DetachedIn
  <2>. QED BY <1>5, <2>1, <2>2 DEF RequestsFit, Proposes
<1>9. StepFits'
  BY <1>5 DEF StepFits
<1>10. /\ cmd'.step \in {"clean", "pending", "commit", "marker"}
       /\ cmd'.step = "commit" => ToStage' = {}
       /\ ~(cmd'.step = "marker" /\ cmd'.kind = "sync")
  BY <1>5
<1>. QED BY <1>1, <1>5, <1>7, <1>8, <1>9, <1>10, StartsWell

(* Every command that starts keeps the invariant.                          *)
LEMMA StartsKeep ==
  ASSUME LocalInv,
         StartRename \/ RenameToSame \/ StartRebind \/ StartForget \/ StartDetach \/ StartSync
  PROVE  LocalInv'
<1>1. accepted \in States /\ accepted \in [DOMAIN accepted -> Projection]
      /\ DOMAIN accepted \subseteq Package
  BY StatesAre DEF LocalInv, LocalTypeOK
<1>2. ASSUME NEW p \in DOMAIN accepted, NEW n \in Name,
             NEW kind \in {"rename", "rebind"}, MayStart,
             StartChange(kind, [accepted EXCEPT ![p].name = n])
      PROVE  LocalInv'
  <2> DEFINE x == [accepted EXCEPT ![p].name = n]
  <2>1. DOMAIN x = DOMAIN accepted
    OBVIOUS
  <2>2. \A q \in DOMAIN x : /\ x[q] \in Projection
                            /\ x[q].owner = accepted[q].owner /\ x[q].mat = accepted[q].mat
    BY <1>1 DEF Projection
  <2>3. x \in States
    <3>1. x \in [DOMAIN x -> Projection]
      BY <2>2
    <3> HIDE DEF x
    <3>. QED BY <1>1, <2>1, <3>1, StatesAre
  <2>4. StartChange(kind, x)
    BY <1>2
  <2> HIDE DEF x
  <2>. QED BY <1>2, <2>1, <2>2, <2>3, <2>4, ChangeStarts
<1>3. CASE StartRename
  <2>1. PICK p \in ManagedIn(accepted), n \in Name :
          StartChange("rename", [accepted EXCEPT ![p].name = n])
    BY <1>3 DEF StartRename
  <2>. QED BY <1>2, <1>3, <2>1 DEF StartRename, ManagedIn
<1>4. CASE StartRebind
  <2>1. PICK p \in DOMAIN accepted, n \in Name :
          StartChange("rebind", [accepted EXCEPT ![p].name = n])
    BY <1>4 DEF StartRebind
  <2>. QED BY <1>2, <1>4, <2>1 DEF StartRebind
<1>5. CASE StartForget
  <2>1. PICK p \in DOMAIN accepted :
          StartChange("forget", [q \in DOMAIN accepted \ {p} |-> accepted[q]])
    BY <1>5 DEF StartForget
  <2> DEFINE x == [q \in DOMAIN accepted \ {p} |-> accepted[q]]
  <2>2. /\ DOMAIN x \subseteq DOMAIN accepted /\ x \in [DOMAIN x -> Projection]
        /\ \A q \in DOMAIN x : x[q] = accepted[q]
    BY <1>1
  <2>3. StartChange("forget", x)
    BY <2>1
  <2> HIDE DEF x
  <2>4. x \in States
    BY <1>1, <2>2, StatesAre
  <2>. QED BY <1>5, <2>2, <2>3, <2>4, ChangeStarts DEF StartForget
<1>6. CASE RenameToSame
  <2>1. /\ Do([Running("mark", "marker", accepted, accepted, {}) EXCEPT !.invalid = FALSE])
        /\ UNCHANGED <<registryFacts, files>>
    BY <1>6 DEF RenameToSame
  <2>2. /\ cmd' \in Command /\ cmd'.kind = "mark" /\ cmd'.step = "marker"
        /\ cmd'.next = accepted /\ touched' = {} /\ raced' = {}
    BY <1>1, <2>1 DEF Do, Running, Command, Kinds, Steps, NamesToStage, NamesToRemove
  <2>3. GoalFits'
    BY <2>1, <2>2 DEF GoalFits, BeforeCommit, Commits, registryFacts
  <2>4. RequestsFit' /\ StepFits'
    BY <2>2 DEF RequestsFit, StepFits, Proposes
  <2>5. /\ cmd'.step \in {"clean", "pending", "commit", "marker"}
        /\ cmd'.step = "commit" => ToStage' = {}
        /\ ~(cmd'.step = "marker" /\ cmd'.kind = "sync")
    BY <2>2
  <2>. QED BY <2>1, <2>2, <2>3, <2>4, <2>5, StartsWell
<1>. QED BY <1>3, <1>4, <1>5, <1>6, DetachStarts, SyncStarts

----------------------------------------------------------------------------
(* The invariant holds.                                                    *)

(* The target with every package projected.                                *)
LEMMA StartsRight ==
  ASSUME Init
  PROVE  LocalInv
<1> DEFINE shown(p) == [owner |-> "managed", name |-> InitialNames[p],
                        mat |-> IF Direct(p, ViewOf(DependsOn, InitialNames, p)) THEN "link" ELSE "copy",
                        view |-> ViewOf(DependsOn, InitialNames, p)]
<1>1. /\ accepted = [p \in Package |-> shown(p)]
      /\ generation = 1 /\ pending = {} /\ stage = [n \in Name |-> NoContainer]
      /\ dir = [n \in Name |-> IF TheNamed(accepted, n) = NoPackage THEN Nothing
                               ELSE Expected(TheNamed(accepted, n), accepted[TheNamed(accepted, n)])]
      /\ marker = [generation |-> 1, projections |-> accepted]
      /\ cmd = Idle /\ touched = {} /\ raced = {}
  BY DEF Init
<1>2. \A p \in Package : shown(p) \in Projection
  BY LocalAssumption, ViewsAre DEF Projection
<1>3. /\ DOMAIN accepted = Package
      /\ \A p \in Package : /\ accepted[p] \in Projection /\ accepted[p].owner = "managed"
                            /\ accepted[p].name = InitialNames[p]
                            /\ accepted[p].view = ViewOf(DependsOn, InitialNames, p)
                            /\ Direct(p, accepted[p].view) \/ accepted[p].mat = "copy"
  BY <1>1, <1>2
<1>4. accepted \in States
  BY <1>1, <1>2, <1>3, StatesAre
<1>5. dir \in [Name -> Content]
  <2>1. ASSUME NEW n \in Name, TheNamed(accepted, n) # NoPackage
        PROVE  Expected(TheNamed(accepted, n), accepted[TheNamed(accepted, n)]) \in Content
    <3>1. TheNamed(accepted, n) \in Package
      BY <1>3, <2>1 DEF TheNamed, Named
    <3>. QED BY <1>3, <3>1, ExpectedIs
  <2>2. Nothing \in Content
    BY DEF Content
  <2>. QED BY <1>1, <2>1, <2>2
<1>6. TypeOK
  <2>1. generation \in 1..MaxGeneration /\ marker.generation \in 1..generation
    BY <1>1, BoundAssumption
  <2>2. Cardinality(pending) <= 1
    BY <1>1, FS_EmptySet
  <2>. QED BY <1>1, <1>3, <1>5, <2>1, <2>2 DEF TypeOK
<1>7. LocalTypeOK
  BY <1>1, <1>4, <1>6 DEF LocalTypeOK, Container
<1>8. Acceptable(accepted)
  <2>1. NamesOf(accepted) = InitialNames
    BY <1>3, LocalAssumption DEF NamesOf
  <2>2. ~ActivationConflict(InitialNames)
    BY LocalAssumption DEF ActivationConflict
  <2>3. PlannedOk(accepted) /\ \A p \in Package : accepted[p].view = Planned(accepted)[p]
    BY <1>3, <1>4, <2>1, <2>2, PlanGives
  <2>4. CopiesWhereNeeded(accepted)
    BY <1>3 DEF CopiesWhereNeeded, ManagedIn
  <2>. QED BY <1>3, <2>3, <2>4 DEF Acceptable, AcceptedPlanOk
<1>9. MarkerFits
  BY <1>1 DEF MarkerFits, Marker, SameWhereAlike
<1>10. ContainersFit
  BY <1>1, IdleIsNot DEF ContainersFit
<1>. QED BY <1>1, <1>7, <1>8, <1>9, <1>10 DEF LocalInv

(* Every step keeps the invariant.                                         *)
LEMMA StepsKeep ==
  ASSUME LocalInv, [Next]_vars
  PROVE  LocalInv'
<1>1. CASE Next
  BY <1>1, StartsKeep, PreparingKeeps, CommitKeeps, ActingKeeps, EndingKeeps, EditsKeep
     DEF Next, Step
<1>2. CASE UNCHANGED vars
  <2>1. UNCHANGED <<accepted, generation, pending, dir, stage, marker, cmd, touched, raced>>
    BY <1>2 DEF vars, registryFacts, files, userMarks
  <2>2. Rest
    BY <2>1, Unmoved DEF Rest
  <2>3. CASE cmd = Idle
    BY <2>1, <2>2, <2>3, Unmoved, EndsWell DEF PendingNames
  <2>4. CASE cmd # Idle
    <3>1. cmd \in Command /\ SamePlan /\ StepFits /\ ContainersFit /\ RequestsFit
      BY <2>1, <2>4 DEF LocalInv, LocalTypeOK, SamePlan
    <3>2. StepFits'
      BY <2>1, <3>1 DEF StepFits, ToStage, ToRemove, Commits, Replaceable, StillCurrent, CurrentAt,
                        Verified, ManagedIn, DetachedIn
    <3>3. ContainersFit'
      BY <2>1, <3>1 DEF ContainersFit, NoContainers, ToStage, ToRemove, Wanted, PendingNames
    <3>4. cmd.kind = "sync" /\ cmd'.step # "clean" => ~cmd.invalid
      BY <2>1, <3>1 DEF RequestsFit
    <3>. QED BY <2>1, <2>2, <3>1, <3>2, <3>3, <3>4, GoesOn
  <2>. QED BY <2>3, <2>4
<1>. QED BY <1>1, <1>2

(* The invariant of the commands for single projections: what is accepted  *)
(* is planned again as it is, the marker is at most one commit behind, and *)
(* the containers are those of the pending operation.                      *)
THEOREM LocalInvariant == Spec => []LocalInv
<1>. QED BY StartsRight, StepsKeep, PTL DEF Spec

(* After every step of every command, interrupted or not, the projections  *)
(* in the registry are ones that the planner gives again, so that the next *)
(* command finds the names and routes that this one accepted.              *)
THEOREM StateStaysSound == Spec => []StateSound
<1>1. LocalInv => StateSound
  BY DEF LocalInv, LocalTypeOK, Acceptable, StateSound, PlanReproducible
<1>. QED BY <1>1, LocalInvariant, PTL

----------------------------------------------------------------------------
(* What belongs to the user.                                               *)

(* An edit of the user's is told apart from a step by its count.           *)
LEMMA EditsAreCounted == Spec => [](edits \in Nat)
<1>1. Init => edits \in Nat
  BY DEF Init
<1>2. edits \in Nat /\ [Next]_vars => (edits \in Nat)'
  <2>1. SUFFICES ASSUME edits \in Nat, [Next]_vars
                 PROVE  edits' = edits \/ edits' = edits + 1
    BY <2>1
  <2>2. CASE UNCHANGED vars
    BY <2>2 DEF vars, bounds
  <2>3. CASE StartRename \/ RenameToSame \/ StartRebind \/ StartForget \/ StartDetach \/ StartSync
    BY <2>3 DEF StartRename, RenameToSame, StartRebind, StartForget, StartDetach, StartSync,
                StartChange, bounds
  <2>4. CASE Step \/ Crash
    BY <2>4 DEF Step, Crash, CleanPending, BeginPending, StageAll, StagingFails, Commit,
                CommitRefused, Remove, RemoveVerified, Activate, Retire, Swap, SwapFails, Finish, WriteMarker,
                MarkerFails, CanFail, bounds
  <2>5. CASE UserWrites \/ UserDeletes \/ UserMoves
    BY <2>5 DEF UserWrites, UserDeletes, UserMoves, Edit
  <2>. QED BY <2>1, <2>2, <2>3, <2>4, <2>5 DEF Next
<1>. QED BY <1>1, <1>2, PTL DEF Spec

(* What a command takes for the projection it is to replace or remove does *)
(* not belong to the user.                                                 *)
LEMMA ReplaceableIsOurs ==
  ASSUME LocalInv, cmd # Idle, cmd.step \in {"remove", "removing", "activate", "retire"},
         NEW n \in ToStage \cup ToRemove, n \in Name, Replaceable(n)
  PROVE  ~UserOwned(n)
<1>1. /\ cmd \in Command /\ GoalFits /\ RequestsFit /\ StepFits
      /\ accepted \in States /\ PlannedOk(accepted)
  BY DEF LocalInv, LocalTypeOK, Acceptable, AcceptedPlanOk
<1>2. cmd.next = accepted /\ cmd.kind \in Kinds /\ cmd.kind # "mark" /\ cmd.current \in States
  BY <1>1 DEF GoalFits, BeforeCommit, Command, StepFits
<1>3. CASE cmd.kind = "recover"
  BY <1>3 DEF Replaceable, UserOwned, Link, User
<1>4. CASE cmd.kind # "recover"
  <2>1. n \in cmd.stages \cup cmd.removals
    BY <1>4 DEF ToStage, ToRemove
  <2>2. PICK p \in CurrentAt(n) : Verified(p, cmd.current[p])
    BY <1>4 DEF Replaceable, StillCurrent
  <2>3. /\ p \in Package /\ cmd.current[p] \in Projection /\ cmd.current[p].name = n
        /\ dir[n] = Expected(p, cmd.current[p])
    BY <1>2, <2>2, StatesAre DEF CurrentAt, ManagedIn, Verified
  <2>4. dir[n] # User /\ (cmd.current[p].mat = "link" => dir[n].kind # "copy")
    BY <2>3, ExpectedIs
  <2>5. CASE cmd.kind = "detach"
    BY <1>1, <2>1, <2>2, <2>4, <2>5 DEF RequestsFit, UserOwned
  <2>6. CASE cmd.kind # "detach"
    <3>1. /\ n \in cmd.removals => Named(accepted, n) = {}
          /\ n \in cmd.stages => \E q \in ManagedIn(accepted) : accepted[q].name = n
      BY <1>1, <1>2, <1>4, <2>6 DEF RequestsFit, Proposes, Kinds
    <3>2. ASSUME NEW q \in DetachedIn(accepted), accepted[q].name = n
          PROVE  FALSE
      <4>1. q \in Named(accepted, n)
        BY <3>2 DEF Named, DetachedIn
      <4>2. PICK r \in ManagedIn(accepted) : accepted[r].name = n
        BY <2>1, <3>1, <4>1
      <4>3. q = r
        BY <1>1, <3>2, <4>2, NamesApart DEF ManagedIn, DetachedIn
      <4>. QED BY <4>2, <4>3 DEF ManagedIn
    <3>. QED BY <2>4, <3>2 DEF UserOwned
  <2>. QED BY <2>5, <2>6
<1>. QED BY <1>3, <1>4

(* No step of a command takes the user's content, outside the windows.     *)
LEMMA StepKeepsUserContent ==
  ASSUME LocalInv, edits \in Nat, [Next]_vars, NEW n \in Name, UserOwned(n)
  PROVE  dir'[n] = dir[n] \/ edits' # edits \/ n \in raced
<1> USE Unmoved
<1>1. ~Missing(n)
  BY DEF UserOwned, Missing, Nothing, User
<1>2. /\ cmd # Idle => cmd.swapping \subseteq Name /\ cmd.todo \subseteq Name
      /\ cmd.step \in {"remove", "removing"} => cmd # Idle /\ cmd.todo \subseteq ToRemove
      /\ cmd.step \in {"activate", "retire", "swap"} => cmd # Idle /\ cmd.todo \subseteq ToStage
      /\ cmd.step \in {"removing", "retire"} =>
           cmd.swapping \subseteq cmd.todo /\ \A m \in cmd.swapping : m \in raced \/ Replaceable(m)
  BY DEF StepFits, Command
<1>3. CASE UNCHANGED dir
  BY <1>3
<1>4. CASE UserWrites \/ UserDeletes \/ UserMoves
  BY <1>4 DEF UserWrites, UserDeletes, UserMoves, Edit
<1>5. CASE RemoveVerified
  <2>1. UNCHANGED dir \/ \E m \in cmd.swapping : dir' = [dir EXCEPT ![m] = Nothing]
    BY <1>5 DEF RemoveVerified
  <2>2. ASSUME NEW m \in cmd.swapping, dir' = [dir EXCEPT ![m] = Nothing]
        PROVE  dir'[n] = dir[n] \/ n \in raced
    <3>1. CASE m = n
      BY <1>2, <1>5, <3>1, ReplaceableIsOurs DEF RemoveVerified
    <3>. QED BY <2>2, <3>1
  <2>. QED BY <2>1, <2>2
<1>6. CASE Activate
  <2>1. UNCHANGED dir \/ \E m \in cmd.todo : Missing(m) /\ dir' = [dir EXCEPT ![m] = stage[m].made]
    BY <1>6 DEF Activate
  <2>. QED BY <1>1, <2>1
<1>7. CASE Retire
  <2>1. UNCHANGED dir \/ \E m \in cmd.swapping : dir' = [dir EXCEPT ![m] = Nothing]
    BY <1>7 DEF Retire
  <2>2. ASSUME NEW m \in cmd.swapping, dir' = [dir EXCEPT ![m] = Nothing]
        PROVE  dir'[n] = dir[n] \/ n \in raced
    <3>1. CASE m = n
      BY <1>2, <1>7, <3>1, ReplaceableIsOurs DEF Retire
    <3>. QED BY <2>2, <3>1
  <2>. QED BY <2>1, <2>2
<1>8. CASE Swap
  <2>1. \E m \in cmd.swapping : Missing(m) /\ dir' = [dir EXCEPT ![m] = stage[m].made]
    BY <1>8 DEF Swap
  <2>. QED BY <1>1, <2>1
<1>9. CASE SwapFails
  <2>1. UNCHANGED dir \/ \E m \in cmd.swapping :
                           Missing(m) /\ dir' = [dir EXCEPT ![m] = stage[m].retired]
    BY <1>9 DEF SwapFails
  <2>. QED BY <1>1, <2>1
<1>10. CASE UNCHANGED vars
  BY <1>10 DEF vars, files
<1>11. CASE StartRename \/ RenameToSame \/ StartRebind \/ StartForget \/ StartDetach \/ StartSync
  BY <1>11 DEF StartRename, RenameToSame, StartRebind, StartForget, StartDetach, StartSync,
               StartChange, files
<1>12. CASE \/ CleanPending \/ BeginPending \/ StageAll \/ StagingFails \/ Commit \/ CommitRefused
            \/ Remove \/ Finish \/ WriteMarker \/ MarkerFails \/ Crash
  BY <1>12 DEF CleanPending, BeginPending, StageAll, StagingFails, Commit, CommitRefused, Remove,
               Finish, WriteMarker, MarkerFails, Crash, files
<1>. QED BY <1>4, <1>5, <1>6, <1>7, <1>8, <1>9, <1>10, <1>11, <1>12 DEF Next, Step

(* A directory of the user's and the copy behind a detached projection are *)
(* never removed or replaced by a command, whatever dies in between: what  *)
(* is retired or removed was verified as the managed projection, and only  *)
(* what the user put there in the window after that is taken with it.      *)
THEOREM UserContentStays == Spec => UserContentKept
<1>1. LocalInv /\ edits \in Nat /\ [Next]_vars =>
        [\A n \in Name : UserOwned(n) => dir'[n] = dir[n] \/ edits' # edits \/ n \in raced]_vars
  BY StepKeepsUserContent
<1>. QED BY <1>1, LocalInvariant, EditsAreCounted, PTL DEF Spec, UserContentKept

----------------------------------------------------------------------------
(* What a command that succeeds leaves behind.                             *)

(* What a preflight keeps is there already, and looks as it is to.         *)
LEMMA KeptIsShown ==
  ASSUME NEW current \in States, NEW next \in States, NEW desired, NEW observed, NEW actions,
         actions = PreflightActions(desired, current, observed), RequestsOk(actions, next),
         ObservationOk(current), \A n \in DOMAIN observed : ~Missing(n),
         SameWhereAlike(current, next),
         \A p \in ManagedIn(next) : p \in DOMAIN desired => desired[p].view = next[p].view,
         NEW p \in ManagedIn(next), next[p].name \notin NamesToStage(actions)
  PROVE  Verified(p, next[p])
<1>1. PICK a \in actions : a.action \in {"keep", "materialize", "replace"} /\ a.to = p
  BY DEF RequestsOk
<1>2. next[p].name = a.name /\ p \in Package
  BY <1>1, StatesAre DEF RequestsOk, ManagedIn
<1>3. a.action = "keep"
  BY <1>1, <1>2 DEF NamesToStage
<1>4. PICK q \in ManagedIn(current) : a = ManagedAction(desired, current, observed, q)
  <2>1. CASE \E q \in DetachedIn(current) : a = DetachedAction(desired, current, observed, q)
    BY <1>3, <2>1 DEF DetachedAction
  <2>2. CASE \E q \in DOMAIN desired :
               a = [name |-> desired[q].name, from |-> NoPackage, to |-> q,
                    action |-> "materialize"]
    BY <1>3, <2>2
  <2>. QED BY <2>1, <2>2 DEF PreflightActions, Fresh
<1> DEFINE n == current[q].name
           to == TheNamed(desired, n)
<1>5. /\ a.name = n /\ a.to = to
      /\ n \in DOMAIN observed /\ to # NoPackage /\ to = q /\ desired[q].view = current[q].view
  <2>1. a.name = n /\ a.to = to
    BY <1>4 DEF ManagedAction
  <2> DEFINE same == to = q /\ desired[q].view = current[q].view
  <2>2. a.action = CASE n \notin DOMAIN observed /\ to = NoPackage -> "drop-missing"
                     [] n \notin DOMAIN observed /\ to # NoPackage -> "materialize"
                     [] n \in DOMAIN observed /\ to = NoPackage -> "remove"
                     [] n \in DOMAIN observed /\ same -> "keep"
                     [] OTHER -> "replace"
    BY <1>4 DEF ManagedAction
  <2>3. same => to # NoPackage
    BY <1>4, StatesAre, NoPackageAssumption DEF ManagedIn
  <2> HIDE DEF n, to, same
  <2>4. n \in DOMAIN observed /\ to # NoPackage /\ same
    BY <1>3, <2>2, <2>3
  <2>. QED BY <2>1, <2>4 DEF same
<1>6. p = q
  BY <1>1, <1>5
<1>7. p \in DOMAIN desired
  BY <1>5, <1>6 DEF TheNamed, Named
<1>8. next[p].view = current[p].view /\ next[p].mat = current[p].mat
  BY <1>4, <1>5, <1>6, <1>7 DEF SameWhereAlike
<1>9. Verified(p, current[p])
  BY <1>4, <1>5, <1>6 DEF ObservationOk
<1>. QED BY <1>2, <1>5, <1>6, <1>8, <1>9 DEF Verified, Expected

(* What is shown stays shown where the directory does not change.          *)
LEMMA ShownStays ==
  ASSUME cmd.next \in States, cmd'.next = cmd.next, touched \subseteq touched',
         NEW p \in ManagedIn(cmd.next), Shown(p),
         \A n \in Name : n = cmd.next[p].name => dir'[n] = dir[n] \/ n \in touched'
  PROVE  Shown(p)'
<1>1. cmd.next[p].name \in Name
  BY StatesAre DEF ManagedIn, Projection
<1>. QED BY <1>1 DEF Shown, Verified

(* A command that has not succeeded has nothing to answer for yet.         *)
LEMMA NoSuccess ==
  ASSUME report' = "none", cmd' # Idle => ShownFits'
  PROVE  SuccessInv'
BY DEF SuccessInv, SuccessMeansAgreement

(* While a command acts on a name that it stages or removes, what it keeps *)
(* stays shown.                                                            *)
LEMMA KeptStaysShown ==
  ASSUME LocalInv, cmd \in Command, Answers, cmd.next = accepted, cmd.step # "clean",
         cmd.invalid \/ ShownBut(cmd.stages), cmd'.next = cmd.next, touched' = touched,
         NEW n \in ToStage \cup ToRemove, \A m \in Name : m # n => dir'[m] = dir[m],
         NEW p \in ManagedIn(cmd.next), ~cmd.invalid
  PROVE  cmd.next[p].name \in cmd.stages \/ Shown(p)'
<1>1. /\ RequestsFit /\ cmd.next \in States /\ accepted \in States /\ PlannedOk(accepted)
  BY IdleIsNot DEF LocalInv, LocalTypeOK, Acceptable, AcceptedPlanOk
<1>2. CASE cmd.next[p].name # n
  <2>1. CASE Shown(p)
    BY <1>1, <1>2, <2>1, ShownStays
  <2>. QED BY <2>1 DEF ShownBut
<1>3. CASE cmd.next[p].name = n
  <2>1. p \in Named(cmd.next, n)
    BY <1>3 DEF Named, ManagedIn
  <2>2. CASE cmd.kind = "recover"
    <3>1. PICK q \in DetachedIn(accepted) : accepted[q].name = n
      BY <1>1, <2>2 DEF RequestsFit, ToStage, ToRemove
    <3>2. q = p
      BY <1>1, <1>3, <3>1, NamesApart DEF DetachedIn, ManagedIn
    <3>. QED BY <3>1, <3>2 DEF ManagedIn
  <2>3. CASE cmd.kind # "recover"
    BY <1>1, <1>3, <2>1, <2>3 DEF RequestsFit, ToStage, ToRemove, Answers
  <2>. QED BY <2>2, <2>3
<1>. QED BY <1>2, <1>3

(* What a command puts in its place is shown.                              *)
LEMMA ActivatedIsShown ==
  ASSUME LocalInv, SuccessInv, cmd \in Command, cmd.step \in {"activate", "swap"}, SamePlan,
         NEW n \in cmd.todo, dir' = [dir EXCEPT ![n] = stage[n].made],
         cmd'.step = "activate", cmd'.todo = cmd.todo \ {n}, UNCHANGED <<report, touched>>
  PROVE  SuccessInv'
<1>1. /\ report' = "none" /\ ShownFits /\ GoalFits /\ RequestsFit /\ StepFits
      /\ cmd.next \in States /\ cmd.todo \subseteq Name /\ dir \in [Name -> Content]
  BY IdleIsNot, Unmoved DEF LocalInv, SuccessInv, Command
<1>2. /\ cmd.next = accepted /\ PlannedOk(cmd.next) /\ n \in ToStage
      /\ stage[n].made = Wanted(n)
  BY <1>1 DEF GoalFits, BeforeCommit, LocalInv, Acceptable, AcceptedPlanOk, StepFits, ContainersFit
<1>3. SUFFICES ASSUME Answers
               PROVE  ShownFits'
  BY <1>1, NoSuccess DEF ShownFits, Answers, Proposes, SamePlan
<1>4. \A m \in Name : m # n => dir'[m] = dir[m]
  BY <1>1
<1>5. ASSUME NEW p \in ManagedIn(cmd.next), ~cmd.invalid
      PROVE  cmd.next[p].name \in cmd.stages \/ Shown(p)'
  BY <1>1, <1>2, <1>3, <1>4, <1>5, KeptStaysShown DEF ShownFits, SamePlan
<1>6. ASSUME cmd.kind # "recover", NEW p \in ManagedIn(cmd.next)
      PROVE  cmd.next[p].name \in cmd.todo \ {n} \/ Shown(p)'
  <2>1. CASE cmd.next[p].name = n
    <3>1. TheNamed(cmd.next, n) = p
      BY <1>1, <1>2, <2>1, NamesApart DEF ManagedIn
    <3>2. dir'[n] = Expected(p, cmd.next[p])
      BY <1>1, <1>2, <3>1 DEF Wanted
    <3>. QED BY <2>1, <3>2 DEF Shown, Verified, SamePlan
  <2>2. CASE cmd.next[p].name # n /\ Shown(p)
    BY <1>1, <1>4, <2>2, ShownStays DEF SamePlan
  <2>3. cmd.next[p].name \in cmd.todo \/ Shown(p)
    BY <1>1, <1>3, <1>6 DEF ShownFits, ShownBut
  <2>. QED BY <2>1, <2>2, <2>3
<1>. QED BY <1>5, <1>6 DEF ShownFits, ShownBut, SamePlan, ManagedIn, DetachedIn

(* The steps of a command that runs.                                       *)
LEMMA SuccessSteps ==
  ASSUME LocalInv, SuccessInv, Step \/ Crash
  PROVE  SuccessInv'
<1> USE Unmoved
<1>1. /\ cmd # Idle /\ cmd \in Command /\ report = "none" /\ ShownFits
      /\ GoalFits /\ RequestsFit /\ StepFits /\ ContainersFit
      /\ cmd.next \in States /\ cmd.todo \subseteq Name
  <2>1. cmd # Idle
    BY IdleIsNot DEF Step, Crash, CleanPending, BeginPending, StageAll, StagingFails, Commit,
       CommitRefused, Remove, RemoveVerified, Activate, Retire, Swap, SwapFails, Finish, WriteMarker,
       MarkerFails
  <2>. QED BY <2>1 DEF LocalInv, LocalTypeOK, SuccessInv, Command
<1>2. Fail => SuccessInv'
  BY NoSuccess DEF Fail
<1>3. ASSUME SamePlan, report' = report, ~Answers
      PROVE  SuccessInv'
  BY <1>1, <1>3, NoSuccess DEF ShownFits, Answers, Proposes, SamePlan
<1>4. ASSUME SamePlan, UNCHANGED <<dir, touched, report>>, Answers,
             cmd'.step \in {"activate", "retire", "swap"} => cmd.kind = "recover" \/ ShownBut(cmd'.todo),
             cmd'.step \in {"finish", "marker"} => cmd.kind = "recover" \/ ShownBut({}),
             Proposes /\ cmd'.step = "finish" => marker' = Marker'
      PROVE  SuccessInv'
  <2>1. \A p \in ManagedIn(cmd.next) : Shown(p)' <=> Shown(p)
    BY <1>4 DEF Shown, Verified, SamePlan
  <2>2. cmd.invalid \/ ShownBut(cmd.stages)
    BY <1>1, <1>4 DEF ShownFits
  <2>3. ShownFits'
    BY <1>4, <2>1, <2>2 DEF ShownFits, ShownBut, Answers, Proposes, SamePlan, ManagedIn, DetachedIn
  <2>. QED BY <1>1, <1>4, <2>3, NoSuccess
<1>5. Proposes \/ (cmd.kind = "sync" /\ cmd.step # "clean") => ~cmd.invalid
  BY <1>1 DEF RequestsFit
<1>6. CASE CleanPending
  <2>1. CASE GoTo("marker", {}) /\ cmd.kind = "sync" /\ ~cmd.invalid /\ cmd.stages \cup cmd.removals = {}
    <3>1. SamePlan /\ UNCHANGED <<dir, touched, report>> /\ cmd'.step = "marker"
      BY <1>1, <1>6, <2>1, GoToMoves DEF Steps, userMarks, CleanPending
    <3>2. ShownBut({})
      BY <1>1, <2>1 DEF ShownFits, Answers, ShownBut
    <3>. QED BY <1>4, <2>1, <3>1, <3>2 DEF Answers, Proposes
  <2>2. CASE GoTo("pending", {})
    <3>1. SamePlan /\ UNCHANGED <<dir, touched, report>> /\ cmd'.step = "pending"
      BY <1>1, <1>6, <2>2, GoToMoves DEF Steps, userMarks, CleanPending
    <3>. QED BY <1>3, <1>4, <3>1
  <2>. QED BY <1>2, <1>6, <2>1, <2>2 DEF CleanPending
<1>7. CASE BeginPending
  <2>1. CASE GoTo("stage", {})
    <3>1. SamePlan /\ UNCHANGED <<dir, touched, report>> /\ cmd'.step = "stage"
      BY <1>1, <1>7, <2>1, GoToMoves DEF Steps, userMarks, BeginPending, files
    <3>. QED BY <1>3, <1>4, <3>1
  <2>. QED BY <1>2, <1>7, <2>1 DEF BeginPending
<1>8. CASE StageAll
  <2>1. /\ UNCHANGED <<dir, touched, report>>
        /\ cmd' = [cmd EXCEPT !.step = IF Commits THEN "commit" ELSE "remove",
                              !.todo = IF Commits THEN {} ELSE ToRemove,
                              !.existed = {n \in ToStage : ~Missing(n)}]
    BY <1>8 DEF StageAll, userMarks
  <2>2. SamePlan /\ cmd'.step \in {"commit", "remove"}
    <3>1. {n \in ToStage : ~Missing(n)} \in SUBSET Name /\ ToRemove \in SUBSET Name
      BY <1>1 DEF ToStage, ToRemove, Command
    <3>. QED BY <1>1, <2>1, <3>1 DEF SamePlan, Command, Steps
  <2>. QED BY <1>3, <1>4, <2>1, <2>2
<1>9. CASE StagingFails \/ CommitRefused \/ SwapFails \/ MarkerFails \/ Crash
  BY <1>2, <1>9 DEF StagingFails, CommitRefused, SwapFails, MarkerFails, Crash
<1>10. CASE Commit
  <2>1. cmd.stages \in SUBSET Name /\ cmd.removals \in SUBSET Name
    BY <1>1 DEF Command
  <2>2. /\ SamePlan /\ UNCHANGED <<dir, touched, report>>
        /\ cmd.kind = "detach" \/ cmd'.step = "remove"
    BY <1>1, <1>10, <2>1, GoToMoves DEF Steps, userMarks, files, Commit
  <2>. QED BY <1>3, <1>4, <2>2 DEF Answers, Proposes
<1>11. CASE Remove
  <2>1. ToStage \subseteq Name /\ cmd.step = "remove" /\ UNCHANGED dir
    BY <1>1, <1>11 DEF ToStage, Command, Remove, files
  <2>2. CASE GoTo("activate", ToStage)
    <3>1. /\ SamePlan /\ UNCHANGED <<dir, touched, report>>
          /\ cmd'.step = "activate" /\ cmd'.todo = ToStage
      BY <1>1, <2>1, <2>2, GoToMoves DEF Steps, userMarks
    <3>2. Answers => cmd.kind = "recover" \/ ShownBut(cmd'.todo)
      BY <1>1, <1>5, <2>1, <3>1 DEF ShownFits, Answers, ToStage
    <3>. QED BY <1>3, <1>4, <3>1, <3>2
  <2>3. ASSUME NEW n \in cmd.todo, GoTo("remove", cmd.todo \ {n})
        PROVE  SuccessInv'
    <3>1. cmd.todo \ {n} \in SUBSET Name
      BY <1>1
    <3>2. SamePlan /\ UNCHANGED <<touched, report>> /\ cmd'.step = "remove"
      BY <1>1, <2>3, <3>1, GoToMoves DEF Steps, userMarks
    <3>. QED BY <1>3, <1>4, <2>1, <3>2
  <2>4. ASSUME NEW n \in cmd.todo, UNCHANGED <<report, userMarks>>,
               cmd' = [cmd EXCEPT !.step = "removing", !.swapping = {n}]
        PROVE  SuccessInv'
    <3>1. n \in Name
      BY <1>1
    <3>2. SamePlan /\ cmd'.step = "removing"
      BY <1>1, <2>4, <3>1 DEF Command, SamePlan, Steps
    <3>. QED BY <1>3, <1>4, <2>1, <2>4, <3>2 DEF userMarks
  <2>5. \/ GoTo("activate", ToStage)
        \/ \E n \in cmd.todo :
             \/ GoTo("remove", cmd.todo \ {n})
             \/ /\ UNCHANGED <<report, userMarks>>
                /\ cmd' = [cmd EXCEPT !.step = "removing", !.swapping = {n}]
             \/ Fail
    BY <1>11 DEF Remove
  <2>. QED BY <1>2, <2>2, <2>3, <2>4, <2>5
<1>17. CASE RemoveVerified
  <2>1. PICK n \in cmd.swapping :
          \/ /\ dir' = [dir EXCEPT ![n] = Nothing]
             /\ cmd' = [cmd EXCEPT !.step = "remove", !.todo = @ \ {n}, !.swapping = {}]
             /\ UNCHANGED <<report, userMarks>>
          \/ Fail
    BY <1>17 DEF RemoveVerified
  <2>2. cmd.step = "removing" /\ cmd.todo \subseteq ToRemove /\ n \in cmd.todo
    BY <1>1, <1>17 DEF RemoveVerified, StepFits
  <2>3. CASE /\ dir' = [dir EXCEPT ![n] = Nothing]
             /\ cmd' = [cmd EXCEPT !.step = "remove", !.todo = @ \ {n}, !.swapping = {}]
             /\ UNCHANGED <<report, userMarks>>
    <3>1. SamePlan /\ UNCHANGED <<touched, report>> /\ cmd'.step = "remove"
      BY <1>1, <2>3 DEF Command, SamePlan, Steps, userMarks
    <3>2. CASE ~Answers
      BY <1>3, <3>1, <3>2
    <3>3. CASE Answers
      <4>1. /\ cmd.next = accepted /\ \A m \in Name : m # n => dir'[m] = dir[m]
            /\ n \in ToStage \cup ToRemove
        BY <1>1, <2>2, <2>3 DEF GoalFits, BeforeCommit
      <4>2. ASSUME NEW p \in ManagedIn(cmd.next), ~cmd.invalid
            PROVE  cmd.next[p].name \in cmd.stages \/ Shown(p)'
        BY <1>1, <2>2, <3>1, <3>3, <4>1, <4>2, KeptStaysShown DEF ShownFits, SamePlan
      <4>3. ShownFits'
        BY <3>1, <4>2 DEF ShownFits, ShownBut, SamePlan, ManagedIn, DetachedIn
      <4>. QED BY <1>1, <3>1, <4>3, NoSuccess
    <3>. QED BY <3>2, <3>3
  <2>. QED BY <1>2, <2>1, <2>3
<1>12. CASE Activate
  <2>1. CASE /\ cmd.todo = {} /\ UNCHANGED <<dir, stage>>
             /\ GoTo(IF Commits /\ cmd.kind # "detach" THEN "marker" ELSE "finish", {})
    <3>1. /\ SamePlan /\ UNCHANGED <<dir, touched, report>>
          /\ cmd'.step = IF Commits /\ cmd.kind # "detach" THEN "marker" ELSE "finish"
      BY <1>1, <2>1, GoToMoves DEF Steps, userMarks
    <3>2. Answers => cmd.kind = "recover" \/ ShownBut({})
      BY <1>1, <1>12, <2>1 DEF ShownFits, Activate
    <3>. QED BY <1>3, <1>4, <3>1, <3>2 DEF Proposes, Commits
  <2>2. ASSUME NEW n \in cmd.todo, dir' = [dir EXCEPT ![n] = stage[n].made],
               GoTo("activate", cmd.todo \ {n})
        PROVE  SuccessInv'
    <3>1. cmd.todo \ {n} \in SUBSET Name
      BY <1>1
    <3>2. /\ SamePlan /\ UNCHANGED <<report, touched>>
          /\ cmd'.step = "activate" /\ cmd'.todo = cmd.todo \ {n}
      BY <1>1, <2>2, <3>1, GoToMoves DEF Steps, userMarks
    <3>. QED BY <1>1, <1>12, <2>2, <3>2, ActivatedIsShown DEF Activate
  <2>3. ASSUME NEW n \in cmd.todo, UNCHANGED <<dir, stage, report, userMarks>>,
               cmd' = [cmd EXCEPT !.step = "retire", !.swapping = {n}]
        PROVE  SuccessInv'
    <3>1. n \in Name /\ UNCHANGED <<dir, touched, report>>
      BY <1>1, <2>3 DEF userMarks
    <3>2. SamePlan /\ cmd'.step = "retire" /\ cmd'.todo = cmd.todo
      BY <1>1, <2>3, <3>1 DEF Command, SamePlan, Steps
    <3>3. Answers => cmd.kind = "recover" \/ ShownBut(cmd'.todo)
      BY <1>1, <1>12, <3>2 DEF ShownFits, Activate
    <3>. QED BY <1>3, <1>4, <3>1, <3>2, <3>3
  <2>4. \/ /\ cmd.todo = {} /\ UNCHANGED <<dir, stage>>
           /\ GoTo(IF Commits /\ cmd.kind # "detach" THEN "marker" ELSE "finish", {})
        \/ \E n \in cmd.todo :
             \/ /\ dir' = [dir EXCEPT ![n] = stage[n].made]
                /\ GoTo("activate", cmd.todo \ {n})
             \/ /\ UNCHANGED <<dir, stage, report, userMarks>>
                /\ cmd' = [cmd EXCEPT !.step = "retire", !.swapping = {n}]
             \/ Fail
    BY <1>12 DEF Activate
  <2>. QED BY <1>2, <2>1, <2>2, <2>3, <2>4
<1>13. CASE Retire
  <2>1. PICK n \in cmd.swapping : \/ Fail
                                  \/ dir' = [dir EXCEPT ![n] = Nothing] /\ GoTo("swap", cmd.todo)
    BY <1>13 DEF Retire
  <2>2. /\ cmd.step = "retire" /\ cmd.swapping \subseteq cmd.todo /\ cmd.todo \subseteq ToStage
    BY <1>1, <1>13 DEF Retire, StepFits
  <2>3. CASE dir' = [dir EXCEPT ![n] = Nothing] /\ GoTo("swap", cmd.todo)
    <3>1. SamePlan /\ UNCHANGED <<touched, report>> /\ cmd'.step = "swap" /\ cmd'.todo = cmd.todo
      BY <1>1, <2>3, GoToMoves DEF Steps, userMarks
    <3>2. CASE ~Answers
      BY <1>3, <3>1, <3>2
    <3>3. CASE Answers
      <4>1. /\ cmd.next = accepted /\ \A m \in Name : m # n => dir'[m] = dir[m]
            /\ n \in ToStage \cup ToRemove
        BY <1>1, <2>2, <2>3 DEF GoalFits, BeforeCommit
      <4>2. ASSUME NEW p \in ManagedIn(cmd.next), ~cmd.invalid
            PROVE  cmd.next[p].name \in cmd.stages \/ Shown(p)'
        BY <1>1, <2>2, <3>1, <3>3, <4>1, <4>2, KeptStaysShown DEF ShownFits, SamePlan
      <4>3. ASSUME cmd.kind # "recover", NEW p \in ManagedIn(cmd.next)
            PROVE  cmd.next[p].name \in cmd.todo \/ Shown(p)'
        <5>1. touched \subseteq touched' /\ cmd'.next = cmd.next
          BY <3>1 DEF SamePlan
        <5>2. CASE Shown(p) /\ cmd.next[p].name # n
          BY <1>1, <4>1, <4>3, <5>1, <5>2, ShownStays
        <5>. QED BY <1>1, <2>2, <3>3, <4>3, <5>2 DEF ShownFits, ShownBut
      <4>4. ShownFits'
        BY <3>1, <4>2, <4>3 DEF ShownFits, ShownBut, SamePlan, ManagedIn, DetachedIn
      <4>. QED BY <1>1, <3>1, <4>4, NoSuccess
    <3>. QED BY <3>2, <3>3
  <2>. QED BY <1>2, <2>1, <2>3
<1>14. CASE Swap
  <2>1. PICK n \in cmd.swapping :
          /\ dir' = [dir EXCEPT ![n] = stage[n].made]
          /\ cmd' = [cmd EXCEPT !.step = "activate", !.todo = @ \ {n}, !.swapping = {}]
    BY <1>14 DEF Swap
  <2>2. cmd.step = "swap" /\ n \in cmd.todo /\ UNCHANGED <<report, touched>>
    BY <1>1, <1>14 DEF Swap, StepFits, userMarks
  <2>3. SamePlan /\ cmd'.step = "activate" /\ cmd'.todo = cmd.todo \ {n}
    BY <1>1, <2>1 DEF Command, SamePlan, Steps
  <2>. QED BY <1>1, <2>1, <2>2, <2>3, ActivatedIsShown
<1>15. CASE Finish
  <2>1. /\ cmd.step = "finish" /\ pending' = {} /\ UNCHANGED <<accepted, generation, dir, marker>>
        /\ \A n \in Name : stage'[n] = NoContainer
    BY <1>1, <1>15 DEF Finish, ContainersFit
  <2>2. cmd.next = accepted
    BY <1>1, <2>1 DEF GoalFits, BeforeCommit
  <2>3. CASE /\ cmd.kind = "recover" /\ UNCHANGED <<report, userMarks>>
             /\ cmd' = [cmd EXCEPT !.kind = "sync", !.step = "clean", !.existed = {}]
    <3>1. /\ cmd'.kind = "sync" /\ cmd'.step = "clean" /\ cmd'.next = cmd.next
          /\ cmd'.stages = cmd.stages /\ cmd'.invalid = cmd.invalid /\ touched' = touched
          /\ report' = report
      BY <1>1, <2>3 DEF Command, userMarks
    <3>2. cmd.invalid \/ ShownBut(cmd.stages)
      BY <1>1, <2>3 DEF ShownFits, Answers
    <3>3. ShownFits'
      BY <2>1, <3>1, <3>2 DEF ShownFits, ShownBut, Shown, Verified, Proposes, ManagedIn, DetachedIn
    <3>. QED BY <1>1, <3>1, <3>3, NoSuccess
  <2>4. CASE cmd.kind \in {"rename", "rebind", "forget"} /\ Succeed
    <3>1. cmd' = Idle /\ touched' = touched
      BY <2>4 DEF Succeed
    <3>2. marker = Marker /\ ShownBut({})
      BY <1>1, <2>1, <2>4 DEF ShownFits, Answers, Proposes
    <3>3. \A p \in ManagedIn(accepted') : Verified(p, accepted[p])' \/ accepted'[p].name \in touched'
      BY <2>1, <2>2, <3>1, <3>2 DEF ShownBut, Shown, Verified
    <3>4. SuccessMeansAgreement'
      BY <2>1, <3>2, <3>3 DEF SuccessMeansAgreement, Marker
    <3>. QED BY <3>1, <3>4 DEF SuccessInv
  <2>5. CASE cmd.kind \notin {"recover", "rename", "rebind", "forget"} /\ GoTo("marker", {})
    <3>1. SamePlan /\ UNCHANGED <<dir, touched, report>> /\ cmd'.step = "marker"
      BY <1>1, <2>1, <2>5, GoToMoves DEF Steps, userMarks
    <3>2. Answers => ShownBut({})
      BY <1>1, <2>1, <2>5 DEF ShownFits
    <3>. QED BY <1>3, <1>4, <3>1, <3>2
  <2>. QED BY <1>15, <2>3, <2>4, <2>5 DEF Finish
<1>16. CASE WriteMarker
  <2>1. /\ cmd.step = "marker" /\ UNCHANGED <<accepted, generation, pending, dir, stage>>
        /\ marker' = [generation |-> generation', projections |-> accepted']
    BY <1>16 DEF WriteMarker, registryFacts
  <2>2. CASE cmd.kind \in {"rename", "rebind", "forget"} /\ GoTo("finish", {})
    <3>1. SamePlan /\ UNCHANGED <<dir, touched, report>> /\ cmd'.step = "finish"
      BY <1>1, <2>1, <2>2, GoToMoves DEF Steps, userMarks
    <3>2. Answers /\ ShownBut({}) /\ marker' = Marker'
      BY <1>1, <2>1, <2>2 DEF ShownFits, Answers, Proposes, Marker
    <3>. QED BY <1>4, <3>1, <3>2
  <2>3. CASE cmd.kind \notin {"rename", "rebind", "forget"} /\ Succeed
    <3>1. cmd' = Idle /\ touched' = touched /\ report' = cmd.kind
      BY <2>3 DEF Succeed
    <3>2. cmd.next = accepted /\ cmd.kind # "recover"
      BY <1>1, <2>1 DEF GoalFits, BeforeCommit, StepFits
    <3>3. SuccessMeansAgreement'
      <4>1. ASSUME cmd.kind = "sync"
            PROVE  /\ pending' = {} /\ \A n \in Name : stage'[n] = NoContainer
                   /\ \A p \in ManagedIn(accepted') :
                        Verified(p, accepted[p])' \/ accepted'[p].name \in touched'
        <5>1. ShownBut({})
          BY <1>1, <2>1, <4>1 DEF ShownFits, Answers
        <5>2. NoContainers /\ pending = {}
          BY <1>1, <2>1, <4>1 DEF ContainersFit
        <5>. QED BY <2>1, <3>1, <3>2, <5>1, <5>2 DEF ShownBut, Shown, Verified, NoContainers
      <4>. QED BY <2>1, <2>3, <3>1, <4>1 DEF SuccessMeansAgreement
    <3>. QED BY <3>1, <3>3 DEF SuccessInv
  <2>. QED BY <1>16, <2>2, <2>3 DEF WriteMarker
<1>. QED BY <1>6, <1>7, <1>8, <1>9, <1>10, <1>11, <1>12, <1>13, <1>14, <1>15, <1>16, <1>17 DEF Step

(* The user edits.                                                         *)
LEMMA SuccessEdits ==
  ASSUME LocalInv, SuccessInv, UserWrites \/ UserDeletes \/ UserMoves
  PROVE  SuccessInv'
<1> USE Unmoved
<1>1. /\ report' = "none" /\ cmd' = cmd /\ UNCHANGED <<marker, accepted, generation>>
      /\ touched \subseteq touched'
      /\ \A n \in Name : dir'[n] = dir[n] \/ n \in touched'
  <2>1. CASE UserWrites
    BY <2>1 DEF UserWrites, Edit, registryFacts
  <2>2. CASE UserDeletes
    BY <2>2 DEF UserDeletes, Edit, registryFacts
  <2>3. CASE UserMoves
    BY <2>3 DEF UserMoves, Edit, registryFacts
  <2>. QED BY <2>1, <2>2, <2>3
<1>2. SUFFICES ASSUME cmd # Idle
               PROVE  ShownFits'
  BY <1>1, NoSuccess
<1>3. cmd.next \in States /\ ShownFits
  BY <1>2 DEF SuccessInv, LocalInv, LocalTypeOK, Command
<1>4. ASSUME NEW p \in ManagedIn(cmd.next), Shown(p)
      PROVE  Shown(p)'
  BY <1>1, <1>3, <1>4, ShownStays
<1>. QED BY <1>1, <1>3, <1>4
     DEF ShownFits, ShownBut, Answers, Proposes, Marker, ManagedIn, DetachedIn

(* What a change keeps is shown when it starts.                            *)
LEMMA ChangeShows ==
  ASSUME LocalInv, NEW kind \in {"rename", "rebind", "forget"}, NEW x \in States,
         DOMAIN x \subseteq DOMAIN accepted,
         \A p \in DOMAIN x : x[p].owner = accepted[p].owner /\ x[p].mat = accepted[p].mat,
         StartChange(kind, x)
  PROVE  SuccessInv'
<1> DEFINE desired == DesiredOf(x)
           seen == Observed(accepted, desired)
           actions == PreflightActions(desired, accepted, seen)
           next == NextProjections(x)
<1>1. /\ PlannedOk(x) /\ ObservationOk(accepted) /\ RequestsOk(actions, next)
      /\ Do(Running(kind, "pending", next, accepted, actions))
      /\ UNCHANGED <<registryFacts, files>>
  BY DEF StartChange
<1>2. accepted \in States /\ CopiesWhereNeeded(accepted)
  BY DEF LocalInv, LocalTypeOK, Acceptable
<1>3. \A n \in DOMAIN seen : ~Missing(n)
  BY DEF Observed
<1>4. \A p \in DOMAIN desired : desired[p].view = Planned(x)[p]
  BY DEF DesiredOf
<1> HIDE DEF next, actions, seen, desired
<1>5. /\ next \in States /\ ManagedIn(next) = ManagedIn(x)
      /\ \A p \in ManagedIn(x) :
           /\ next[p].view = Planned(x)[p]
           /\ next[p].mat = IF Direct(p, next[p].view) THEN x[p].mat ELSE "copy"
  BY <1>1, NextIs DEF next
<1>6. SameWhereAlike(accepted, next)
  <2>1. \A p \in ManagedIn(x) : x[p].mat = accepted[p].mat
    BY DEF ManagedIn
  <2>. QED BY <1>2, <1>5, <2>1 DEF SameWhereAlike, CopiesWhereNeeded
<1>7. \A p \in ManagedIn(next) : p \in DOMAIN desired => desired[p].view = next[p].view
  BY <1>4, <1>5
<1>8. ASSUME NEW p \in ManagedIn(next), next[p].name \notin NamesToStage(actions)
      PROVE  Verified(p, next[p])
  BY <1>1, <1>2, <1>3, <1>5, <1>6, <1>7, <1>8, KeptIsShown DEF actions
<1>9. /\ cmd'.kind = kind /\ cmd'.step = "pending" /\ cmd'.next = next
      /\ cmd'.stages = NamesToStage(actions) /\ report' = "none" /\ dir' = dir
  BY <1>1 DEF Do, Running, files
<1>10. ShownFits'
  BY <1>8, <1>9 DEF ShownFits, ShownBut, Shown, Verified, Proposes, ManagedIn, DetachedIn
<1>. QED BY <1>9, <1>10, NoSuccess

(* What a sync keeps is shown when it starts.                              *)
LEMMA SyncShows ==
  ASSUME LocalInv, StartSync
  PROVE  SuccessInv'
<1> DEFINE desired == DesiredOf(accepted)
           seen == Observed(Current, <<>>)
           actions == PreflightActions(desired, Current, seen)
           sync == Running("sync", "clean", accepted, Current, actions)
<1>1. /\ Do(IF NeedsCopy = {} THEN sync
            ELSE [sync EXCEPT !.kind = "recover",
                              !.copies = {accepted[p].name : p \in NeedsCopy}])
      /\ ObservationOk(Current) /\ UNCHANGED <<registryFacts, files>>
  BY DEF StartSync
<1>2. /\ accepted \in States /\ Current \in States /\ AcceptedPlanOk(accepted)
      /\ SameWhereAlike(Current, accepted)
  BY DEF LocalInv, LocalTypeOK, Acceptable, MarkerFits, Current, SameWhereAlike
<1>3. \A n \in DOMAIN seen : ~Missing(n)
  BY DEF Observed
<1>4. \A p \in ManagedIn(accepted) : p \in DOMAIN desired => desired[p].view = accepted[p].view
  <2>1. \A p \in ManagedIn(accepted) : accepted[p].owner = "managed"
    BY <1>2, StatesAre DEF ManagedIn, DetachedIn, Projection
  <2>. QED BY <1>2, <2>1 DEF AcceptedPlanOk, DesiredOf, ManagedIn
<1>5. /\ cmd'.kind \in {"sync", "recover"} /\ cmd'.step = "clean" /\ cmd'.next = accepted
      /\ cmd'.stages = NamesToStage(actions) /\ cmd'.invalid = ~RequestsOk(actions, accepted)
      /\ report' = "none" /\ UNCHANGED <<accepted, dir>>
  BY <1>1 DEF Do, Running, files, registryFacts
<1> HIDE DEF actions, seen, desired, sync
<1>6. ASSUME RequestsOk(actions, accepted), NEW p \in ManagedIn(accepted),
             accepted[p].name \notin NamesToStage(actions)
      PROVE  Verified(p, accepted[p])
  BY <1>1, <1>2, <1>3, <1>4, <1>6, KeptIsShown DEF actions
<1>7. ShownFits'
  BY <1>5, <1>6 DEF ShownFits, ShownBut, Shown, Verified, Proposes, ManagedIn, DetachedIn
<1>. QED BY <1>5, <1>7, NoSuccess

(* Every command that starts has nothing to answer for but what it keeps.  *)
LEMMA SuccessStarts ==
  ASSUME LocalInv,
         StartRename \/ RenameToSame \/ StartRebind \/ StartForget \/ StartDetach \/ StartSync
  PROVE  SuccessInv'
<1>1. /\ accepted \in States /\ accepted \in [DOMAIN accepted -> Projection]
      /\ DOMAIN accepted \subseteq Package
  BY StatesAre DEF LocalInv, LocalTypeOK
<1>2. ASSUME NEW p \in DOMAIN accepted, NEW n \in Name, NEW kind \in {"rename", "rebind"},
             StartChange(kind, [accepted EXCEPT ![p].name = n])
      PROVE  SuccessInv'
  <2> DEFINE x == [accepted EXCEPT ![p].name = n]
  <2>1. /\ DOMAIN x = DOMAIN accepted
        /\ \A q \in DOMAIN x : /\ x[q] \in Projection
                               /\ x[q].owner = accepted[q].owner /\ x[q].mat = accepted[q].mat
    BY <1>1 DEF Projection
  <2>2. x \in [DOMAIN x -> Projection] /\ StartChange(kind, x)
    BY <1>2, <2>1
  <2> HIDE DEF x
  <2>. QED BY <1>1, <2>1, <2>2, StatesAre, ChangeShows
<1>3. CASE StartRename
  <2>1. PICK p \in ManagedIn(accepted), n \in Name :
          StartChange("rename", [accepted EXCEPT ![p].name = n])
    BY <1>3 DEF StartRename
  <2>. QED BY <1>2, <2>1 DEF ManagedIn
<1>4. CASE StartRebind
  <2>1. PICK p \in DOMAIN accepted, n \in Name :
          StartChange("rebind", [accepted EXCEPT ![p].name = n])
    BY <1>4 DEF StartRebind
  <2>. QED BY <1>2, <2>1
<1>5. CASE StartForget
  <2>1. PICK p \in DOMAIN accepted :
          StartChange("forget", [q \in DOMAIN accepted \ {p} |-> accepted[q]])
    BY <1>5 DEF StartForget
  <2> DEFINE x == [q \in DOMAIN accepted \ {p} |-> accepted[q]]
  <2>2. /\ DOMAIN x \subseteq DOMAIN accepted /\ x \in [DOMAIN x -> Projection]
        /\ \A q \in DOMAIN x : x[q] = accepted[q]
    BY <1>1
  <2>3. StartChange("forget", x)
    BY <2>1
  <2> HIDE DEF x
  <2>4. x \in States
    BY <1>1, <2>2, StatesAre
  <2>. QED BY <2>2, <2>3, <2>4, ChangeShows
<1>6. CASE RenameToSame \/ StartDetach
  <2>1. report' = "none" /\ cmd'.kind \in {"mark", "detach"}
    BY <1>6 DEF RenameToSame, StartDetach, Do, Running
  <2>2. ShownFits'
    BY <2>1 DEF ShownFits, Answers, Proposes
  <2>. QED BY <2>1, <2>2, NoSuccess
<1>. QED BY <1>3, <1>4, <1>5, <1>6, SyncShows

(* Nothing changes.                                                        *)
LEMMA SuccessStutters ==
  ASSUME SuccessInv, UNCHANGED vars
  PROVE  SuccessInv'
<1>1. UNCHANGED <<accepted, generation, pending, dir, stage, marker, cmd, report, touched>>
  BY DEF vars, registryFacts, files, userMarks
<1>2. SuccessMeansAgreement'
  BY <1>1 DEF SuccessInv, SuccessMeansAgreement, ManagedIn, DetachedIn, Verified
<1>3. cmd' # Idle => report' = "none" /\ ShownFits'
  BY <1>1 DEF SuccessInv, ShownFits, ShownBut, Shown, Verified, Answers, Proposes, Marker,
              ManagedIn, DetachedIn
<1>. QED BY <1>2, <1>3 DEF SuccessInv

(* A command that reports success has told the truth: the marker says what *)
(* the registry says, no operation and no container is left over, and each *)
(* name that the user left alone meanwhile shows what was accepted for it, *)
(* also where the command kept it without touching it.                     *)
THEOREM SuccessStaysAgreement == Spec => []SuccessMeansAgreement
<1>1. Init => SuccessInv
  BY DEF Init, SuccessInv, SuccessMeansAgreement
<1>2. LocalInv /\ SuccessInv /\ [Next]_vars => SuccessInv'
  BY SuccessStarts, SuccessSteps, SuccessEdits, SuccessStutters DEF Next
<1>3. SuccessInv => SuccessMeansAgreement
  BY DEF SuccessInv
<1>. QED BY <1>1, <1>2, <1>3, LocalInvariant, PTL DEF Spec

============================================================================
