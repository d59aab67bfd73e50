----------------------------- MODULE TargetPlan -----------------------------
(***************************************************************************)
(* What a target directory should show, and what may be done to it: the    *)
(* projection planner (src/src/domain/target/index.ts) and the ownership   *)
(* preflight (src/src/domain/target/preflight.ts).  Both are pure.         *)
(*                                                                         *)
(* Sorting is left out, it only fixes which of several errors is reported; *)
(* a digest or a package root is part of what a package is.  Duplicates of *)
(* packages, roots and renames cannot occur in sets and functions.         *)
(***************************************************************************)
EXTENDS FiniteSets, Integers

CONSTANTS Package, Name,
          Default,      \* the activation name in a package's coordinate
          NoPackage     \* null, for a package of an action

ASSUME DefaultAssumption == Default \in [Package -> Name]
ASSUME NoPackageAssumption == NoPackage \notin Package

----------------------------------------------------------------------------
(* planTargetProjections.                                                  *)

(* computeReachable: breadth first from the roots.                         *)
Beyond(edges, within) == within \cup {e[2] : e \in {e \in edges : e[1] \in within}}

Reachable(edges, roots) ==
  LET Within[i \in 0..Cardinality(Package)] ==
        IF i = 0 THEN roots ELSE Beyond(edges, Within[i - 1])
  IN Within[Cardinality(Package)]

(* prepareEdges, prepareRoots, prepareRenames; renames is a set of         *)
(* <<package, name>>.                                                      *)
PlannerInputOk(packages, edges, roots, renames) ==
  LET reachable == Reachable(edges, roots) IN
  /\ \A e \in edges : e[1] \in packages /\ e[2] \in packages
  /\ roots \subseteq packages
  /\ \A r \in renames : r[1] \in packages
  /\ \A r, s \in renames : r[1] \in reachable /\ r[1] = s[1] => r = s

ActivationOf(renames, p) ==
  IF \E r \in renames : r[1] = p
    THEN (CHOOSE r \in renames : r[1] = p)[2]
    ELSE Default[p]

(* findActivationConflict.                                                 *)
ActivationConflict(names) == \E p, q \in DOMAIN names : p # q /\ names[p] = names[q]

(* The transform of a projection: its name and the routes to dependencies  *)
(* that do not have their own name.                                        *)
ViewOf(edges, names, p) ==
  [name |-> names[p],
   routes |-> {<<q, names[q]>> : q \in {q \in DOMAIN names :
                                          <<p, q>> \in edges /\ names[q] # Default[q]}}]

(* projectionKind "direct": no transform, so a link can show it.           *)
Direct(p, view) == view = [name |-> Default[p], routes |-> {}]

PlanOk(packages, edges, roots, renames) ==
  /\ PlannerInputOk(packages, edges, roots, renames)
  /\ ~ActivationConflict([p \in Reachable(edges, roots) |-> ActivationOf(renames, p)])

(* The plan: a view for every reachable package.                           *)
PlanProjections(packages, edges, roots, renames) ==
  LET names == [p \in Reachable(edges, roots) |-> ActivationOf(renames, p)]
  IN [p \in DOMAIN names |-> ViewOf(edges, names, p)]

(* unreachableManagedPackages.                                             *)
Unreachable(packages, edges, roots) == packages \ Reachable(edges, roots)

----------------------------------------------------------------------------
(* preflightTargetOwnership.  desired maps packages to [name, view],       *)
(* current maps packages to [name, view, owner, mat], observed maps the    *)
(* names that exist to Existing or to what was verified there.             *)

Existing == [kind |-> "existing"]
Observation(p, view, mat, intact) ==
  [kind |-> "managed", package |-> p, view |-> view, mat |-> mat, intact |-> intact]

Named(projections, n) == {p \in DOMAIN projections : projections[p].name = n}
TheNamed(projections, n) ==
  IF Named(projections, n) = {} THEN NoPackage ELSE CHOOSE p \in Named(projections, n) : TRUE

(* prepareDesired, prepareCurrent.                                         *)
DuplicateActivation(projections) ==
  \E p, q \in DOMAIN projections : p # q /\ projections[p].name = projections[q].name

DetachedIn(current) == {p \in DOMAIN current : current[p].owner = "detached"}
ManagedIn(current) == DOMAIN current \ DetachedIn(current)

(* managedMismatchReason, for what is there under p's name.                *)
Mismatch(current, observed, p) ==
  LET seen == observed[current[p].name] IN
  seen # Observation(p, current[p].view, current[p].mat, TRUE)

DetachedAction(desired, current, observed, p) ==
  LET n == current[p].name
      bound == p \notin DOMAIN desired \/ desired[p].name = n
  IN [name |-> n, from |-> p, to |-> IF p \in DOMAIN desired THEN p ELSE NoPackage,
      action |-> IF n \in DOMAIN observed /\ bound
                   THEN "preserve-user" ELSE "preserve-broken-binding"]

ManagedAction(desired, current, observed, p) ==
  LET n == current[p].name
      to == TheNamed(desired, n)
      same == to = p /\ desired[p].view = current[p].view
  IN [name |-> n, from |-> p, to |-> to,
      action |-> CASE n \notin DOMAIN observed /\ to = NoPackage -> "drop-missing"
                   [] n \notin DOMAIN observed /\ to # NoPackage -> "materialize"
                   [] n \in DOMAIN observed /\ to = NoPackage -> "remove"
                   [] n \in DOMAIN observed /\ same -> "keep"
                   [] OTHER -> "replace"]

(* Desired projections under names that no managed projection has now.     *)
Fresh(desired, current) ==
  {q \in DOMAIN desired \ DetachedIn(current) :
     \A p \in ManagedIn(current) : current[p].name # desired[q].name}

(* A name to be used that is taken by a detached projection or by anything *)
(* that no projection accounts for.                                        *)
ForeignConflict(desired, current, observed) ==
  \E q \in Fresh(desired, current) :
     \/ \E p \in DetachedIn(current) : current[p].name = desired[q].name
     \/ Named(current, desired[q].name) = {} /\ desired[q].name \in DOMAIN observed

ModifiedConflict(desired, current, observed) ==
  \E p \in ManagedIn(current) :
    current[p].name \in DOMAIN observed /\ Mismatch(current, observed, p)

PreflightOk(desired, current, observed) ==
  /\ ~DuplicateActivation(desired)
  /\ ~DuplicateActivation(current)
  /\ ~ModifiedConflict(desired, current, observed)
  /\ ~ForeignConflict(desired, current, observed)

PreflightActions(desired, current, observed) ==
  {DetachedAction(desired, current, observed, p) : p \in DetachedIn(current)}
    \cup {ManagedAction(desired, current, observed, p) : p \in ManagedIn(current)}
    \cup {[name |-> desired[q].name, from |-> NoPackage, to |-> q, action |-> "materialize"] :
            q \in {q \in Fresh(desired, current) : Named(current, desired[q].name) = {}}}

=============================================================================
