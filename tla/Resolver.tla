------------------------------ MODULE Resolver ------------------------------
(***************************************************************************)
(* How requirements become a graph of exact packages: propagation and the  *)
(* search with backtracking (src/src/domain/resolver/).                    *)
(*                                                                         *)
(* A requirement is [kind, at, source, want]: want is a git ref, the set   *)
(* of admissible versions, or AnyVersion.  A snapshot maps its packages to *)
(* functions from the packages they depend on to the sets of versions they *)
(* admit.  A release is [version, rank, stable, tag, commit, immutable,    *)
(* draft, snapshot]; versions of one rank differ in build metadata only.   *)
(* A binding is [source, version, commit, tag, rank, immutable, snapshot], *)
(* where the version of a git source is its ref.  ReleaseRequirements says *)
(* which versions a requirement admits.                                    *)
(***************************************************************************)
EXTENDS ExactTransfer

CONSTANTS Repository,
          Order,          \* of repositories, by their names
          AnyVersion      \* a release requirement without a version

ASSUME RepositoryAssumption ==
  /\ IsFiniteSet(Package) /\ IsFiniteSet(Repository)
  /\ RepositoryOf \in [Package -> Repository] /\ Order \in [Repository -> Nat]

----------------------------------------------------------------------------
(* propagateResolverState.  bindings maps repositories to bindings.        *)

Claim(req) == <<req.source, IF req.source = "git" THEN req.want ELSE AnyVersion>>
BindingClaim(b) == <<b.source, IF b.source = "git" THEN b.version ELSE AnyVersion>>

(* findSourceConflict.                                                     *)
SourceConflict(reqs, bindings) ==
  \/ \E r, s \in reqs : RepositoryAt(r) = RepositoryAt(s) /\ Claim(r) # Claim(s)
  \/ \E r \in reqs : /\ RepositoryAt(r) \in DOMAIN bindings
                     /\ Claim(r) # BindingClaim(bindings[RepositoryAt(r)])

ExplicitGit(reqs, bindings) ==
  {RepositoryAt(r) : r \in {r \in reqs : r.source = "git"}}
    \cup {repo \in DOMAIN bindings : bindings[repo].source = "git"}

(* A required package whose repository is bound is expanded.               *)
Expandable(p, bindings) ==
  /\ RepositoryOf[p] \in DOMAIN bindings
  /\ p \in DOMAIN bindings[RepositoryOf[p]].snapshot

Depends(p, bindings) == bindings[RepositoryOf[p]].snapshot[p]

Wide(reqs) == {r.at : r \in {r \in reqs : r.kind = "repository"}}

RootPackages(reqs, bindings) ==
  {r.at : r \in {r \in reqs : r.kind = "package"}}
    \cup UNION {DOMAIN bindings[repo].snapshot : repo \in Wide(reqs) \cap DOMAIN bindings}

(* With what expanding them requires.                                      *)
Grown(packages, bindings) ==
  packages \cup UNION {DOMAIN Depends(p, bindings) :
                         p \in {p \in packages : Expandable(p, bindings)}}

(* The roots, then what expanding them requires, until nothing is new.     *)
Required(reqs, bindings) ==
  LET Pass[i \in 0..Cardinality(Package)] ==
        IF i = 0 THEN RootPackages(reqs, bindings) ELSE Grown(Pass[i - 1], bindings)
  IN Pass[Cardinality(Package)]

Expanded(reqs, bindings) == {p \in Required(reqs, bindings) : Expandable(p, bindings)}

PackageMissing(reqs, bindings) ==
  \E p \in Required(reqs, bindings) :
     RepositoryOf[p] \in DOMAIN bindings /\ ~Expandable(p, bindings)

Edges(reqs, bindings) ==
  {e \in Expanded(reqs, bindings) \X Package : e[2] \in DOMAIN Depends(e[1], bindings)}

(* addConstraint: what is asked for directly, and what packages ask of     *)
(* repositories that are not taken from git.                               *)
Constraints(reqs, bindings, repo) ==
  {r.want : r \in {r \in reqs : /\ RepositoryAt(r) = repo
                                /\ r.source = "release" /\ r.want # AnyVersion}}
    \cup IF repo \in ExplicitGit(reqs, bindings) THEN {}
         ELSE {Depends(e[1], bindings)[e[2]] :
                 e \in {e \in Edges(reqs, bindings) : RepositoryOf[e[2]] = repo}}

Unresolved(reqs, bindings) ==
  (Wide(reqs) \cup {RepositoryOf[p] : p \in Required(reqs, bindings)}) \ DOMAIN bindings

(* validateAssignedReleaseBindings: constraints that came after a choice.  *)
AssignedOk(reqs, bindings) ==
  \A repo \in DOMAIN bindings :
    bindings[repo].source = "release" =>
      \A want \in Constraints(reqs, bindings, repo) : bindings[repo].version \in want

----------------------------------------------------------------------------
(* buildReleaseCandidateGroups: without any requirement only stable        *)
(* versions are eligible.                                                  *)
Eligible(releases, wants) ==
  {c \in releases : ~c.draft /\ IF wants = {} THEN c.stable ELSE \A w \in wants : c.version \in w}

AmbiguousVersion(eligible) == \E c, d \in eligible : c # d /\ c.version = d.version

(* The candidates from the highest down: those with one rank are a group.  *)
Group(eligible, rank) == {c \in eligible : c.rank = rank}

BindingOf(c) ==
  [source |-> "release", version |-> c.version, commit |-> c.commit, tag |-> c.tag, rank |-> c.rank,
   immutable |-> c.immutable,
   snapshot |-> c.snapshot]

Graph(reqs, bindings) ==
  [bindings |-> bindings, packages |-> Expanded(reqs, bindings), edges |-> Edges(reqs, bindings)]

(* Which error is reported is left out.                                    *)
Failed == [ok |-> FALSE]
Found(graph) == [ok |-> TRUE, graph |-> graph]

FirstOf(repos) == CHOOSE r \in repos : \A s \in repos : Order[r] <= Order[s]

With(bindings, repo, binding) ==
  [r \in DOMAIN bindings \cup {repo} |-> IF r = repo THEN binding ELSE bindings[r]]

(* Mutant: a candidate whose branch fails is not replaced by an older one. *)
FirstAttempt(eligible, attempts) ==
  LET last == {x \in attempts : \A y \in attempts : y.of.rank <= x.of.rank}
  IN IF Cardinality(last) = 1 THEN (CHOOSE x \in last : TRUE).result ELSE Failed

(* The loop of searchBranch over the groups of candidates, highest first:  *)
(* it ends with the first group that is ambiguous or whose branch succeeds.*)
(* An attempt is a candidate with the result of its branch.                *)
FirstSuccess(eligible, attempts) ==
  LET ends(x) == x.result.ok \/ Cardinality(Group(eligible, x.of.rank)) > 1
      last == {x \in attempts :
                 ends(x) /\ \A y \in attempts : ends(y) => y.of.rank <= x.of.rank}
  IN IF Cardinality(last) = 1 THEN (CHOOSE x \in last : TRUE).result ELSE Failed

(* searchBranch; search maps bindings to what their branches give.         *)
SearchBranch(reqs, sources, search, bindings) ==
  LET unresolved == Unresolved(reqs, bindings)
      repo == FirstOf(unresolved)
      eligible == Eligible(sources[repo], Constraints(reqs, bindings, repo))
      attempts == {[of |-> c, result |-> search[With(bindings, repo, BindingOf(c))]] : c \in eligible}
  IN IF \/ SourceConflict(reqs, bindings) \/ PackageMissing(reqs, bindings)
        \/ ~AssignedOk(reqs, bindings)
       THEN Failed
     ELSE IF unresolved = {} THEN Found(Graph(reqs, bindings))
     ELSE IF repo \notin DOMAIN sources \/ AmbiguousVersion(eligible) THEN Failed
     ELSE FirstSuccess(eligible, attempts)

(* What repositories may be bound to.                                      *)
Bindings(sources, git) ==
  LET releases == UNION {sources[repo] : repo \in DOMAIN sources}
      values == {git[repo] : repo \in DOMAIN git} \cup {BindingOf(c) : c \in releases}
  IN UNION {[repos -> values] : repos \in SUBSET Repository}

(* resolveTargetGraph: sources maps repositories to their releases, git to *)
(* the bindings of the refs that are asked for.                            *)
ResolveTargetGraph(reqs, sources, git) ==
  LET Search[bindings \in Bindings(sources, git)] == SearchBranch(reqs, sources, Search, bindings)
  IN Search[git]

----------------------------------------------------------------------------
(* The reference: what a solution is, whatever finds it.                   *)

Admits(want, binding) == binding.source = "git" \/ want = AnyVersion \/ binding.version \in want

Solves(reqs, bindings, packages) ==
  /\ \A r \in reqs :
       /\ RepositoryAt(r) \in DOMAIN bindings
       /\ Claim(r) = BindingClaim(bindings[RepositoryAt(r)])
       /\ IF r.kind = "package" THEN {r.at} \subseteq packages
                                ELSE DOMAIN bindings[r.at].snapshot \subseteq packages
       /\ r.source = "git" \/ Admits(r.want, bindings[RepositoryAt(r)])
  /\ \A p \in packages :
       /\ Expandable(p, bindings)
       /\ \A q \in DOMAIN Depends(p, bindings) :
            q \in packages /\ Expandable(q, bindings)
              /\ Admits(Depends(p, bindings)[q], bindings[RepositoryOf[q]])

(* What can be required of bindings.                                       *)
Offered(bindings) == UNION {DOMAIN bindings[repo].snapshot : repo \in DOMAIN bindings}

(* What repositories can be bound to with stable releases, beside git.     *)
StableChoices(sources, git) ==
  LET free == DOMAIN sources \ DOMAIN git
      stable(repo) == {BindingOf(c) : c \in {c \in sources[repo] : c.stable /\ ~c.draft}}
      some == {repo \in free : stable(repo) # {}}
  IN {[repo \in DOMAIN git \cup some |-> IF repo \in some THEN choice[repo] ELSE git[repo]] :
        choice \in {f \in [some -> UNION {stable(repo) : repo \in some}] :
                      \A repo \in some : f[repo] \in stable(repo)}}

Ambiguous(sources) ==
  \E repo \in DOMAIN sources : \E c, d \in sources[repo] :
    c # d /\ ~c.draft /\ ~d.draft /\ c.rank = d.rank

(* What is found solves the requirements with releases that are no drafts, *)
(* contains nothing that is not required, and records every dependency.    *)
FindsASolution(reqs, sources, git) ==
  LET found == ResolveTargetGraph(reqs, sources, git)
      g == found.graph
      from(p) == {q \in Package : <<p, q>> \in g.edges}
  IN found.ok =>
       /\ Solves(reqs, g.bindings, g.packages)
       /\ \A p \in g.packages : from(p) = DOMAIN Depends(p, g.bindings)
       /\ \A packages \in (SUBSET g.packages) \ {g.packages} : ~Solves(reqs, g.bindings, packages)
       /\ \A repo \in DOMAIN g.bindings \ DOMAIN git :
            \E c \in sources[repo] : ~c.draft /\ BindingOf(c) = g.bindings[repo]

(* When nothing is ambiguous, a solution is found if there is one, and no  *)
(* solution has a newer release of the repository that was decided first.  *)
FindsTheNewest(reqs, sources, git) ==
  LET found == ResolveTargetGraph(reqs, sources, git)
      solutions == {b \in StableChoices(sources, git) :
                      \E packages \in SUBSET Offered(b) : Solves(reqs, b, packages)}
      first == FirstOf(Unresolved(reqs, git))
  IN ~Ambiguous(sources) =>
       /\ solutions # {} => found.ok
       /\ (found.ok /\ Unresolved(reqs, git) # {}) =>
            \A b \in solutions : b[first].rank <= found.graph.bindings[first].rank
=============================================================================
