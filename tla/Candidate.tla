----------------------------- MODULE Candidate -----------------------------
(***************************************************************************)
(* A candidate for a target's next state: which sources are fetched and    *)
(* what is resolved from them                                              *)
(* (src/src/runtime/orchestration/lifecycle-candidate.ts).  Acceptance     *)
(* says how it differs from the accepted state and who has to agree.       *)
(***************************************************************************)
EXTENDS Resolver

CONSTANT ContentAt   \* the content of a package at a commit of its repository

----------------------------------------------------------------------------
(* computeLifecycleCandidate.  world maps repositories to their releases,  *)
(* refs maps those that have it to the binding of the ref asked for, and   *)
(* reachable are the repositories that answer.                             *)

DirectSources(reqs, source) == {RepositoryAt(r) : r \in {r \in reqs : r.source = source}}

SnapshotDependencies(snapshot) ==
  {RepositoryOf[q] : q \in UNION {DOMAIN snapshot[p] : p \in DOMAIN snapshot}}

(* allKnownDependencyRepositories.                                         *)
KnownDependencies(world, sources, git) ==
  UNION ({SnapshotDependencies(c.snapshot) : c \in UNION {world[r] : r \in sources}}
           \cup {SnapshotDependencies(git[r].snapshot) : r \in DOMAIN git})

(* prefetchReachableReleaseSources: every repository a known snapshot      *)
(* depends on is tried once; one that does not answer is left out.         *)
Fetched(world, reachable, sources, git) ==
  sources \cup ((KnownDependencies(world, sources, git) \cap reachable) \ DOMAIN git)

Prefetched(world, reachable, direct, git) ==
  LET Round[i \in 0..Cardinality(Repository)] ==
        IF i = 0 THEN direct ELSE Fetched(world, reachable, Round[i - 1], git)
  IN Round[Cardinality(Repository)]

RestrictTo(f, repos) == [r \in repos |-> f[r]]

(* Direct requirements must agree, and their repositories must answer.     *)
AcquireOk(reqs, refs, reachable) ==
  /\ ~SourceConflict(reqs, <<>>)
  /\ DirectSources(reqs, "release") \subseteq reachable
  /\ DirectSources(reqs, "git") \subseteq reachable \cap DOMAIN refs

(* The bindings of the refs that are asked for.                            *)
GitOf(reqs, refs) == RestrictTo(refs, DirectSources(reqs, "git"))

Resolved(reqs, world, refs, reachable) ==
  LET git == GitOf(reqs, refs)
      sources == Prefetched(world, reachable, DirectSources(reqs, "release"), git)
  IN IF AcquireOk(reqs, refs, reachable)
       THEN ResolveTargetGraph(reqs, RestrictTo(world, sources), git)
       ELSE Failed

(* What the registry would hold of a graph.                                *)
Source(b) ==
  IF b.source = "git" THEN [source |-> "git", version |-> b.version, commit |-> b.commit]
  ELSE [source |-> "release", version |-> b.version, tag |-> b.tag, commit |-> b.commit,
        immutable |-> b.immutable]

StateOf(reqs, graph) ==
  [reqs |-> reqs,
   sources |-> [r \in DOMAIN graph.bindings |-> Source(graph.bindings[r])],
   packages |-> [p \in graph.packages |->
                   ContentAt[<<p, graph.bindings[RepositoryOf[p]].commit>>]],
   edges |-> graph.edges]

----------------------------------------------------------------------------
(* What upstream and users give: requirements of packages and repositories,*)
(* in each repository releases of its own packages, of which one version   *)
(* has one rank, and bindings for its refs.                                *)

WholeSnapshot(repo, snapshot) ==
  /\ DOMAIN snapshot \subseteq {p \in Package : RepositoryOf[p] = repo}
  /\ \A p \in DOMAIN snapshot :
       /\ DOMAIN snapshot[p] \subseteq Package
       /\ \A q \in DOMAIN snapshot[p] : snapshot[p][q] # AnyVersion

WholeReleases(repo, releases) ==
  /\ IsFiniteSet(releases)
  /\ \A c \in releases :
       /\ c.rank \in Nat /\ WholeSnapshot(repo, c.snapshot)
       /\ \A d \in releases : c.version = d.version => c.rank = d.rank

WholeWorld(world, refs) ==
  /\ DOMAIN world = Repository /\ DOMAIN refs \subseteq Repository
  /\ \A repo \in Repository : WholeReleases(repo, world[repo])
  /\ \A repo \in DOMAIN refs :
       refs[repo].source = "git" /\ WholeSnapshot(repo, refs[repo].snapshot)

WholeRequest(reqs) ==
  \A r \in reqs : /\ r.kind \in {"package", "repository"} /\ r.source \in {"release", "git"}
                  /\ r.at \in IF r.kind = "package" THEN Package ELSE Repository

----------------------------------------------------------------------------
(* Fetching only what snapshots lead to loses nothing: the answer is the   *)
(* same as with every repository that answers, and one that does not       *)
(* answer matters only when no solution can do without it.                 *)
PrefetchLosesNothing(reqs, world, refs, reachable) ==
  LET git == GitOf(reqs, refs)
  IN AcquireOk(reqs, refs, reachable) =>
       Resolved(reqs, world, refs, reachable)
         = ResolveTargetGraph(reqs, RestrictTo(world, reachable \ DOMAIN git), git)
=============================================================================
