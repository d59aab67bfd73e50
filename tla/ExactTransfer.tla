--------------------------- MODULE ExactTransfer ---------------------------
(***************************************************************************)
(* What an exact export says of a target, what an import makes of it, and  *)
(* what the merge into another target's state is (src/src/runtime/export/, *)
(* runtime/import/prepare.ts, merge-plan.ts, domain/export-package/).      *)
(* Everything here is pure; ImportLifecycle carries it out.                *)
(*                                                                         *)
(* The facts of a target: requirements [kind, at, source, want], where     *)
(* want is a git ref or the set of admissible versions; sources, from      *)
(* repositories to [source, version, tag, commit, immutable] of a release  *)
(* or [source, version, commit] of a git ref, its version; packages to     *)
(* content digests; edges; projections [name, owner, mat, view]; baselines *)
(* of detached packages.                                                   *)
(* The bytes of payloads and the encoding of the file are left out: a      *)
(* payload that is not what its digest says is refused when it is parsed.  *)
(***************************************************************************)
EXTENDS TargetPlan

CONSTANTS RepositoryOf,   \* the repository in a package's coordinate
          DeclaredBy,     \* the dependencies in the metadata of a content digest
          Ref             \* git refs

RepositoryAt(req) == IF req.kind = "package" THEN RepositoryOf[req.at] ELSE req.at

(* planLifecycleTarget: a repository stands for each of its packages.      *)
Roots(reqs, packages) ==
  {p \in packages : \E req \in reqs : req.at = IF req.kind = "package" THEN p ELSE RepositoryOf[p]}

Renames(names) == {<<p, names[p]>> : p \in {p \in DOMAIN names : names[p] # Default[p]}}

NamesIn(projections) == [p \in DOMAIN projections |-> projections[p].name]

FactsPlanOk(facts, names) ==
  LET packages == DOMAIN facts.packages
  IN PlanOk(packages, facts.edges, Roots(facts.reqs, packages), Renames(names))

FactsPlan(facts, names) ==
  LET packages == DOMAIN facts.packages
  IN PlanProjections(packages, facts.edges, Roots(facts.reqs, packages), Renames(names))

(* sameProjectionFacts: the plan gives every recorded name and no other.   *)
SameNames(plan, names) == [p \in DOMAIN plan |-> plan[p].name] = names

----------------------------------------------------------------------------
(* prepareManagedExactExport, exportManagedDependencies, exportFullTarget; *)
(* userContent maps the names of the user's directories to their digests.  *)
FullExportOk(facts, userContent) ==
  /\ DOMAIN facts.baselines = DetachedIn(facts.projections)
  /\ \A p \in DOMAIN facts.baselines : facts.projections[p].name \in DOMAIN userContent

Export(mode, facts, userContent) ==
  [mode |-> mode, reqs |-> facts.reqs,
   sources |-> [r \in DOMAIN facts.sources |->
                  IF facts.sources[r].source = "git"
                    THEN [facts.sources[r] EXCEPT !.version = "none"] ELSE facts.sources[r]],
   packages |-> facts.packages, edges |-> facts.edges,
   names |-> NamesIn(facts.projections),
   detached |-> IF mode = "full" THEN facts.baselines ELSE <<>>,
   skills |-> IF mode = "full"
                THEN DOMAIN userContent
                       \ {facts.projections[p].name : p \in DOMAIN facts.projections}
                ELSE {}]

(* validateExactExportManifestCrossRecords, on writing and on reading.     *)
ManifestOk(m) ==
  LET packages == DOMAIN m.packages
      repositories == {RepositoryOf[p] : p \in packages}
      refs(r) == {req.want : req \in {req \in m.reqs : RepositoryAt(req) = r}}
  IN /\ repositories \subseteq DOMAIN m.sources
     /\ DOMAIN m.names = packages
     /\ \A e \in m.edges : e[1] \in packages /\ e[2] \in packages
     /\ \A req \in m.reqs :
          /\ req.kind = "package" => req.at \in packages
          /\ RepositoryAt(req) \in DOMAIN m.sources
          /\ req.source = m.sources[RepositoryAt(req)].source
          /\ req.source = "release" => m.sources[RepositoryAt(req)].version \in req.want
     /\ DOMAIN m.detached \subseteq packages
     /\ m.skills \cap {m.names[p] : p \in packages} = {}
     /\ Reachable(m.edges, Roots(m.reqs, packages)) = packages
     /\ DOMAIN m.sources \subseteq repositories \cup {RepositoryAt(req) : req \in m.reqs}
     /\ \A r \in DOMAIN m.sources : m.sources[r].source = "git" => Cardinality(refs(r)) = 1

(* projectionMaterialization, projectionTransformJson.                     *)
Planned(plan, p, owner) ==
  [name |-> plan[p].name, owner |-> owner, view |-> plan[p],
   mat |-> IF owner = "managed" /\ Direct(p, plan[p]) THEN "link" ELSE "copy"]

(* prepareExactImport: the plan gives the recorded names, and every        *)
(* package depends on what its own metadata declares.                      *)
ImportOk(m) ==
  /\ ManifestOk(m)
  /\ FactsPlanOk(m, m.names)
  /\ SameNames(FactsPlan(m, m.names), m.names)
  /\ \A p \in DOMAIN m.packages :
       {e[2] : e \in {e \in m.edges : e[1] = p}} = DeclaredBy[m.packages[p]]

(* registrySources takes the ref of a git source from a requirement.       *)
ImportedFacts(m) ==
  LET plan == FactsPlan(m, m.names)
      ref(r) == (CHOOSE req \in m.reqs : RepositoryAt(req) = r).want
  IN [reqs |-> m.reqs,
      sources |-> [r \in DOMAIN m.sources |->
                     IF m.sources[r].source = "git"
                       THEN [m.sources[r] EXCEPT !.version = ref(r)] ELSE m.sources[r]],
      packages |-> m.packages, edges |-> m.edges,
      projections |-> [p \in DOMAIN m.names |->
                         Planned(plan, p, IF p \in DOMAIN m.detached
                                            THEN "detached" ELSE "managed")],
      baselines |-> m.detached]

----------------------------------------------------------------------------
(* prepareExactMergeFacts.                                                 *)

Agree(f, g, same(_, _)) == \A x \in DOMAIN f \cap DOMAIN g : same(f[x], g[x])
Equal(x, y) == x = y
(* The first of two functions wins where both are defined.                 *)
Beside(f, g) == [x \in DOMAIN f \cup DOMAIN g |-> IF x \in DOMAIN f THEN f[x] ELSE g[x]]

(* mergeRequirements.                                                      *)
RequirementsAgree(reqs) ==
  \A r, s \in reqs : (r.kind = s.kind /\ r.at = s.at) => r = s

(* compatibleSource: all but what is known of a release's immutability.    *)
CompatibleSource(s, t) ==
  /\ s.source = t.source /\ s.version = t.version /\ s.commit = t.commit
  /\ s.source = "release" => s.tag = t.tag

MergedSource(s, t) ==
  IF s.source = "release" /\ s.immutable = "unknown"
    THEN [s EXCEPT !.immutable = t.immutable] ELSE s

(* mergeSources.                                                           *)
MergedSources(current, imported) ==
  [r \in DOMAIN current \cup DOMAIN imported |->
     CASE r \notin DOMAIN imported -> current[r]
       [] r \notin DOMAIN current -> imported[r]
       [] OTHER -> MergedSource(current[r], imported[r])]

(* mergeEdges.                                                             *)
EdgesAgree(current, imported) ==
  \A p \in DOMAIN current.packages \cap DOMAIN imported.packages :
    {e \in current.edges : e[1] = p} = {e \in imported.edges : e[1] = p}

(* Mutant: the import may detach what is managed.                          *)
SameNamesAgree(current, imported) ==
  LET both == Beside(current, imported) IN
  /\ \A p \in DOMAIN current \cap DOMAIN imported : current[p].name = imported[p].name
  /\ ~DuplicateActivation(both)

(* mergeProjectionFacts.                                                   *)
ProjectionsAgree(current, imported) ==
  /\ \A p \in DOMAIN current \cap DOMAIN imported :
       /\ current[p].name = imported[p].name
       /\ ~(current[p].owner = "managed" /\ imported[p].owner = "detached")
  /\ ~DuplicateActivation(Beside(current, imported))

(* ownedProjections: every projection there is, even a detached one, has   *)
(* the view that is planned now.                                           *)
CurrentOwned(current) ==
  LET names == NamesIn(current.projections)
      plan == FactsPlan(current, names)
  IN /\ FactsPlanOk(current, names)
     /\ \A p \in DOMAIN current.projections :
          p \in DOMAIN plan /\ plan[p] = current.projections[p].view

MergedNames(current, imported) ==
  NamesIn(Beside(current.projections, imported.projections))

Joined(current, imported) ==
  [reqs |-> current.reqs \cup imported.reqs,
   packages |-> Beside(current.packages, imported.packages),
   edges |-> current.edges \cup imported.edges]

MergeOk(current, imported) ==
  LET joined == Joined(current, imported)
      names == MergedNames(current, imported)
  IN /\ CurrentOwned(current)
     /\ RequirementsAgree(joined.reqs)
     /\ Agree(current.sources, imported.sources, CompatibleSource)
     /\ Agree(current.packages, imported.packages, Equal)
     /\ EdgesAgree(current, imported)
     /\ ProjectionsAgree(current.projections, imported.projections)
     /\ DetachedIn(current.projections) \subseteq DOMAIN current.baselines
     /\ Agree(current.baselines, imported.baselines, Equal)
     /\ FactsPlanOk(joined, names)
     /\ SameNames(FactsPlan(joined, names), names)

(* nextProjections: detached stays as it is, an imported detached package  *)
(* is detached only if it is new.                                          *)
MergedFacts(current, imported) ==
  LET joined == Joined(current, imported)
      plan == FactsPlan(joined, MergedNames(current, imported))
      old == current.projections
      imports(p) == p \in DetachedIn(imported.projections)
      kept(p) == [Planned(plan, p, "managed")
                  EXCEPT !.mat = IF Direct(p, plan[p]) THEN old[p].mat ELSE @]
  IN [reqs |-> joined.reqs,
      sources |-> MergedSources(current.sources, imported.sources),
      packages |-> joined.packages, edges |-> joined.edges,
      projections |-> [p \in DOMAIN plan |->
         IF p \in DOMAIN old
           THEN IF old[p].owner = "detached" THEN old[p] ELSE kept(p)
           ELSE Planned(plan, p, IF imports(p) THEN "detached" ELSE "managed")],
      baselines |-> Beside(imported.baselines, current.baselines)]

----------------------------------------------------------------------------
(* acceptedTargetPlan finds every projection of the facts again.           *)
Reproducible(facts) ==
  LET names == NamesIn(facts.projections)
      plan == FactsPlan(facts, names)
  IN /\ FactsPlanOk(facts, names)
     /\ \A p \in DOMAIN facts.projections :
          /\ p \in DOMAIN plan /\ plan[p].name = names[p]
          /\ facts.projections[p].owner = "managed" => plan[p] = facts.projections[p].view

(* A source as the registry holds it.                                      *)
SourceRow(s) ==
  s = IF s.source = "git"
        THEN [source |-> "git", version |-> s.version, commit |-> s.commit]
        ELSE [source |-> "release", version |-> s.version, tag |-> s.tag,
              commit |-> s.commit, immutable |-> s.immutable]

RequirementRow(req) ==
  /\ \/ req.kind = "package" /\ req.at \in Package
     \/ req.kind = "repository" /\ req.at \in {RepositoryOf[p] : p \in Package}
  /\ \/ req.source = "git" /\ req.want \in Ref
     \/ req.source = "release" /\ req.want \notin Ref

(* What resolution gives: everything that is required has a source of the  *)
(* kind and ref that is asked for, and everything there is is required.    *)
GraphFits(facts) ==
  LET packages == DOMAIN facts.packages
      repositories == {RepositoryOf[p] : p \in packages}
      required == {RepositoryAt(req) : req \in facts.reqs}
      source(req) == facts.sources[RepositoryAt(req)]
  IN /\ packages \subseteq Package /\ facts.edges \subseteq packages \X packages
     /\ \A req \in facts.reqs : req.kind = "package" => req.at \in packages
     /\ repositories \cup required = DOMAIN facts.sources
     /\ \A r \in DOMAIN facts.sources :
          /\ SourceRow(facts.sources[r])
          /\ facts.sources[r].source = "git" => r \in required
     /\ \A req \in facts.reqs :
          /\ RequirementRow(req) /\ req.source = source(req).source
          /\ req.source = "git" => req.want = source(req).version
     /\ Reachable(facts.edges, Roots(facts.reqs, packages)) = packages

(* A projection as the registry holds it: what is not a copy is a link to  *)
(* the package itself.                                                     *)
ProjectionRow(p, x) ==
  /\ x = [name |-> x.name, owner |-> x.owner, view |-> x.view, mat |-> x.mat]
  /\ x.name \in Name /\ x.owner \in {"managed", "detached"} /\ x.mat \in {"link", "copy"}
  /\ x.mat = "link" => x.owner = "managed" /\ Direct(p, x.view)

IsFunction(f) == f = [x \in DOMAIN f |-> f[x]]

(* An accepted state from which no projection was forgotten.               *)
WholeFacts(facts) ==
  LET packages == DOMAIN facts.packages IN
  /\ GraphFits(facts) /\ IsFiniteSet(facts.reqs) /\ IsFiniteSet(packages)
  /\ RequirementsAgree(facts.reqs)
  /\ \A req \in facts.reqs :
       req.source = "release" => facts.sources[RepositoryAt(req)].version \in req.want
  /\ \A p \in packages :
       {e[2] : e \in {e \in facts.edges : e[1] = p}} = DeclaredBy[facts.packages[p]]
  /\ DOMAIN facts.projections = packages /\ Reproducible(facts)
  /\ \A p \in packages : ProjectionRow(p, facts.projections[p])
  /\ DOMAIN facts.baselines = DetachedIn(facts.projections)
  /\ \A field \in {"sources", "packages", "projections", "baselines"} : IsFunction(facts[field])

(* A whole target can be exported, and what an import makes of the export  *)
(* is the same target: requirements, sources with their refs, packages,    *)
(* graph and names; a full one keeps what is detached and its baseline.    *)
RoundTrip(mode, facts, userContent) ==
  LET m == Export(mode, facts, userContent)
      again == ImportedFacts(m)
  IN (mode = "full" => FullExportOk(facts, userContent)) =>
       /\ ImportOk(m)
       /\ \A field \in {"reqs", "sources", "packages", "edges"} : again[field] = facts[field]
       /\ NamesIn(again.projections) = NamesIn(facts.projections)
       /\ mode = "full" => /\ again.baselines = facts.baselines
                           /\ DetachedIn(again.projections) = DetachedIn(facts.projections)
       /\ WholeFacts(again)

(* A merge of whole targets only adds: every requirement, source, package  *)
(* and projection of the target stays as it was, what is detached keeps    *)
(* its baseline, and the result is whole again.                            *)
MergeOnlyAdds(current, imported) ==
  MergeOk(current, imported) =>
    LET merged == MergedFacts(current, imported) IN
    /\ current.reqs \subseteq merged.reqs /\ current.edges \subseteq merged.edges
    /\ \A r \in DOMAIN current.sources : CompatibleSource(current.sources[r], merged.sources[r])
    /\ \A p \in DOMAIN current.packages : merged.packages[p] = current.packages[p]
    /\ \A p \in DOMAIN current.projections : merged.projections[p] = current.projections[p]
    /\ \A p \in DOMAIN current.baselines : merged.baselines[p] = current.baselines[p]
    /\ WholeFacts(merged)
=============================================================================
