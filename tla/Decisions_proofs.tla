-------------------------- MODULE Decisions_proofs --------------------------
(* Proofs about the pure decisions, for every whole target, every resolved *)
(* state, every marker file and every requirement.                         *)
EXTENDS Decisions, FiniteSetTheorems, WellFoundedInduction, TLAPS

----------------------------------------------------------------------------
(* The planner.                                                            *)

(* The renames that are read off recorded names give these names again.    *)
LEMMA RenamesGiveNames ==
  ASSUME NEW names, NEW p \in DOMAIN names
  PROVE  ActivationOf(Renames(names), p) = names[p]
<1>1. CASE names[p] # Default[p]
  <2>1. \A r \in Renames(names) : r[1] = p => r = <<p, names[p]>>
    BY DEF Renames
  <2>2. <<p, names[p]>> \in Renames(names)
    BY <1>1 DEF Renames
  <2>3. (CHOOSE r \in Renames(names) : r[1] = p) = <<p, names[p]>>
    BY <2>1, <2>2
  <2>4. \E r \in Renames(names) : r[1] = p
    BY <2>2
  <2> DEFINE rename == CHOOSE r \in Renames(names) : r[1] = p
  <2>5. ActivationOf(Renames(names), p) = rename[2]
    BY <2>4, Zenon DEF ActivationOf
  <2>6. rename = <<p, names[p]>>
    BY <2>3
  <2> HIDE DEF rename
  <2>. QED BY <2>5, <2>6
<1>2. CASE names[p] = Default[p]
  <2>1. ~\E r \in Renames(names) : r[1] = p
    BY <1>2 DEF Renames
  <2>. QED BY <1>2, <2>1 DEF ActivationOf
<1>. QED BY <1>1, <1>2

(* What the planner reaches from the requirements of a target.             *)
Reached(facts) == Reachable(facts.edges, Roots(facts.reqs, DOMAIN facts.packages))

(* Where every name is that of a package that is reached, the plan has the *)
(* views of these names, and no two names are the same.                    *)
LEMMA PlanOfNames ==
  ASSUME NEW facts, NEW names, IsFunction(names), DOMAIN names = Reached(facts)
  PROVE  /\ FactsPlan(facts, names) = [p \in DOMAIN names |-> ViewOf(facts.edges, names, p)]
         /\ FactsPlanOk(facts, names) =>
              \A p, q \in DOMAIN names : names[p] = names[q] => p = q
<1> DEFINE renames == Renames(names)
<1>1. [p \in Reached(facts) |-> ActivationOf(renames, p)] = names
  BY RenamesGiveNames DEF IsFunction
<1>2. FactsPlan(facts, names) = [p \in DOMAIN names |-> ViewOf(facts.edges, names, p)]
  BY <1>1 DEF FactsPlan, PlanProjections, Reached
<1>3. FactsPlanOk(facts, names) => ~ActivationConflict(names)
  BY <1>1 DEF FactsPlanOk, PlanOk, Reached
<1>. QED BY <1>2, <1>3 DEF ActivationConflict

(* A view has its name, and its routes go to renamed packages.             *)
LEMMA ViewFields ==
  ASSUME NEW edges, NEW names, NEW p
  PROVE  /\ ViewOf(edges, names, p).name = names[p]
         /\ \A r \in ViewOf(edges, names, p).routes :
              \E q \in DOMAIN names : r = <<q, names[q]>> /\ names[q] # Default[q]
<1>1. ViewOf(edges, names, p).name = names[p]
  BY DEF ViewOf
<1>2. ViewOf(edges, names, p).routes =
        {<<q, names[q]>> : q \in {q \in DOMAIN names :
                                    <<p, q>> \in edges /\ names[q] # Default[q]}}
  BY DEF ViewOf
<1>. QED BY <1>1, <1>2

(* The plan of a whole target is what it shows, but for detached views.    *)
ShowsItsPlan(facts) ==
  LET names == NamesIn(facts.projections)
  IN /\ IsFunction(names) /\ DOMAIN names = DOMAIN facts.packages
     /\ \A p \in DOMAIN names : names[p] = facts.projections[p].name
     /\ DOMAIN names = Reached(facts)
     /\ FactsPlanOk(facts, names)
     /\ FactsPlan(facts, names) = [p \in DOMAIN names |-> ViewOf(facts.edges, names, p)]
     /\ \A p \in ManagedIn(facts.projections) :
          facts.projections[p].view = ViewOf(facts.edges, names, p)
     /\ \A p, q \in DOMAIN names : names[p] = names[q] => p = q

LEMMA WholePlan ==
  ASSUME NEW facts, WholeFacts(facts)
  PROVE  ShowsItsPlan(facts)
<1> DEFINE names == NamesIn(facts.projections)
<1>1. IsFunction(names) /\ DOMAIN names = DOMAIN facts.packages
      /\ \A p \in DOMAIN names : names[p] = facts.projections[p].name
  BY DEF WholeFacts, NamesIn, IsFunction
<1>2. DOMAIN names = Reached(facts)
  BY <1>1 DEF WholeFacts, GraphFits, Reached
<1>3. FactsPlanOk(facts, names)
  BY DEF WholeFacts, Reproducible
<1>4. FactsPlan(facts, names) = [p \in DOMAIN names |-> ViewOf(facts.edges, names, p)]
  BY <1>1, <1>2, PlanOfNames
<1>5. ASSUME NEW p \in ManagedIn(facts.projections)
      PROVE  facts.projections[p].view = ViewOf(facts.edges, names, p)
  <2>1. p \in DOMAIN facts.projections /\ facts.projections[p].owner = "managed"
    BY DEF ManagedIn, DetachedIn, WholeFacts, ProjectionRow
  <2>2. FactsPlan(facts, names)[p] = facts.projections[p].view
    BY <2>1 DEF WholeFacts, Reproducible
  <2>. QED BY <1>1, <1>4, <2>1, <2>2 DEF WholeFacts
<1>. QED BY <1>1, <1>2, <1>3, <1>4, <1>5, PlanOfNames DEF ShowsItsPlan

----------------------------------------------------------------------------
(* Import undoes export.                                                   *)

(* The ref of a git source is the one that is required, by all who do.     *)
LEMMA GitRefs ==
  ASSUME NEW facts, GraphFits(facts),
         NEW r \in DOMAIN facts.sources, facts.sources[r].source = "git"
  PROVE  /\ \E req \in facts.reqs : RepositoryAt(req) = r
         /\ \A req \in facts.reqs :
              RepositoryAt(req) = r => req.want = facts.sources[r].version
BY DEF GraphFits

(* What is in an export.                                                   *)
Says(m, mode, facts) ==
  /\ m.reqs = facts.reqs /\ m.packages = facts.packages /\ m.edges = facts.edges
  /\ m.names = NamesIn(facts.projections)
  /\ DOMAIN m.sources = DOMAIN facts.sources
  /\ \A r \in DOMAIN facts.sources :
       /\ m.sources[r].source = facts.sources[r].source
       /\ facts.sources[r].source = "git" =>
            m.sources[r] = [source |-> "git", version |-> "none",
                            commit |-> facts.sources[r].commit]
       /\ facts.sources[r].source # "git" => m.sources[r] = facts.sources[r]
  /\ m.detached = IF mode = "full" THEN facts.baselines ELSE <<>>
  /\ DOMAIN m.detached = IF mode = "full" THEN DetachedIn(facts.projections) ELSE {}
  /\ m.skills \cap {m.names[p] : p \in DOMAIN facts.packages} = {}

LEMMA ExportSays ==
  ASSUME NEW facts, WholeFacts(facts), NEW mode, NEW userContent,
         NEW m, m = Export(mode, facts, userContent)
  PROVE  Says(m, mode, facts)
<1>1. /\ m.reqs = facts.reqs /\ m.packages = facts.packages /\ m.edges = facts.edges
      /\ m.names = NamesIn(facts.projections)
      /\ m.detached = IF mode = "full" THEN facts.baselines ELSE <<>>
  BY DEF Export
<1>2. m.sources = [r \in DOMAIN facts.sources |->
                     IF facts.sources[r].source = "git"
                       THEN [facts.sources[r] EXCEPT !.version = "none"] ELSE facts.sources[r]]
  BY DEF Export
<1>3. ASSUME NEW r \in DOMAIN facts.sources, facts.sources[r].source = "git"
      PROVE  m.sources[r] = [source |-> "git", version |-> "none",
                             commit |-> facts.sources[r].commit]
  <2>1. facts.sources[r] = [source |-> "git", version |-> facts.sources[r].version,
                            commit |-> facts.sources[r].commit]
    BY <1>3 DEF WholeFacts, GraphFits, SourceRow
  <2>. QED BY <1>2, <1>3, <2>1
<1>4. ASSUME NEW r \in DOMAIN facts.sources, facts.sources[r].source # "git"
      PROVE  m.sources[r] = facts.sources[r]
  BY <1>2, <1>4
<1>5. DOMAIN m.sources = DOMAIN facts.sources
  BY <1>2
<1>6. DOMAIN m.detached = IF mode = "full" THEN DetachedIn(facts.projections) ELSE {}
  BY <1>1 DEF WholeFacts
<1>7. m.skills = IF mode = "full"
                   THEN DOMAIN userContent
                          \ {facts.projections[p].name : p \in DOMAIN facts.projections}
                   ELSE {}
  BY DEF Export
<1>8. m.skills \cap {m.names[p] : p \in DOMAIN facts.packages} = {}
  <2>1. \A p \in DOMAIN facts.packages :
          p \in DOMAIN facts.projections /\ m.names[p] = facts.projections[p].name
    <3>1. DOMAIN facts.projections = DOMAIN facts.packages
      BY DEF WholeFacts
    <3>. QED BY <1>1, <3>1 DEF NamesIn
  <2>2. \A p \in DOMAIN facts.packages : m.names[p] \notin m.skills
    BY <1>7, <2>1
  <2>. QED BY <2>2
<1>. QED BY <1>1, <1>3, <1>4, <1>5, <1>6, <1>8 DEF Says

(* A whole target gives a valid export.                                    *)
LEMMA ExportIsValid ==
  ASSUME NEW facts, WholeFacts(facts), NEW mode, NEW userContent,
         NEW m, m = Export(mode, facts, userContent)
  PROVE  ManifestOk(m)
<1> DEFINE packages == DOMAIN facts.packages
           repositories == {RepositoryOf[p] : p \in packages}
<1>. Says(m, mode, facts)
  BY ExportSays
<1>0. DOMAIN m.packages = packages
  BY DEF Says
<1>1. repositories \subseteq DOMAIN m.sources
  BY DEF Says, WholeFacts, GraphFits
<1>2. DOMAIN m.names = packages
  BY WholePlan DEF Says, ShowsItsPlan
<1>3. \A e \in m.edges : e[1] \in packages /\ e[2] \in packages
  BY DEF Says, WholeFacts, GraphFits
<1>4. ASSUME NEW req \in m.reqs
      PROVE  /\ req.kind = "package" => req.at \in packages
             /\ RepositoryAt(req) \in DOMAIN m.sources
             /\ req.source = m.sources[RepositoryAt(req)].source
             /\ req.source = "release" => m.sources[RepositoryAt(req)].version \in req.want
  <2>1. /\ req \in facts.reqs /\ RepositoryAt(req) \in DOMAIN facts.sources
        /\ req.kind = "package" => req.at \in packages
        /\ req.source = facts.sources[RepositoryAt(req)].source
    BY DEF Says, WholeFacts, GraphFits
  <2>2. req.source = "release" => facts.sources[RepositoryAt(req)].version \in req.want
    BY <2>1 DEF WholeFacts
  <2>. QED BY <2>1, <2>2 DEF Says
<1>5. DOMAIN m.detached \subseteq packages
  BY DEF Says, WholeFacts, DetachedIn
<1>6. m.skills \cap {m.names[p] : p \in packages} = {}
  BY DEF Says
<1>7. Reachable(m.edges, Roots(m.reqs, packages)) = packages
  BY DEF Says, WholeFacts, GraphFits
<1>8. DOMAIN m.sources \subseteq repositories \cup {RepositoryAt(req) : req \in m.reqs}
  BY DEF Says, WholeFacts, GraphFits
<1>9. ASSUME NEW r \in DOMAIN m.sources, m.sources[r].source = "git"
      PROVE  Cardinality({req.want : req \in {req \in m.reqs : RepositoryAt(req) = r}}) = 1
  <2>1. r \in DOMAIN facts.sources /\ facts.sources[r].source = "git" /\ m.reqs = facts.reqs
    BY <1>9 DEF Says
  <2>2. {req.want : req \in {req \in m.reqs : RepositoryAt(req) = r}} = {facts.sources[r].version}
    BY <2>1, GitRefs DEF WholeFacts
  <2>. QED BY <2>2, FS_Singleton
<1>. QED BY <1>0, <1>1, <1>2, <1>3, <1>4, <1>5, <1>6, <1>7, <1>8, <1>9 DEF ManifestOk

(* What an import makes of it are the requirements, sources, packages and  *)
(* edges of the target, with the planned view under every name.            *)
Imported(again, m, mode, facts) ==
  LET names == NamesIn(facts.projections)
      gone == IF mode = "full" THEN DetachedIn(facts.projections) ELSE {}
  IN /\ again.reqs = facts.reqs /\ again.sources = facts.sources
     /\ again.packages = facts.packages /\ again.edges = facts.edges
     /\ DOMAIN again.projections = DOMAIN facts.packages
     /\ \A p \in DOMAIN facts.packages :
          again.projections[p] =
            [name |-> names[p], owner |-> IF p \in gone THEN "detached" ELSE "managed",
             view |-> ViewOf(facts.edges, names, p),
             mat |-> IF p \notin gone /\ Direct(p, ViewOf(facts.edges, names, p))
                       THEN "link" ELSE "copy"]
     /\ IsFunction(again.projections)
     /\ again.baselines = m.detached

LEMMA ImportSays ==
  ASSUME NEW facts, WholeFacts(facts), NEW mode, NEW m, Says(m, mode, facts),
         NEW again, again = ImportedFacts(m)
  PROVE  Imported(again, m, mode, facts)
<1> DEFINE names == NamesIn(facts.projections)
           gone == IF mode = "full" THEN DetachedIn(facts.projections) ELSE {}
           ref(r) == (CHOOSE req \in m.reqs : RepositoryAt(req) = r).want
           view(p) == ViewOf(facts.edges, names, p)
           plan == FactsPlan(m, m.names)
<1>1. again.reqs = facts.reqs /\ again.packages = facts.packages /\ again.edges = facts.edges
      /\ again.baselines = m.detached
  BY DEF ImportedFacts, Says
<1>2. again.sources = [r \in DOMAIN m.sources |->
                         IF m.sources[r].source = "git"
                           THEN [m.sources[r] EXCEPT !.version = ref(r)] ELSE m.sources[r]]
  BY DEF ImportedFacts
<1>3. ASSUME NEW r \in DOMAIN facts.sources
      PROVE  again.sources[r] = facts.sources[r]
  <2>1. CASE facts.sources[r].source = "git"
    <3>1. ref(r) = facts.sources[r].version
      <4> DEFINE chosen == CHOOSE req \in m.reqs : RepositoryAt(req) = r
      <4>1. \E req \in m.reqs : RepositoryAt(req) = r
        BY <2>1, GitRefs DEF WholeFacts, Says
      <4>2. chosen \in m.reqs /\ RepositoryAt(chosen) = r
        BY <4>1
      <4> HIDE DEF chosen
      <4>3. chosen.want = facts.sources[r].version
        BY <2>1, <4>2, GitRefs DEF WholeFacts, Says
      <4>. QED BY <4>3 DEF chosen
    <3>2. again.sources[r] = [source |-> "git", version |-> ref(r),
                              commit |-> facts.sources[r].commit]
      <4>1. m.sources[r] = [source |-> "git", version |-> "none",
                            commit |-> facts.sources[r].commit]
            /\ m.sources[r].source = "git" /\ r \in DOMAIN m.sources
        BY <2>1 DEF Says
      <4>2. again.sources[r] = [m.sources[r] EXCEPT !.version = ref(r)]
        BY <1>2, <4>1
      <4> HIDE DEF ref
      <4>. QED BY <4>1, <4>2
    <3>3. facts.sources[r] = [source |-> "git", version |-> facts.sources[r].version,
                              commit |-> facts.sources[r].commit]
      BY <2>1 DEF WholeFacts, GraphFits, SourceRow
    <3>. QED BY <3>1, <3>2, <3>3
  <2>2. CASE facts.sources[r].source # "git"
    BY <1>2, <2>2 DEF Says
  <2>. QED BY <2>1, <2>2
<1>4. again.sources = facts.sources
  <2>1. IsFunction(facts.sources)
    BY DEF WholeFacts
  <2>2. DOMAIN again.sources = DOMAIN facts.sources
    BY <1>2 DEF Says
  <2>3. again.sources = [r \in DOMAIN facts.sources |-> again.sources[r]]
    BY <1>2, <2>2
  <2>. QED BY <1>3, <2>1, <2>3 DEF IsFunction
<1>5. plan = [p \in DOMAIN facts.packages |-> view(p)]
  <2>1. plan = FactsPlan(facts, names)
    BY DEF Says, FactsPlan
  <2>. QED BY <2>1, WholePlan DEF ShowsItsPlan
<1>6. again.projections = [p \in DOMAIN m.names |->
                             Planned(plan, p, IF p \in DOMAIN m.detached
                                                THEN "detached" ELSE "managed")]
  BY DEF ImportedFacts
<1>7. DOMAIN m.names = DOMAIN facts.packages /\ DOMAIN m.detached = gone
  BY WholePlan DEF Says, ShowsItsPlan
<1>8. DOMAIN again.projections = DOMAIN facts.packages /\ IsFunction(again.projections)
  BY <1>6, <1>7 DEF IsFunction
<1>9. ASSUME NEW p \in DOMAIN facts.packages
      PROVE  again.projections[p] =
               [name |-> names[p], owner |-> IF p \in gone THEN "detached" ELSE "managed",
                view |-> view(p),
                mat |-> IF p \notin gone /\ Direct(p, view(p)) THEN "link" ELSE "copy"]
  <2>1. plan[p] = view(p) /\ view(p).name = names[p]
    BY <1>5, ViewFields
  <2>2. again.projections[p] = Planned(plan, p, IF p \in gone THEN "detached" ELSE "managed")
    BY <1>6, <1>7
  <2>. QED BY <2>1, <2>2 DEF Planned
<1>. QED BY <1>1, <1>4, <1>8, <1>9 DEF Imported

(* Projections with the planned names and views are planned again.         *)
LEMMA PlannedIsReproducible ==
  ASSUME NEW facts, NEW names, IsFunction(names), DOMAIN names = Reached(facts),
         FactsPlanOk(facts, names), DOMAIN facts.projections = DOMAIN names,
         \A p \in DOMAIN names :
           /\ facts.projections[p].name = names[p]
           /\ facts.projections[p].owner = "managed" =>
                facts.projections[p].view = ViewOf(facts.edges, names, p)
  PROVE  Reproducible(facts) /\ NamesIn(facts.projections) = names
<1>1. NamesIn(facts.projections) = names
  BY DEF NamesIn, IsFunction
<1>2. FactsPlan(facts, names) = [p \in DOMAIN names |-> ViewOf(facts.edges, names, p)]
  BY PlanOfNames
<1>3. \A p \in DOMAIN names : ViewOf(facts.edges, names, p).name = names[p]
  BY ViewFields
<1>. QED BY <1>1, <1>2, <1>3 DEF Reproducible

(* The imported target is whole.                                           *)
LEMMA ImportIsWhole ==
  ASSUME NEW facts, WholeFacts(facts), NEW mode, NEW m, Says(m, mode, facts),
         NEW again, Imported(again, m, mode, facts)
  PROVE  /\ WholeFacts(again)
         /\ NamesIn(again.projections) = NamesIn(facts.projections)
         /\ mode = "full" => DetachedIn(again.projections) = DetachedIn(facts.projections)
<1> DEFINE names == NamesIn(facts.projections)
           gone == IF mode = "full" THEN DetachedIn(facts.projections) ELSE {}
           packages == DOMAIN facts.packages
           view(p) == ViewOf(facts.edges, names, p)
<1>1. /\ again.reqs = facts.reqs /\ again.sources = facts.sources
      /\ again.packages = facts.packages /\ again.edges = facts.edges
      /\ DOMAIN again.projections = packages
      /\ again.baselines = m.detached
      /\ IsFunction(again.projections)
  BY DEF Imported
<1>2. ASSUME NEW p \in packages
      PROVE  LET x == again.projections[p] IN
             /\ x = [name |-> x.name, owner |-> x.owner, view |-> x.view, mat |-> x.mat]
             /\ x.name = names[p] /\ names[p] \in Name
             /\ x.owner = IF p \in gone THEN "detached" ELSE "managed"
             /\ x.view = view(p)
             /\ x.mat = IF p \notin gone /\ Direct(p, view(p)) THEN "link" ELSE "copy"
  <2>1. names[p] = facts.projections[p].name /\ p \in DOMAIN facts.projections
    BY WholePlan DEF ShowsItsPlan, WholeFacts
  <2>2. facts.projections[p].name \in Name
    BY DEF WholeFacts, ProjectionRow
  <2>3. again.projections[p] =
          [name |-> names[p], owner |-> IF p \in gone THEN "detached" ELSE "managed",
           view |-> view(p),
           mat |-> IF p \notin gone /\ Direct(p, view(p)) THEN "link" ELSE "copy"]
    BY DEF Imported
  <2> HIDE DEF names, gone, view
  <2>. QED BY <2>1, <2>2, <2>3
<1>3. GraphFits(again) /\ IsFiniteSet(again.reqs) /\ IsFiniteSet(packages)
      /\ RequirementsAgree(again.reqs)
  BY <1>1 DEF WholeFacts, GraphFits
<1>4. /\ \A req \in again.reqs :
           req.source = "release" => again.sources[RepositoryAt(req)].version \in req.want
      /\ \A p \in packages :
           {e[2] : e \in {e \in again.edges : e[1] = p}} = DeclaredBy[again.packages[p]]
  BY <1>1 DEF WholeFacts
<1>5. Reproducible(again) /\ NamesIn(again.projections) = names
  <2>1. IsFunction(names) /\ DOMAIN names = packages /\ DOMAIN names = Reached(again)
    BY <1>1, WholePlan DEF ShowsItsPlan, Reached
  <2>2. FactsPlanOk(again, names)
    BY <1>1, WholePlan DEF ShowsItsPlan, FactsPlanOk
  <2>3. \A p \in DOMAIN names :
          /\ again.projections[p].name = names[p]
          /\ again.projections[p].owner = "managed" =>
               again.projections[p].view = ViewOf(again.edges, names, p)
    BY <1>1, <1>2, <2>1
  <2>. QED BY <1>1, <2>1, <2>2, <2>3, PlannedIsReproducible
<1>6. ASSUME NEW p \in packages
      PROVE  ProjectionRow(p, again.projections[p])
  BY <1>2 DEF ProjectionRow
<1>7. DetachedIn(again.projections) = gone
  <2>1. gone \subseteq packages
    BY DEF DetachedIn, WholeFacts
  <2> HIDE DEF names, gone, view
  <2>2. \A p \in packages : again.projections[p].owner = "detached" <=> p \in gone
    BY <1>2
  <2>. QED BY <1>1, <2>1, <2>2 DEF DetachedIn
<1>8. DOMAIN again.baselines = gone
  BY <1>1 DEF Says
<1>9. IsFunction(again.sources) /\ IsFunction(again.packages)
  BY <1>1 DEF WholeFacts
<1>10. IsFunction(again.baselines)
  <2>1. IsFunction(facts.baselines)
    BY DEF WholeFacts
  <2>2. IsFunction(<<>>)
    BY DEF IsFunction
  <2>. QED BY <1>1, <2>1, <2>2 DEF Says
<1>11. WholeFacts(again)
  BY <1>1, <1>3, <1>4, <1>5, <1>6, <1>7, <1>8, <1>9, <1>10 DEF WholeFacts
<1>. QED BY <1>5, <1>7, <1>11

(* Whatever whole target is exported, with or without what is detached,    *)
(* the export is accepted by an import, which gives the same target again, *)
(* and the target it gives is whole.                                       *)
THEOREM ImportUndoesExport ==
  ASSUME NEW facts, WholeFacts(facts), NEW mode, NEW userContent
  PROVE  RoundTrip(mode, facts, userContent)
<1> DEFINE m == Export(mode, facts, userContent)
           again == ImportedFacts(m)
<1> HIDE DEF m, again
<1>1. Says(m, mode, facts)
  BY ExportSays DEF m
<1>2. Imported(again, m, mode, facts)
  BY <1>1, ImportSays DEF again
<1>3. ManifestOk(m)
  BY ExportIsValid DEF m
<1>4. WholeFacts(again) /\ NamesIn(again.projections) = NamesIn(facts.projections)
      /\ (mode = "full" => DetachedIn(again.projections) = DetachedIn(facts.projections))
  BY <1>1, <1>2, ImportIsWhole
<1>5. ImportOk(m)
  <2>1. FactsPlanOk(m, m.names)
    BY <1>1, WholePlan DEF Says, ShowsItsPlan, FactsPlanOk
  <2>2. FactsPlan(m, m.names) = FactsPlan(facts, NamesIn(facts.projections))
    BY <1>1 DEF Says, FactsPlan
  <2>3. SameNames(FactsPlan(m, m.names), m.names)
    <3> DEFINE names == NamesIn(facts.projections)
    <3>1. FactsPlan(m, m.names) = [p \in DOMAIN names |-> ViewOf(facts.edges, names, p)]
          /\ IsFunction(names) /\ m.names = names
      BY <1>1, <2>2, WholePlan DEF Says, ShowsItsPlan
    <3>2. \A p \in DOMAIN names : ViewOf(facts.edges, names, p).name = names[p]
      BY ViewFields
    <3> HIDE DEF names
    <3>. QED BY <3>1, <3>2 DEF SameNames, IsFunction
  <2>4. \A p \in DOMAIN m.packages :
          {e[2] : e \in {e \in m.edges : e[1] = p}} = DeclaredBy[m.packages[p]]
    BY <1>1 DEF Says, WholeFacts
  <2>. QED BY <1>3, <2>1, <2>3, <2>4 DEF ImportOk
<1>6. \A field \in {"reqs", "sources", "packages", "edges"} : again[field] = facts[field]
  BY <1>2 DEF Imported
<1>7. mode = "full" => again.baselines = facts.baselines
  BY <1>1, <1>2 DEF Imported, Says
<1>. QED BY <1>4, <1>5, <1>6, <1>7 DEF RoundTrip, m, again

----------------------------------------------------------------------------
(* A merge only adds.                                                      *)

(* Where two sources agree, their merge agrees with both.                  *)
LEMMA MergedSourceAgrees ==
  ASSUME NEW s, NEW t, SourceRow(s), SourceRow(t), CompatibleSource(s, t)
  PROVE  /\ SourceRow(MergedSource(s, t))
         /\ CompatibleSource(s, MergedSource(s, t)) /\ CompatibleSource(t, MergedSource(s, t))
<1>1. CASE s.source = "git"
  BY <1>1 DEF MergedSource, CompatibleSource
<1>2. CASE s.source # "git"
  <2>1. s = [source |-> "release", version |-> s.version, tag |-> s.tag, commit |-> s.commit,
             immutable |-> s.immutable]
    BY <1>2 DEF SourceRow
  <2>2. CASE s.immutable = "unknown"
    <3>1. MergedSource(s, t) = [source |-> "release", version |-> s.version, tag |-> s.tag,
                                commit |-> s.commit, immutable |-> t.immutable]
      <4>1. s.source = "release"
        BY <2>1
      <4>2. MergedSource(s, t) = [s EXCEPT !.immutable = t.immutable]
        BY <2>2, <4>1 DEF MergedSource
      <4>. QED BY <2>1, <4>2
    <3> DEFINE x == MergedSource(s, t)
    <3>2. /\ x.source = "release" /\ x.version = s.version /\ x.tag = s.tag
          /\ x.commit = s.commit /\ x.immutable = t.immutable
      BY <3>1
    <3>3. SourceRow(x)
      BY <3>1, <3>2 DEF SourceRow
    <3> HIDE DEF x
    <3>4. CompatibleSource(s, x) /\ CompatibleSource(t, x)
      BY <2>1, <3>2 DEF CompatibleSource
    <3>. QED BY <3>3, <3>4 DEF x
  <2>3. CASE s.immutable # "unknown"
    BY <2>3 DEF MergedSource, CompatibleSource
  <2>. QED BY <2>2, <2>3
<1>. QED BY <1>1, <1>2

(* What a merge joins, for the names of both targets.                      *)
JoinsNames(current, imported, names, joined) ==
  /\ IsFunction(names)
  /\ DOMAIN names = DOMAIN current.packages \cup DOMAIN imported.packages
  /\ DOMAIN joined.packages = DOMAIN names
  /\ \A p \in DOMAIN current.packages : names[p] = current.projections[p].name
  /\ \A p \in DOMAIN imported.packages \ DOMAIN current.packages :
       names[p] = imported.projections[p].name
  /\ \A p \in DOMAIN names : names[p] \in Name
  /\ DOMAIN names = Reached(joined)
  /\ FactsPlanOk(joined, names)
  /\ FactsPlan(joined, names) = [p \in DOMAIN names |-> ViewOf(joined.edges, names, p)]

LEMMA MergedNamesFit ==
  ASSUME NEW current, NEW imported, WholeFacts(current), WholeFacts(imported),
         MergeOk(current, imported),
         NEW names, names = MergedNames(current, imported),
         NEW joined, joined = Joined(current, imported)
  PROVE  JoinsNames(current, imported, names, joined)
<1>1. DOMAIN current.projections = DOMAIN current.packages
      /\ DOMAIN imported.projections = DOMAIN imported.packages
  BY DEF WholeFacts
<1>2. names = [p \in DOMAIN current.packages \cup DOMAIN imported.packages |->
                 IF p \in DOMAIN current.packages
                   THEN current.projections[p].name ELSE imported.projections[p].name]
  BY <1>1 DEF MergedNames, NamesIn, Beside
<1>3. /\ IsFunction(names)
      /\ DOMAIN names = DOMAIN current.packages \cup DOMAIN imported.packages
      /\ \A p \in DOMAIN current.packages : names[p] = current.projections[p].name
      /\ \A p \in DOMAIN imported.packages \ DOMAIN current.packages :
           names[p] = imported.projections[p].name
  BY <1>2 DEF IsFunction
<1>4. DOMAIN joined.packages = DOMAIN names
  BY <1>3 DEF Joined, Beside
<1>5. \A p \in DOMAIN names : names[p] \in Name
  <2>1. \A p \in DOMAIN current.packages : current.projections[p].name \in Name
    BY DEF WholeFacts, ProjectionRow
  <2>2. \A p \in DOMAIN imported.packages : imported.projections[p].name \in Name
    BY DEF WholeFacts, ProjectionRow
  <2>. QED BY <1>3, <2>1, <2>2
<1>6. FactsPlanOk(joined, names) /\ SameNames(FactsPlan(joined, names), names)
  BY DEF MergeOk
<1>7. DOMAIN names = Reached(joined)
  <2>1. DOMAIN FactsPlan(joined, names) = DOMAIN names
    BY <1>6 DEF SameNames
  <2>2. DOMAIN FactsPlan(joined, names) = Reached(joined)
    BY DEF FactsPlan, PlanProjections, Reached
  <2>. QED BY <2>1, <2>2
<1>. QED BY <1>3, <1>4, <1>5, <1>6, <1>7, PlanOfNames DEF JoinsNames

(* A package has the dependencies it has in either target.                 *)
LEMMA JoinedEdges ==
  ASSUME NEW current, NEW imported, WholeFacts(current), WholeFacts(imported),
         MergeOk(current, imported),
         NEW joined, joined = Joined(current, imported)
  PROVE  /\ joined.edges = current.edges \cup imported.edges
         /\ \A p \in DOMAIN current.packages :
              {e \in joined.edges : e[1] = p} = {e \in current.edges : e[1] = p}
         /\ \A p \in DOMAIN imported.packages :
              {e \in joined.edges : e[1] = p} = {e \in imported.edges : e[1] = p}
<1>1. joined.edges = current.edges \cup imported.edges
  BY DEF Joined
<1>2. \A p \in DOMAIN current.packages \cap DOMAIN imported.packages :
        {e \in current.edges : e[1] = p} = {e \in imported.edges : e[1] = p}
  BY DEF MergeOk, EdgesAgree
<1>3. /\ \A e \in current.edges : e[1] \in DOMAIN current.packages
      /\ \A e \in imported.edges : e[1] \in DOMAIN imported.packages
  BY DEF WholeFacts, GraphFits
<1>4. ASSUME NEW p \in DOMAIN current.packages
      PROVE  {e \in joined.edges : e[1] = p} = {e \in current.edges : e[1] = p}
  <2>1. \A e \in imported.edges : e[1] = p => e \in current.edges
    BY <1>2, <1>3
  <2>. QED BY <1>1, <2>1
<1>5. ASSUME NEW p \in DOMAIN imported.packages
      PROVE  {e \in joined.edges : e[1] = p} = {e \in imported.edges : e[1] = p}
  <2>1. \A e \in current.edges : e[1] = p => e \in imported.edges
    BY <1>2, <1>3
  <2>. QED BY <1>1, <2>1
<1>. QED BY <1>1, <1>4, <1>5

(* So what the target shows keeps its view.                                *)
LEMMA MergeKeepsViews ==
  ASSUME NEW current, NEW imported, WholeFacts(current), WholeFacts(imported),
         MergeOk(current, imported),
         NEW names, names = MergedNames(current, imported),
         NEW joined, joined = Joined(current, imported),
         NEW p \in ManagedIn(current.projections)
  PROVE  ViewOf(joined.edges, names, p) = current.projections[p].view
<1> DEFINE old == NamesIn(current.projections)
<1>1. /\ DOMAIN old = DOMAIN current.packages
      /\ \A q \in DOMAIN old : old[q] = current.projections[q].name
      /\ current.projections[p].view = ViewOf(current.edges, old, p)
  BY WholePlan DEF ShowsItsPlan
<1>2. p \in DOMAIN current.packages
  BY DEF ManagedIn, WholeFacts
<1> HIDE DEF old
<1>3. DOMAIN old \subseteq DOMAIN names /\ \A q \in DOMAIN old : names[q] = old[q]
  <2>1. /\ DOMAIN names = DOMAIN current.packages \cup DOMAIN imported.packages
        /\ \A q \in DOMAIN current.packages : names[q] = current.projections[q].name
    <3>1. JoinsNames(current, imported, names, joined)
      BY MergedNamesFit
    <3>. QED BY <3>1 DEF JoinsNames
  <2>. QED BY <1>1, <2>1
<1>4. \A q : <<p, q>> \in joined.edges <=> <<p, q>> \in current.edges
  <2>1. {e \in joined.edges : e[1] = p} = {e \in current.edges : e[1] = p}
    BY <1>2, JoinedEdges
  <2>2. \A q : <<p, q>>[1] = p
    OBVIOUS
  <2>. QED BY <2>1, <2>2
<1>5. \A q : <<p, q>> \in current.edges => q \in DOMAIN old
  <2>1. \A e \in current.edges : e[2] \in DOMAIN current.packages
    BY DEF WholeFacts, GraphFits
  <2>2. \A q : <<p, q>>[2] = q
    OBVIOUS
  <2>. QED BY <1>1, <2>1, <2>2
<1>6. {q \in DOMAIN names : <<p, q>> \in joined.edges /\ names[q] # Default[q]}
        = {q \in DOMAIN old : <<p, q>> \in current.edges /\ old[q] # Default[q]}
  BY <1>3, <1>4, <1>5
<1> DEFINE renamed == {q \in DOMAIN old : <<p, q>> \in current.edges /\ old[q] # Default[q]}
<1>7. {<<q, names[q]>> : q \in renamed} = {<<q, old[q]>> : q \in renamed}
  BY <1>3
<1>8. names[p] = old[p]
  BY <1>1, <1>2, <1>3
<1>. QED BY <1>1, <1>6, <1>7, <1>8 DEF ViewOf

LEMMA RowHasItsFields ==
  ASSUME NEW name, NEW owner, NEW view, NEW mat,
         NEW x, x = [name |-> name, owner |-> owner, view |-> view, mat |-> mat]
  PROVE  x = [name |-> x.name, owner |-> x.owner, view |-> x.view, mat |-> x.mat]
OBVIOUS

(* What was there is shown as it was, and what is new as it is planned.    *)
MergeShows(current, imported, merged, names) ==
  /\ IsFunction(merged.projections) /\ DOMAIN merged.projections = DOMAIN names
  /\ \A p \in DOMAIN current.projections : merged.projections[p] = current.projections[p]
  /\ \A p \in DOMAIN names \ DOMAIN current.projections :
       /\ merged.projections[p].name = names[p]
       /\ merged.projections[p].view = ViewOf(merged.edges, names, p)
       /\ merged.projections[p].owner = IF p \in DetachedIn(imported.projections)
                                          THEN "detached" ELSE "managed"
       /\ ProjectionRow(p, merged.projections[p])

LEMMA MergedProjections ==
  ASSUME NEW current, NEW imported, WholeFacts(current), WholeFacts(imported),
         MergeOk(current, imported),
         NEW names, names = MergedNames(current, imported),
         NEW merged, merged = MergedFacts(current, imported)
  PROVE  MergeShows(current, imported, merged, names)
<1> DEFINE joined == Joined(current, imported)
           plan == FactsPlan(joined, names)
           old == current.projections
           new(p) == p \in DetachedIn(imported.projections)
           kept(p) == [Planned(plan, p, "managed")
                       EXCEPT !.mat = IF Direct(p, plan[p]) THEN old[p].mat ELSE @]
<1>1. merged.projections =
        [p \in DOMAIN plan |->
           IF p \in DOMAIN old
             THEN IF old[p].owner = "detached" THEN old[p] ELSE kept(p)
             ELSE Planned(plan, p, IF new(p) THEN "detached" ELSE "managed")]
  BY DEF MergedFacts
<1>2. merged.edges = joined.edges
  BY DEF MergedFacts
<1>3. JoinsNames(current, imported, names, joined)
  BY MergedNamesFit
<1>4. DOMAIN old = DOMAIN current.packages
      /\ \A p \in DOMAIN old : ProjectionRow(p, old[p])
  BY DEF WholeFacts
<1> HIDE DEF joined, plan, old, new, kept
<1>5. /\ plan = [p \in DOMAIN names |-> ViewOf(joined.edges, names, p)]
      /\ DOMAIN old \subseteq DOMAIN names
      /\ \A p \in DOMAIN old : names[p] = old[p].name
      /\ \A p \in DOMAIN names : names[p] \in Name
  BY <1>3, <1>4 DEF JoinsNames, plan, old
<1>6. \A p \in DOMAIN names :
        /\ plan[p] = ViewOf(joined.edges, names, p)
        /\ plan[p].name = names[p]
  BY <1>5, ViewFields
<1>7. ASSUME NEW p \in DOMAIN old
      PROVE  merged.projections[p] = old[p]
  <2>1. CASE old[p].owner = "detached"
    BY <1>1, <1>5, <2>1
  <2>2. CASE old[p].owner # "detached"
    <3>1. /\ old[p] = [name |-> old[p].name, owner |-> old[p].owner, view |-> old[p].view,
                       mat |-> old[p].mat]
          /\ old[p].owner = "managed" /\ old[p].mat \in {"link", "copy"}
          /\ old[p].mat = "link" => Direct(p, old[p].view)
      BY <1>4, <2>2 DEF ProjectionRow
    <3>2. p \in ManagedIn(current.projections)
      BY <3>1 DEF ManagedIn, DetachedIn, old
    <3>3. plan[p] = old[p].view
      <4>1. ViewOf(joined.edges, names, p) = current.projections[p].view
        BY <3>2, MergeKeepsViews DEF joined
      <4>. QED BY <1>5, <1>6, <4>1 DEF old
    <3>4. Planned(plan, p, "managed") =
            [name |-> old[p].name, owner |-> "managed", view |-> old[p].view,
             mat |-> IF Direct(p, old[p].view) THEN "link" ELSE "copy"]
      BY <1>5, <1>6, <3>3 DEF Planned
    <3>5. kept(p) = [name |-> old[p].name, owner |-> "managed", view |-> old[p].view,
                     mat |-> IF Direct(p, old[p].view) THEN old[p].mat ELSE "copy"]
      <4>1. kept(p) = [Planned(plan, p, "managed")
                       EXCEPT !.mat = IF Direct(p, old[p].view) THEN old[p].mat
                                      ELSE Planned(plan, p, "managed").mat]
        BY <3>3 DEF kept
      <4>. QED BY <3>4, <4>1
    <3>6. kept(p) = old[p]
      BY <3>1, <3>5
    <3>. QED BY <1>1, <1>5, <2>2, <3>6
  <2>. QED BY <2>1, <2>2
<1>8. ASSUME NEW p \in DOMAIN names \ DOMAIN old
      PROVE  /\ merged.projections[p].name = names[p]
             /\ merged.projections[p].view = ViewOf(merged.edges, names, p)
             /\ merged.projections[p].owner = IF new(p) THEN "detached" ELSE "managed"
             /\ ProjectionRow(p, merged.projections[p])
  <2> DEFINE owner == IF new(p) THEN "detached" ELSE "managed"
             x == merged.projections[p]
  <2>1. x = Planned(plan, p, owner)
    BY <1>1, <1>5
  <2>2. x = [name |-> names[p], owner |-> owner, view |-> plan[p],
             mat |-> IF owner = "managed" /\ Direct(p, plan[p]) THEN "link" ELSE "copy"]
    BY <1>6, <2>1 DEF Planned
  <2> HIDE DEF x
  <2>3. /\ x.name = names[p] /\ x.owner = owner /\ x.view = plan[p]
        /\ x.mat = IF owner = "managed" /\ Direct(p, plan[p]) THEN "link" ELSE "copy"
    BY <2>2
  <2>4. ProjectionRow(p, x)
    <3>1. x.owner \in {"managed", "detached"} /\ x.mat \in {"link", "copy"}
          /\ (x.mat = "link" => x.owner = "managed" /\ Direct(p, x.view))
      BY <2>3
    <3>2. x = [name |-> x.name, owner |-> x.owner, view |-> x.view, mat |-> x.mat]
      BY <2>2, RowHasItsFields
    <3>3. x.name \in Name
      <4>1. \A q \in DOMAIN names : names[q] \in Name
        BY <1>3 DEF JoinsNames
      <4>2. x.name = names[p] /\ p \in DOMAIN names
        BY <2>3
      <4>. QED BY <4>1, <4>2
    <3>. QED BY <3>1, <3>2, <3>3 DEF ProjectionRow
  <2>. QED BY <1>2, <1>6, <2>3, <2>4 DEF x
<1>9. IsFunction(merged.projections) /\ DOMAIN merged.projections = DOMAIN names
  <2>1. DOMAIN plan = DOMAIN names
    BY <1>5
  <2>. QED BY <1>1, <2>1 DEF IsFunction
<1>. QED BY <1>5, <1>7, <1>8, <1>9 DEF MergeShows, old, new

(* Sources are what both targets say of them.                              *)
SourcesFit(current, imported, merged) ==
  /\ IsFunction(merged.sources)
  /\ DOMAIN merged.sources = DOMAIN current.sources \cup DOMAIN imported.sources
  /\ \A r \in DOMAIN current.sources :
       SourceRow(merged.sources[r]) /\ CompatibleSource(current.sources[r], merged.sources[r])
  /\ \A r \in DOMAIN imported.sources :
       SourceRow(merged.sources[r]) /\ CompatibleSource(imported.sources[r], merged.sources[r])

LEMMA MergedSourcesFit ==
  ASSUME NEW current, NEW imported, WholeFacts(current), WholeFacts(imported),
         MergeOk(current, imported),
         NEW merged, merged = MergedFacts(current, imported)
  PROVE  SourcesFit(current, imported, merged)
<1> DEFINE s(r) == current.sources[r]
           t(r) == imported.sources[r]
<1>1. merged.sources =
        [r \in DOMAIN current.sources \cup DOMAIN imported.sources |->
           CASE r \notin DOMAIN imported.sources -> s(r)
             [] r \notin DOMAIN current.sources -> t(r)
             [] OTHER -> MergedSource(s(r), t(r))]
  BY DEF MergedFacts, MergedSources
<1>2. /\ \A r \in DOMAIN current.sources : SourceRow(s(r))
      /\ \A r \in DOMAIN imported.sources : SourceRow(t(r))
  BY DEF WholeFacts, GraphFits
<1>3. \A r \in DOMAIN current.sources \cap DOMAIN imported.sources : CompatibleSource(s(r), t(r))
  BY DEF MergeOk, Agree
<1>4. \A r : CompatibleSource(s(r), s(r)) /\ CompatibleSource(t(r), t(r))
  BY DEF CompatibleSource
<1> HIDE DEF s, t
<1>5. ASSUME NEW r \in DOMAIN current.sources \cup DOMAIN imported.sources
      PROVE  /\ SourceRow(merged.sources[r])
             /\ r \in DOMAIN current.sources => CompatibleSource(s(r), merged.sources[r])
             /\ r \in DOMAIN imported.sources => CompatibleSource(t(r), merged.sources[r])
  <2>1. CASE r \notin DOMAIN imported.sources
    <3>1. merged.sources[r] = s(r)
      BY <1>1, <2>1
    <3>. QED BY <1>2, <1>4, <2>1, <3>1
  <2>2. CASE r \notin DOMAIN current.sources
    <3>1. merged.sources[r] = t(r)
      BY <1>1, <2>2
    <3>. QED BY <1>2, <1>4, <2>2, <3>1
  <2>3. CASE r \in DOMAIN current.sources \cap DOMAIN imported.sources
    <3>1. merged.sources[r] = MergedSource(s(r), t(r))
      BY <1>1, <2>3
    <3>. QED BY <1>2, <1>3, <2>3, <3>1, MergedSourceAgrees
  <2>. QED BY <2>1, <2>2, <2>3
<1>6. IsFunction(merged.sources)
      /\ DOMAIN merged.sources = DOMAIN current.sources \cup DOMAIN imported.sources
  BY <1>1 DEF IsFunction
<1>. QED BY <1>5, <1>6 DEF SourcesFit, s, t

(* A merge is the union of two graphs.                                     *)
Unites(current, imported, merged) ==
  /\ merged.reqs = current.reqs \cup imported.reqs
  /\ merged.edges = current.edges \cup imported.edges
  /\ IsFunction(merged.packages)
  /\ DOMAIN merged.packages = DOMAIN current.packages \cup DOMAIN imported.packages
  /\ \A p \in DOMAIN current.packages : merged.packages[p] = current.packages[p]
  /\ \A p \in DOMAIN imported.packages : merged.packages[p] = imported.packages[p]

LEMMA MergeUnites ==
  ASSUME NEW current, NEW imported, MergeOk(current, imported),
         NEW merged, merged = MergedFacts(current, imported)
  PROVE  Unites(current, imported, merged)
<1>1. merged.reqs = current.reqs \cup imported.reqs
      /\ merged.edges = current.edges \cup imported.edges
  BY DEF MergedFacts, Joined
<1>2. merged.packages = [p \in DOMAIN current.packages \cup DOMAIN imported.packages |->
                           IF p \in DOMAIN current.packages THEN current.packages[p]
                           ELSE imported.packages[p]]
  BY DEF MergedFacts, Joined, Beside
<1>3. \A p \in DOMAIN current.packages \cap DOMAIN imported.packages :
        current.packages[p] = imported.packages[p]
  BY DEF MergeOk, Agree, Equal
<1>. QED BY <1>1, <1>2, <1>3 DEF Unites, IsFunction

LEMMA GraphEdges ==
  ASSUME NEW facts, GraphFits(facts), NEW e \in facts.edges
  PROVE  e = <<e[1], e[2]>> /\ e[1] \in DOMAIN facts.packages /\ e[2] \in DOMAIN facts.packages
BY DEF GraphFits

LEMMA EdgesWithin ==
  ASSUME NEW S, NEW E, \A e \in E : e = <<e[1], e[2]>> /\ e[1] \in S /\ e[2] \in S
  PROVE  E \subseteq S \X S
OBVIOUS

(* What resolution promised of both it promises of the union.              *)
LEMMA MergedGraphFits ==
  ASSUME NEW current, NEW imported, WholeFacts(current), WholeFacts(imported),
         MergeOk(current, imported),
         NEW merged, merged = MergedFacts(current, imported)
  PROVE  GraphFits(merged)
<1> DEFINE packages == DOMAIN merged.packages
           required == {RepositoryAt(req) : req \in merged.reqs}
           source(req) == merged.sources[RepositoryAt(req)]
<1>1. Unites(current, imported, merged)
  BY MergeUnites
<1>2. SourcesFit(current, imported, merged)
  BY MergedSourcesFit
<1>3. packages \subseteq Package /\ merged.edges \subseteq packages \X packages
  <2>1. GraphFits(current) /\ GraphFits(imported)
    BY DEF WholeFacts
  <2>2. /\ packages = DOMAIN current.packages \cup DOMAIN imported.packages
        /\ merged.edges = current.edges \cup imported.edges
    BY <1>1 DEF Unites
  <2> HIDE DEF packages
  <2>3. \A e \in merged.edges : e = <<e[1], e[2]>> /\ e[1] \in packages /\ e[2] \in packages
    BY <2>1, <2>2, GraphEdges
  <2>4. merged.edges \subseteq packages \X packages
    BY <2>3, EdgesWithin
  <2>5. DOMAIN current.packages \subseteq Package /\ DOMAIN imported.packages \subseteq Package
    BY <2>1 DEF GraphFits
  <2>. QED BY <2>2, <2>4, <2>5
<1>4. {RepositoryOf[p] : p \in packages} \cup required = DOMAIN merged.sources
  <2>1. /\ {RepositoryOf[p] : p \in DOMAIN current.packages}
             \cup {RepositoryAt(req) : req \in current.reqs} = DOMAIN current.sources
        /\ {RepositoryOf[p] : p \in DOMAIN imported.packages}
             \cup {RepositoryAt(req) : req \in imported.reqs} = DOMAIN imported.sources
    BY DEF WholeFacts, GraphFits
  <2>. QED BY <1>1, <1>2, <2>1 DEF Unites, SourcesFit
<1>5. ASSUME NEW r \in DOMAIN merged.sources
      PROVE  /\ SourceRow(merged.sources[r])
             /\ merged.sources[r].source = "git" => r \in required
  <2>1. /\ \A q \in DOMAIN current.sources :
             current.sources[q].source = "git" =>
               q \in {RepositoryAt(req) : req \in current.reqs}
        /\ \A q \in DOMAIN imported.sources :
             imported.sources[q].source = "git" =>
               q \in {RepositoryAt(req) : req \in imported.reqs}
    BY DEF WholeFacts, GraphFits
  <2>2. SourceRow(merged.sources[r])
    BY <1>2 DEF SourcesFit
  <2>3. CASE r \in DOMAIN current.sources
    <3>1. current.sources[r].source = merged.sources[r].source
      BY <1>2, <2>3 DEF SourcesFit, CompatibleSource
    <3>. QED BY <1>1, <2>1, <2>2, <2>3, <3>1 DEF Unites
  <2>4. CASE r \in DOMAIN imported.sources
    <3>1. imported.sources[r].source = merged.sources[r].source
      BY <1>2, <2>4 DEF SourcesFit, CompatibleSource
    <3>. QED BY <1>1, <2>1, <2>2, <2>4, <3>1 DEF Unites
  <2>. QED BY <1>2, <2>3, <2>4 DEF SourcesFit
<1>6. ASSUME NEW req \in merged.reqs
      PROVE  /\ req.kind = "package" => req.at \in packages
             /\ RequirementRow(req) /\ req.source = source(req).source
             /\ req.source = "git" => req.want = source(req).version
  <2>1. CASE req \in current.reqs
    <3>1. /\ req.kind = "package" => req.at \in DOMAIN current.packages
          /\ RequirementRow(req) /\ RepositoryAt(req) \in DOMAIN current.sources
          /\ req.source = current.sources[RepositoryAt(req)].source
          /\ req.source = "git" => req.want = current.sources[RepositoryAt(req)].version
      BY <2>1 DEF WholeFacts, GraphFits
    <3>2. /\ source(req).source = current.sources[RepositoryAt(req)].source
          /\ source(req).version = current.sources[RepositoryAt(req)].version
      BY <1>2, <3>1 DEF SourcesFit, CompatibleSource
    <3>. QED BY <1>1, <3>1, <3>2 DEF Unites
  <2>2. CASE req \in imported.reqs
    <3>1. /\ req.kind = "package" => req.at \in DOMAIN imported.packages
          /\ RequirementRow(req) /\ RepositoryAt(req) \in DOMAIN imported.sources
          /\ req.source = imported.sources[RepositoryAt(req)].source
          /\ req.source = "git" => req.want = imported.sources[RepositoryAt(req)].version
      BY <2>2 DEF WholeFacts, GraphFits
    <3>2. /\ source(req).source = imported.sources[RepositoryAt(req)].source
          /\ source(req).version = imported.sources[RepositoryAt(req)].version
      BY <1>2, <3>1 DEF SourcesFit, CompatibleSource
    <3>. QED BY <1>1, <3>1, <3>2 DEF Unites
  <2>. QED BY <1>1, <2>1, <2>2 DEF Unites
<1>7. Reachable(merged.edges, Roots(merged.reqs, packages)) = packages
  <2>1. JoinsNames(current, imported, MergedNames(current, imported), Joined(current, imported))
    BY MergedNamesFit
  <2>2. /\ merged.edges = Joined(current, imported).edges
        /\ merged.reqs = Joined(current, imported).reqs
        /\ merged.packages = Joined(current, imported).packages
    <3> DEFINE joined == Joined(current, imported)
    <3> HIDE DEF joined
    <3>. QED BY Zenon DEF MergedFacts, joined
  <2>3. Reached(Joined(current, imported)) = packages
    BY <2>1, <2>2 DEF JoinsNames
  <2>. QED BY <2>2, <2>3 DEF Reached
<1> HIDE DEF packages
<1>8. GraphFits(merged)
  BY <1>3, <1>4, <1>5, <1>6, <1>7 DEF GraphFits, packages
<1>. QED BY <1>8

(* What is merged is planned again as it is shown.                         *)
LEMMA MergedIsReproducible ==
  ASSUME NEW current, NEW imported, WholeFacts(current), WholeFacts(imported),
         MergeOk(current, imported),
         NEW merged, merged = MergedFacts(current, imported)
  PROVE  Reproducible(merged)
<1>1. PICK names : names = MergedNames(current, imported)
  OBVIOUS
<1>2. PICK joined : joined = Joined(current, imported)
  OBVIOUS
<1>3. JoinsNames(current, imported, names, joined)
  BY <1>1, <1>2, MergedNamesFit
<1>4. MergeShows(current, imported, merged, names)
  BY <1>1, MergedProjections
<1>5. /\ merged.edges = joined.edges /\ merged.reqs = joined.reqs
      /\ merged.packages = joined.packages
  BY <1>2, Zenon DEF MergedFacts
<1>6. /\ IsFunction(names) /\ DOMAIN names = Reached(merged)
      /\ DOMAIN merged.projections = DOMAIN names
  BY <1>3, <1>4, <1>5 DEF JoinsNames, MergeShows, Reached
<1>7. FactsPlanOk(merged, names)
  <2>1. FactsPlanOk(joined, names)
    BY <1>3 DEF JoinsNames
  <2>. QED BY <1>5, <2>1 DEF FactsPlanOk
<1>8. ASSUME NEW p \in DOMAIN names
      PROVE  /\ merged.projections[p].name = names[p]
             /\ merged.projections[p].owner = "managed" =>
                  merged.projections[p].view = ViewOf(merged.edges, names, p)
  <2>1. CASE p \in DOMAIN current.projections
    <3>1. merged.projections[p] = current.projections[p]
      BY <1>4, <2>1 DEF MergeShows
    <3>2. names[p] = current.projections[p].name
      <4>1. DOMAIN current.projections = DOMAIN current.packages
        BY DEF WholeFacts
      <4>. QED BY <1>3, <2>1, <4>1 DEF JoinsNames
    <3>3. current.projections[p].owner = "managed" => p \in ManagedIn(current.projections)
      BY <2>1 DEF ManagedIn, DetachedIn
    <3>4. current.projections[p].owner = "managed" =>
            current.projections[p].view = ViewOf(joined.edges, names, p)
      BY <1>1, <1>2, <3>3, MergeKeepsViews
    <3>. QED BY <1>5, <3>1, <3>2, <3>4
  <2>2. CASE p \notin DOMAIN current.projections
    BY <1>4, <2>2 DEF MergeShows
  <2>. QED BY <2>1, <2>2
<1>. QED BY <1>6, <1>7, <1>8, PlannedIsReproducible

(* Every detached package keeps its baseline, the target's own first.      *)
LEMMA MergedBaselines ==
  ASSUME NEW current, NEW imported, WholeFacts(current), WholeFacts(imported),
         MergeOk(current, imported),
         NEW merged, merged = MergedFacts(current, imported)
  PROVE  /\ DOMAIN merged.baselines = DetachedIn(merged.projections)
         /\ IsFunction(merged.baselines)
         /\ \A p \in DOMAIN current.baselines : merged.baselines[p] = current.baselines[p]
<1>1. PICK names : names = MergedNames(current, imported)
  OBVIOUS
<1>2. MergeShows(current, imported, merged, names)
  BY <1>1, MergedProjections
<1>3. merged.baselines = [p \in DOMAIN imported.baselines \cup DOMAIN current.baselines |->
                            IF p \in DOMAIN imported.baselines THEN imported.baselines[p]
                            ELSE current.baselines[p]]
  BY DEF MergedFacts, Beside
<1>4. \A p \in DOMAIN current.baselines \cap DOMAIN imported.baselines :
        current.baselines[p] = imported.baselines[p]
  BY DEF MergeOk, Agree, Equal
<1>5. DOMAIN current.baselines = DetachedIn(current.projections)
      /\ DOMAIN imported.baselines = DetachedIn(imported.projections)
  BY DEF WholeFacts
<1>6. /\ DOMAIN names = DOMAIN current.packages \cup DOMAIN imported.packages
      /\ DOMAIN current.projections = DOMAIN current.packages
      /\ DOMAIN imported.projections = DOMAIN imported.packages
  <2>1. JoinsNames(current, imported, names, Joined(current, imported))
    BY <1>1, MergedNamesFit
  <2>. QED BY <2>1 DEF JoinsNames, WholeFacts
<1>7. \A p \in DOMAIN current.projections \cap DOMAIN imported.projections :
        imported.projections[p].owner = "detached" => current.projections[p].owner = "detached"
  <2>1. \A p \in DOMAIN current.projections :
          current.projections[p].owner \in {"managed", "detached"}
    BY DEF WholeFacts, ProjectionRow
  <2>2. \A p \in DOMAIN current.projections \cap DOMAIN imported.projections :
          ~(current.projections[p].owner = "managed" /\ imported.projections[p].owner = "detached")
    BY DEF MergeOk, ProjectionsAgree
  <2>. QED BY <2>1, <2>2
<1>8. DetachedIn(merged.projections)
        = DetachedIn(current.projections) \cup DetachedIn(imported.projections)
  <2>1. ASSUME NEW p \in DOMAIN names
        PROVE  merged.projections[p].owner = "detached" <=>
                 p \in DetachedIn(current.projections) \cup DetachedIn(imported.projections)
    <3>1. CASE p \in DOMAIN current.projections
      <4>1. merged.projections[p] = current.projections[p]
        BY <1>2, <3>1 DEF MergeShows
      <4>. QED BY <1>7, <3>1, <4>1 DEF DetachedIn
    <3>2. CASE p \notin DOMAIN current.projections
      <4>1. merged.projections[p].owner = IF p \in DetachedIn(imported.projections)
                                            THEN "detached" ELSE "managed"
        BY <1>2, <3>2 DEF MergeShows
      <4>2. p \notin DetachedIn(current.projections)
        BY <3>2 DEF DetachedIn
      <4>. QED BY <4>1, <4>2
    <3>. QED BY <3>1, <3>2
  <2>2. DOMAIN merged.projections = DOMAIN names
    BY <1>2 DEF MergeShows
  <2>3. DetachedIn(current.projections) \cup DetachedIn(imported.projections) \subseteq DOMAIN names
    BY <1>6 DEF DetachedIn
  <2>4. \A p : p \in DetachedIn(merged.projections) <=>
                 p \in DOMAIN names /\ merged.projections[p].owner = "detached"
    BY <2>2 DEF DetachedIn
  <2>. QED BY <2>1, <2>3, <2>4
<1>9. DOMAIN merged.baselines = DOMAIN current.baselines \cup DOMAIN imported.baselines
      /\ IsFunction(merged.baselines)
  BY <1>3 DEF IsFunction
<1>10. \A p \in DOMAIN current.baselines : merged.baselines[p] = current.baselines[p]
  BY <1>3, <1>4
<1>. QED BY <1>5, <1>8, <1>9, <1>10

(* Merging one whole target into another keeps every requirement, source,  *)
(* package and projection of it and every baseline, and what comes out is  *)
(* whole, so it can be exported, merged and recovered like any other.      *)
THEOREM MergeAddsOnly ==
  ASSUME NEW current, NEW imported, WholeFacts(current), WholeFacts(imported)
  PROVE  MergeOnlyAdds(current, imported)
<1>. SUFFICES ASSUME MergeOk(current, imported)
              PROVE  MergeOnlyAdds(current, imported)
  BY DEF MergeOnlyAdds
<1>1. PICK merged : merged = MergedFacts(current, imported)
  OBVIOUS
<1>2. PICK names : names = MergedNames(current, imported)
  OBVIOUS
<1>3. Unites(current, imported, merged)
  BY <1>1, MergeUnites
<1>4. SourcesFit(current, imported, merged)
  BY <1>1, MergedSourcesFit
<1>5. GraphFits(merged)
  BY <1>1, MergedGraphFits
<1>6. Reproducible(merged)
  BY <1>1, MergedIsReproducible
<1>7. MergeShows(current, imported, merged, names)
  BY <1>1, <1>2, MergedProjections
<1>8. /\ DOMAIN merged.baselines = DetachedIn(merged.projections)
      /\ IsFunction(merged.baselines)
      /\ \A p \in DOMAIN current.baselines : merged.baselines[p] = current.baselines[p]
  BY <1>1, MergedBaselines
<1>9. IsFiniteSet(merged.reqs) /\ IsFiniteSet(DOMAIN merged.packages)
  <2>1. /\ IsFiniteSet(current.reqs) /\ IsFiniteSet(DOMAIN current.packages)
        /\ IsFiniteSet(imported.reqs) /\ IsFiniteSet(DOMAIN imported.packages)
    BY DEF WholeFacts
  <2>2. IsFiniteSet(current.reqs \cup imported.reqs)
    BY <2>1, FS_Union
  <2>3. IsFiniteSet(DOMAIN current.packages \cup DOMAIN imported.packages)
    BY <2>1, FS_Union
  <2>. QED BY <1>3, <2>2, <2>3 DEF Unites
<1>10. RequirementsAgree(merged.reqs)
  <2>1. RequirementsAgree(Joined(current, imported).reqs)
    BY DEF MergeOk
  <2>2. merged.reqs = Joined(current, imported).reqs
    BY <1>1, Zenon DEF MergedFacts
  <2>. QED BY <2>1, <2>2
<1>11. ASSUME NEW req \in merged.reqs, req.source = "release"
       PROVE  merged.sources[RepositoryAt(req)].version \in req.want
  <2>1. CASE req \in current.reqs
    <3>1. RepositoryAt(req) \in DOMAIN current.sources
          /\ current.sources[RepositoryAt(req)].version \in req.want
      BY <1>11, <2>1 DEF WholeFacts, GraphFits
    <3>. QED BY <1>4, <3>1 DEF SourcesFit, CompatibleSource
  <2>2. CASE req \in imported.reqs
    <3>1. RepositoryAt(req) \in DOMAIN imported.sources
          /\ imported.sources[RepositoryAt(req)].version \in req.want
      BY <1>11, <2>2 DEF WholeFacts, GraphFits
    <3>. QED BY <1>4, <3>1 DEF SourcesFit, CompatibleSource
  <2>. QED BY <1>3, <2>1, <2>2 DEF Unites
<1>12. ASSUME NEW p \in DOMAIN merged.packages
       PROVE  {e[2] : e \in {e \in merged.edges : e[1] = p}} = DeclaredBy[merged.packages[p]]
  <2>1. merged.edges = Joined(current, imported).edges
    BY <1>3 DEF Unites, Joined
  <2>2. CASE p \in DOMAIN current.packages
    <3>1. {e[2] : e \in {e \in current.edges : e[1] = p}} = DeclaredBy[current.packages[p]]
      BY <2>2 DEF WholeFacts
    <3>2. {e \in merged.edges : e[1] = p} = {e \in current.edges : e[1] = p}
      BY <2>1, <2>2, JoinedEdges
    <3>3. merged.packages[p] = current.packages[p]
      BY <1>3, <2>2 DEF Unites
    <3>. QED BY <3>1, <3>2, <3>3
  <2>3. CASE p \in DOMAIN imported.packages
    <3>1. {e[2] : e \in {e \in imported.edges : e[1] = p}} = DeclaredBy[imported.packages[p]]
      BY <2>3 DEF WholeFacts
    <3>2. {e \in merged.edges : e[1] = p} = {e \in imported.edges : e[1] = p}
      BY <2>1, <2>3, JoinedEdges
    <3>3. merged.packages[p] = imported.packages[p]
      BY <1>3, <2>3 DEF Unites
    <3>. QED BY <3>1, <3>2, <3>3
  <2>. QED BY <1>3, <2>2, <2>3 DEF Unites
<1>13. DOMAIN merged.projections = DOMAIN merged.packages
       /\ DOMAIN current.projections = DOMAIN current.packages
  <2>1. JoinsNames(current, imported, names, Joined(current, imported))
    BY <1>2, MergedNamesFit
  <2>2. DOMAIN merged.packages = DOMAIN names
    BY <1>3, <2>1 DEF Unites, JoinsNames
  <2>. QED BY <1>7, <2>2 DEF MergeShows, WholeFacts
<1>14. ASSUME NEW p \in DOMAIN merged.packages
       PROVE  ProjectionRow(p, merged.projections[p])
  <2>1. CASE p \in DOMAIN current.projections
    <3>1. ProjectionRow(p, current.projections[p])
      BY <1>13, <2>1 DEF WholeFacts
    <3>2. merged.projections[p] = current.projections[p]
      BY <1>7, <2>1 DEF MergeShows
    <3>. QED BY <3>1, <3>2
  <2>2. CASE p \notin DOMAIN current.projections
    BY <1>7, <1>13, <2>2 DEF MergeShows
  <2>. QED BY <2>1, <2>2
<1>15. \A field \in {"sources", "packages", "projections", "baselines"} : IsFunction(merged[field])
  BY <1>3, <1>4, <1>7, <1>8 DEF Unites, SourcesFit, MergeShows
<1>16. WholeFacts(merged)
  BY <1>5, <1>6, <1>8, <1>9, <1>10, <1>11, <1>12, <1>13, <1>14, <1>15, Zenon DEF WholeFacts
<1>17. /\ current.reqs \subseteq merged.reqs /\ current.edges \subseteq merged.edges
       /\ \A r \in DOMAIN current.sources : CompatibleSource(current.sources[r], merged.sources[r])
       /\ \A p \in DOMAIN current.packages : merged.packages[p] = current.packages[p]
       /\ \A p \in DOMAIN current.projections : merged.projections[p] = current.projections[p]
  BY <1>3, <1>4, <1>7 DEF Unites, SourcesFit, MergeShows
<1>. QED BY <1>1, <1>8, <1>16, <1>17 DEF MergeOnlyAdds

----------------------------------------------------------------------------
(* Markers keep what they are given.                                       *)

(* A finite set, laid out as a sequence, is still there.                   *)
LEMMA SetAsSequence ==
  ASSUME NEW S, IsFiniteSet(S)
  PROVE  /\ ToSet(SetToSeq(S)) = S
         /\ \A i \in DOMAIN SetToSeq(S) : SetToSeq(S)[i] \in S
         /\ \A i, j \in DOMAIN SetToSeq(S) : SetToSeq(S)[i] = SetToSeq(S)[j] => i = j
<1> DEFINE n == Cardinality(S)
<1>1. n \in Nat /\ ExistsBijection(1..n, S)
  BY FS_CardinalityType
<1>2. PICK seq : seq = SetToSeq(S)
  OBVIOUS
<1> HIDE DEF n
<1>3. \E f \in [1..n -> S] : IsInjective(f)
  BY <1>1 DEF ExistsBijection, Bijection, Injection
<1>4. seq \in [1..n -> S] /\ IsInjective(seq)
  BY <1>2, <1>3 DEF SetToSeq, n
<1>5. seq \in Injection(1..n, S)
  BY <1>4 DEF Injection
<1>6. IsFiniteSet(1..n) /\ Cardinality(1..n) = n
  BY <1>1, FS_Interval
<1>7. seq \in Surjection(1..n, S)
  BY <1>5, <1>6, FS_Injection DEF n
<1>8. \A x \in S : \E i \in 1..n : seq[i] = x
  BY <1>7 DEF Surjection
<1>9. ToSet(seq) = S
  BY <1>4, <1>8 DEF ToSet
<1>. QED BY <1>2, <1>4, <1>9 DEF IsInjective

LEMMA FiniteImage ==
  ASSUME NEW S, IsFiniteSet(S), NEW f
  PROVE  IsFiniteSet({f[x] : x \in S})
<1> DEFINE g == [x \in S |-> f[x]]
           T == {f[x] : x \in S}
<1>1. g \in Surjection(S, T)
  BY DEF Surjection
<1>. QED BY <1>1, FS_Surjection

LEMMA FiniteTables ==
  ASSUME NEW tables, IsTableSeq(tables)
  PROVE  IsFiniteSet(ToSet(tables))
<1>1. PICK n \in Nat : tables \in [1..n -> ToSet(tables)]
  BY DEF IsTableSeq
<1>2. tables \in Surjection(1..n, ToSet(tables))
  BY <1>1 DEF Surjection, ToSet
<1>3. IsFiniteSet(1..n)
  BY FS_Interval
<1>. QED BY <1>2, <1>3, FS_Surjection

(* What a marker must be so that it can be written and read again.         *)
Readable(marker) ==
  /\ marker = [id |-> marker.id, generation |-> marker.generation,
               requirements |-> marker.requirements, overrides |-> marker.overrides,
               managed |-> marker.managed, detached |-> marker.detached]
  /\ marker.id \in MarkerId /\ marker.generation \in 0..MaxSafeInteger
  /\ IsFiniteSet(marker.requirements) /\ IsFiniteSet(marker.overrides)
  /\ IsFiniteSet(marker.managed) /\ IsFiniteSet(marker.detached)
  /\ \A req \in marker.requirements : RequirementTableOk(req)
  /\ \A x, y \in marker.requirements : Requirer(x) = Requirer(y) => x = y
  /\ \A o \in marker.overrides :
       o.package \in Package /\ o.name \in Name /\ o.name # Default[o.package]
  /\ \A x, y \in marker.overrides : x.package = y.package \/ x.name = y.name => x = y
  /\ \A t \in marker.managed : ManagedTableOk(t)
  /\ \A x, y \in marker.managed : x.package = y.package \/ x.name = y.name => x = y
  /\ \A t \in marker.detached : t.package \in Package
  /\ \A x, y \in marker.detached : x.package = y.package => x = y
  /\ \A x \in marker.managed, y \in marker.detached : x.package # y.package

LEMMA ReadableIsRead ==
  ASSUME NEW marker, Readable(marker)
  PROVE  ParseOk(Written(marker)) /\ Parsed(Written(marker)) = marker
<1>1. PICK req : req = SetToSeq(marker.requirements)
  OBVIOUS
<1>2. PICK over : over = SetToSeq(marker.overrides)
  OBVIOUS
<1>3. PICK man : man = SetToSeq(marker.managed)
  OBVIOUS
<1>4. PICK det : det = SetToSeq(marker.detached)
  OBVIOUS
<1>5. {o \in marker.overrides : o.name # Default[o.package]} = marker.overrides
  BY DEF Readable
<1>6. Written(marker) = [format |-> "V2", id |-> marker.id, generation |-> marker.generation,
                         requirements |-> req, overrides |-> over, managed |-> man,
                         detached |-> det]
  BY <1>1, <1>2, <1>3, <1>4, <1>5 DEF Written
<1>7. /\ ToSet(req) = marker.requirements
      /\ \A i \in DOMAIN req : req[i] \in marker.requirements
      /\ \A i, j \in DOMAIN req : req[i] = req[j] => i = j
  BY <1>1, SetAsSequence DEF Readable
<1>8. /\ ToSet(over) = marker.overrides
      /\ \A i \in DOMAIN over : over[i] \in marker.overrides
      /\ \A i, j \in DOMAIN over : over[i] = over[j] => i = j
  BY <1>2, SetAsSequence DEF Readable
<1>9. /\ ToSet(man) = marker.managed
      /\ \A i \in DOMAIN man : man[i] \in marker.managed
      /\ \A i, j \in DOMAIN man : man[i] = man[j] => i = j
  BY <1>3, SetAsSequence DEF Readable
<1>10. /\ ToSet(det) = marker.detached
       /\ \A i \in DOMAIN det : det[i] \in marker.detached
       /\ \A i, j \in DOMAIN det : det[i] = det[j] => i = j
  BY <1>4, SetAsSequence DEF Readable
<1>11. RequirementsOk(req)
  BY <1>7 DEF Readable, RequirementsOk, Distinct
<1>12. OverridesOk(over)
  BY <1>8 DEF Readable, OverridesOk, Distinct, PackageOf, NameOf
<1>13. ManagedOk(man)
  BY <1>9 DEF Readable, ManagedOk, Distinct, PackageOf, NameOf
<1>14. DetachedOk(det)
  BY <1>10 DEF Readable, DetachedOk, Distinct, PackageOf
<1>15. \A i \in DOMAIN man, j \in DOMAIN det : man[i].package # det[j].package
  BY <1>9, <1>10 DEF Readable
<1>16. marker.id \in MarkerId /\ marker.generation \in 0..MaxSafeInteger
  BY DEF Readable
<1>17. ParseOk(Written(marker))
  BY <1>6, <1>11, <1>12, <1>13, <1>14, <1>15, <1>16 DEF ParseOk
<1>18. Parsed(Written(marker)) = [id |-> marker.id, generation |-> marker.generation,
                                  requirements |-> ToSet(req), overrides |-> ToSet(over),
                                  managed |-> ToSet(man), detached |-> ToSet(det)]
  BY <1>6 DEF Parsed
<1>19. marker = [id |-> marker.id, generation |-> marker.generation,
                 requirements |-> marker.requirements, overrides |-> marker.overrides,
                 managed |-> marker.managed, detached |-> marker.detached]
  BY DEF Readable
<1>. QED BY <1>7, <1>8, <1>9, <1>10, <1>17, <1>18, <1>19

(* What was read can be written: whatever a user made of the file.         *)
THEOREM RewritingKeepsWhatWasRead ==
  ASSUME NEW doc, IsTableSeq(doc.requirements), IsTableSeq(doc.overrides),
         IsTableSeq(doc.managed), IsTableSeq(doc.detached)
  PROVE  RewritingKeepsMarker(doc)
<1>. SUFFICES ASSUME ParseOk(doc)
              PROVE  Readable(Parsed(doc))
  BY ReadableIsRead DEF RewritingKeepsMarker
<1>1. PICK marker : marker = Parsed(doc)
  OBVIOUS
<1>2. marker = [id |-> doc.id, generation |-> doc.generation,
                requirements |-> ToSet(doc.requirements), overrides |-> ToSet(doc.overrides),
                managed |-> ToSet(doc.managed), detached |-> ToSet(doc.detached)]
  BY <1>1 DEF Parsed
<1>3. /\ marker.id = doc.id /\ marker.generation = doc.generation
      /\ marker.requirements = ToSet(doc.requirements) /\ marker.overrides = ToSet(doc.overrides)
      /\ marker.managed = ToSet(doc.managed) /\ marker.detached = ToSet(doc.detached)
  BY <1>2
<1>4. marker.id \in MarkerId /\ marker.generation \in 0..MaxSafeInteger
  BY <1>3 DEF ParseOk
<1>5. /\ IsFiniteSet(marker.requirements) /\ IsFiniteSet(marker.overrides)
      /\ IsFiniteSet(marker.managed) /\ IsFiniteSet(marker.detached)
  BY <1>3, FiniteTables
<1>6. /\ \A req \in marker.requirements : RequirementTableOk(req)
      /\ \A x, y \in marker.requirements : Requirer(x) = Requirer(y) => x = y
  <2>1. RequirementsOk(doc.requirements)
    BY DEF ParseOk
  <2>. QED BY <1>3, <2>1 DEF RequirementsOk, Distinct, ToSet
<1>7. /\ \A o \in marker.overrides :
           o.package \in Package /\ o.name \in Name /\ o.name # Default[o.package]
      /\ \A x, y \in marker.overrides : x.package = y.package \/ x.name = y.name => x = y
  <2>1. OverridesOk(doc.overrides)
    BY DEF ParseOk
  <2>. QED BY <1>3, <2>1 DEF OverridesOk, Distinct, PackageOf, NameOf, ToSet
<1>8. /\ \A t \in marker.managed : ManagedTableOk(t)
      /\ \A x, y \in marker.managed : x.package = y.package \/ x.name = y.name => x = y
  <2>1. ManagedOk(doc.managed)
    BY DEF ParseOk
  <2>. QED BY <1>3, <2>1 DEF ManagedOk, Distinct, PackageOf, NameOf, ToSet
<1>9. /\ \A t \in marker.detached : t.package \in Package
      /\ \A x, y \in marker.detached : x.package = y.package => x = y
  <2>1. DetachedOk(doc.detached)
    BY DEF ParseOk
  <2>. QED BY <1>3, <2>1 DEF DetachedOk, Distinct, PackageOf, ToSet
<1>10. \A x \in marker.managed, y \in marker.detached : x.package # y.package
  BY <1>3 DEF ParseOk, ToSet
<1>11. marker = [id |-> marker.id, generation |-> marker.generation,
                 requirements |-> marker.requirements, overrides |-> marker.overrides,
                 managed |-> marker.managed, detached |-> marker.detached]
  BY <1>2, <1>3
<1>. QED BY <1>1, <1>4, <1>5, <1>6, <1>7, <1>8, <1>9, <1>10, <1>11 DEF Readable

(* What the marker of a whole target says of it.                           *)
RenamedIn(facts) ==
  {p \in DOMAIN facts.packages : facts.projections[p].name # Default[p]}

MarkerSays(marker, id, generation, facts) ==
  marker = [id |-> id, generation |-> generation, requirements |-> facts.reqs,
            overrides |-> {OverrideTable(p, facts.projections[p].name) : p \in RenamedIn(facts)},
            managed |-> ManagedTables(facts), detached |-> DetachedTables(facts)]

LEMMA MarkerOfWhole ==
  ASSUME NEW facts, WholeFacts(facts), NEW id, NEW generation
  PROVE  MarkerSays(MarkerFacts(id, generation, facts), id, generation, facts)
<1> DEFINE names == NamesIn(facts.projections)
           plan == FactsPlan(facts, names)
<1>1. /\ DOMAIN names = DOMAIN facts.packages
      /\ \A p \in DOMAIN names : names[p] = facts.projections[p].name
      /\ plan = [p \in DOMAIN names |-> ViewOf(facts.edges, names, p)]
  BY WholePlan DEF ShowsItsPlan
<1> HIDE DEF names
<1>2. \A p \in DOMAIN facts.packages : plan[p].name = facts.projections[p].name
  BY <1>1, ViewFields
<1>3. DOMAIN plan = DOMAIN facts.packages
  BY <1>1
<1>4. MarkerFacts(id, generation, facts) =
        [id |-> id, generation |-> generation, requirements |-> facts.reqs,
         overrides |-> {OverrideTable(p, plan[p].name) :
                          p \in {p \in DOMAIN plan : plan[p].name # Default[p]}},
         managed |-> ManagedTables(facts), detached |-> DetachedTables(facts)]
  BY Zenon DEF MarkerFacts, names
<1> HIDE DEF plan
<1>5. {p \in DOMAIN plan : plan[p].name # Default[p]} = RenamedIn(facts)
  BY <1>2, <1>3 DEF RenamedIn
<1>6. {OverrideTable(p, plan[p].name) : p \in RenamedIn(facts)}
        = {OverrideTable(p, facts.projections[p].name) : p \in RenamedIn(facts)}
  BY <1>2 DEF RenamedIn
<1>. QED BY <1>4, <1>5, <1>6 DEF MarkerSays

LEMMA WholeIsReadable ==
  ASSUME NEW facts, WholeFacts(facts), NEW id \in MarkerId, NEW generation \in 0..MaxSafeInteger,
         NEW marker, MarkerSays(marker, id, generation, facts)
  PROVE  Readable(marker)
<1> DEFINE name(p) == facts.projections[p].name
           table(p) == ManagedTable(p, name(p), facts.projections[p].mat, facts.packages[p],
                                    facts.projections[p].view)
           names == NamesIn(facts.projections)
<1>1. /\ marker.id = id /\ marker.generation = generation /\ marker.requirements = facts.reqs
      /\ marker.overrides = {OverrideTable(p, name(p)) : p \in RenamedIn(facts)}
      /\ marker.managed = ManagedTables(facts) /\ marker.detached = DetachedTables(facts)
  BY DEF MarkerSays
<1>2. /\ DOMAIN facts.packages \subseteq Package /\ IsFiniteSet(DOMAIN facts.packages)
      /\ IsFiniteSet(facts.reqs) /\ DOMAIN facts.projections = DOMAIN facts.packages
      /\ DOMAIN facts.baselines = DetachedIn(facts.projections)
  BY DEF WholeFacts, GraphFits
<1>3. \A p \in DOMAIN facts.packages : ProjectionRow(p, facts.projections[p])
  BY DEF WholeFacts
<1>4. \A p, q \in DOMAIN facts.packages : name(p) = name(q) => p = q
  <2>1. /\ DOMAIN names = DOMAIN facts.packages
        /\ \A p \in DOMAIN names : names[p] = name(p)
        /\ \A p, q \in DOMAIN names : names[p] = names[q] => p = q
    BY WholePlan DEF ShowsItsPlan
  <2> HIDE DEF names, name
  <2>. QED BY <2>1
<1>5. \A p \in ManagedIn(facts.projections) :
        /\ p \in DOMAIN facts.packages /\ facts.projections[p].owner = "managed"
        /\ facts.projections[p].view = ViewOf(facts.edges, names, p)
  BY <1>2, <1>3, WholePlan DEF ShowsItsPlan, ManagedIn, DetachedIn, ProjectionRow
<1>6. \A p \in DetachedIn(facts.projections) :
        p \in DOMAIN facts.packages /\ p \notin ManagedIn(facts.projections)
  BY <1>2 DEF ManagedIn, DetachedIn
<1>7. marker.managed = {table(p) : p \in ManagedIn(facts.projections)}
  BY <1>1 DEF ManagedTables
<1>8. marker.detached = {DetachedTable(p, facts.baselines[p]) : p \in DetachedIn(facts.projections)}
  BY <1>1, <1>2 DEF DetachedTables
<1>9. /\ \A p \in ManagedIn(facts.projections) :
           /\ table(p).package = p /\ table(p).name = name(p)
           /\ table(p).mat = facts.projections[p].mat
           /\ table(p).view = facts.projections[p].view
      /\ \A p : DetachedTable(p, facts.baselines[p]).package = p
      /\ \A p : OverrideTable(p, name(p)).package = p /\ OverrideTable(p, name(p)).name = name(p)
  BY DEF ManagedTable, DetachedTable, OverrideTable
<1> HIDE DEF table, name
<1>10. IsFiniteSet(marker.overrides)
  <2>1. IsFiniteSet(RenamedIn(facts))
    BY <1>2, FS_Subset DEF RenamedIn
  <2>2. PICK f : f = [p \in RenamedIn(facts) |-> OverrideTable(p, name(p))]
    OBVIOUS
  <2>3. IsFiniteSet({f[p] : p \in RenamedIn(facts)})
    BY <2>1, FiniteImage
  <2>4. {f[p] : p \in RenamedIn(facts)} = {OverrideTable(p, name(p)) : p \in RenamedIn(facts)}
    BY <2>2
  <2>. QED BY <1>1, <2>3, <2>4
<1>11. IsFiniteSet(marker.managed)
  <2>1. IsFiniteSet(ManagedIn(facts.projections))
    BY <1>2, FS_Subset DEF ManagedIn
  <2>2. PICK f : f = [p \in ManagedIn(facts.projections) |-> table(p)]
    OBVIOUS
  <2>3. IsFiniteSet({f[p] : p \in ManagedIn(facts.projections)})
    BY <2>1, FiniteImage
  <2>4. {f[p] : p \in ManagedIn(facts.projections)} = {table(p) : p \in ManagedIn(facts.projections)}
    BY <2>2
  <2>. QED BY <1>7, <2>3, <2>4
<1>12. IsFiniteSet(marker.detached)
  <2>1. IsFiniteSet(DetachedIn(facts.projections))
    BY <1>2, FS_Subset DEF DetachedIn
  <2>2. PICK f : f = [p \in DetachedIn(facts.projections) |-> DetachedTable(p, facts.baselines[p])]
    OBVIOUS
  <2>3. IsFiniteSet({f[p] : p \in DetachedIn(facts.projections)})
    BY <2>1, FiniteImage
  <2>4. {f[p] : p \in DetachedIn(facts.projections)}
          = {DetachedTable(p, facts.baselines[p]) : p \in DetachedIn(facts.projections)}
    BY <2>2
  <2>. QED BY <1>8, <2>3, <2>4
<1>13. /\ \A req \in marker.requirements : RequirementTableOk(req)
       /\ \A x, y \in marker.requirements : Requirer(x) = Requirer(y) => x = y
  <2>1. \A req \in facts.reqs : RequirementTableOk(req)
    BY DEF WholeFacts, GraphFits, RequirementRow, RequirementTableOk
  <2>2. \A x, y \in facts.reqs : Requirer(x) = Requirer(y) => x = y
    BY DEF WholeFacts, RequirementsAgree, Requirer
  <2>. QED BY <1>1, <2>1, <2>2
<1>14. /\ \A o \in marker.overrides :
            o.package \in Package /\ o.name \in Name /\ o.name # Default[o.package]
       /\ \A x, y \in marker.overrides : x.package = y.package \/ x.name = y.name => x = y
  <2>1. \A p \in RenamedIn(facts) :
          p \in DOMAIN facts.packages /\ name(p) \in Name /\ name(p) # Default[p]
    BY <1>3 DEF RenamedIn, ProjectionRow, name
  <2>2. \A o \in marker.overrides : \E p \in RenamedIn(facts) : o = OverrideTable(p, name(p))
    BY <1>1
  <2>3. \A o \in marker.overrides :
          o.package \in Package /\ o.name \in Name /\ o.name # Default[o.package]
    BY <1>2, <1>9, <2>1, <2>2
  <2>4. ASSUME NEW x \in marker.overrides, NEW y \in marker.overrides,
               x.package = y.package \/ x.name = y.name
        PROVE  x = y
    <3>1. PICK p \in RenamedIn(facts) : x = OverrideTable(p, name(p))
      BY <2>2
    <3>2. PICK q \in RenamedIn(facts) : y = OverrideTable(q, name(q))
      BY <2>2
    <3>3. p = q
      BY <1>4, <1>9, <2>1, <2>4, <3>1, <3>2
    <3>. QED BY <3>1, <3>2, <3>3
  <2>. QED BY <2>3, <2>4
<1>15. \A t \in marker.managed : ManagedTableOk(t)
  <2> SUFFICES ASSUME NEW p \in ManagedIn(facts.projections) PROVE ManagedTableOk(table(p))
    BY <1>7
  <2>1. p \in Package /\ name(p) \in Name /\ table(p).mat \in {"link", "copy"}
    <3>1. p \in DOMAIN facts.packages /\ ProjectionRow(p, facts.projections[p])
      BY <1>3, <1>5
    <3>2. table(p).mat = facts.projections[p].mat
      BY <1>9
    <3>. QED BY <1>2, <3>1, <3>2 DEF ProjectionRow, name
  <2>2. ~Direct(p, table(p).view) => table(p).mat = "copy"
    <3>1. ProjectionRow(p, facts.projections[p])
      BY <1>3, <1>5
    <3>2. table(p).mat = facts.projections[p].mat /\ table(p).view = facts.projections[p].view
      BY <1>9
    <3>. QED BY <3>1, <3>2 DEF ProjectionRow
  <2>3. CanonicalView(table(p).view)
    <3>1. table(p).view = ViewOf(facts.edges, names, p)
      BY <1>5, <1>9
    <3>2. \A r \in table(p).view.routes :
            \E q \in DOMAIN names : r = <<q, names[q]>> /\ names[q] # Default[q]
      BY <3>1, ViewFields
    <3>3. DOMAIN names \subseteq Package
      BY <1>2, WholePlan DEF ShowsItsPlan
    <3> HIDE DEF names
    <3>. QED BY <3>2, <3>3 DEF CanonicalView
  <2>. QED BY <1>9, <2>1, <2>2, <2>3 DEF ManagedTableOk
<1>16. \A x, y \in marker.managed : x.package = y.package \/ x.name = y.name => x = y
  <2> SUFFICES ASSUME NEW p \in ManagedIn(facts.projections), NEW q \in ManagedIn(facts.projections),
                      table(p).package = table(q).package \/ table(p).name = table(q).name
               PROVE  table(p) = table(q)
    BY <1>7
  <2>1. p = q
    BY <1>4, <1>5, <1>9
  <2>. QED BY <2>1
<1>17. /\ \A t \in marker.detached : t.package \in Package
       /\ \A x, y \in marker.detached : x.package = y.package => x = y
       /\ \A x \in marker.managed, y \in marker.detached : x.package # y.package
  BY <1>2, <1>6, <1>7, <1>8, <1>9
<1>18. marker = [id |-> marker.id, generation |-> marker.generation,
                 requirements |-> marker.requirements, overrides |-> marker.overrides,
                 managed |-> marker.managed, detached |-> marker.detached]
  BY <1>1 DEF MarkerSays, name
<1>19. marker.id \in MarkerId /\ marker.generation \in 0..MaxSafeInteger
       /\ IsFiniteSet(marker.requirements)
  BY <1>1, <1>2
<1>. QED BY <1>10, <1>11, <1>12, <1>13, <1>14, <1>15, <1>16, <1>17, <1>18, <1>19 DEF Readable

(* The marker of a whole target can be read, keeps all there is to it, is  *)
(* the same whoever writes it, and what it says plans the target again.    *)
THEOREM MarkerKeepsWholeState ==
  ASSUME NEW facts, WholeFacts(facts), NEW id \in MarkerId, NEW generation \in 0..MaxSafeInteger
  PROVE  MarkerKeepsState(id, generation, facts)
<1>1. PICK marker : marker = MarkerFacts(id, generation, facts)
  OBVIOUS
<1>2. MarkerSays(marker, id, generation, facts)
  BY <1>1, MarkerOfWhole
<1>3. Readable(marker)
  BY <1>2, WholeIsReadable
<1>4. ParseOk(Written(marker)) /\ Parsed(Written(marker)) = marker
  BY <1>3, ReadableIsRead
<1>5. RegistryMarkerFacts(id, generation, facts) = marker
  <2> DEFINE all == {OverrideTable(p, facts.projections[p].name) : p \in DOMAIN facts.projections}
             stored == [id |-> id, generation |-> generation, requirements |-> facts.reqs,
                        overrides |-> all,
                        managed |-> ManagedTables(facts), detached |-> DetachedTables(facts)]
  <2>1. {o \in all : o.name # Default[o.package]}
          = {OverrideTable(p, facts.projections[p].name) : p \in RenamedIn(facts)}
    <3>1. DOMAIN facts.projections = DOMAIN facts.packages
      BY DEF WholeFacts
    <3>. QED BY <3>1 DEF OverrideTable, RenamedIn
  <2>2. {o \in marker.overrides : o.name # Default[o.package]} = marker.overrides
    BY <1>3 DEF Readable
  <2>3. marker.overrides = {OverrideTable(p, facts.projections[p].name) : p \in RenamedIn(facts)}
        /\ marker.id = id /\ marker.generation = generation /\ marker.requirements = facts.reqs
        /\ marker.managed = ManagedTables(facts) /\ marker.detached = DetachedTables(facts)
    BY <1>2 DEF MarkerSays
  <2> HIDE DEF all
  <2>4. Written(stored) = Written(marker)
    BY <2>1, <2>2, <2>3 DEF Written
  <2>5. RegistryMarkerFacts(id, generation, facts) = Parsed(Written(stored))
    BY Zenon DEF RegistryMarkerFacts, all
  <2>. QED BY <1>4, <2>4, <2>5
<1>6. RecoveredPlan(Parsed(Written(marker)), facts) = FactsPlan(facts, NamesIn(facts.projections))
  <2>1. marker.requirements = facts.reqs
        /\ marker.overrides = {OverrideTable(p, facts.projections[p].name) : p \in RenamedIn(facts)}
    BY <1>2 DEF MarkerSays
  <2>2. {<<o.package, o.name>> : o \in marker.overrides} = Renames(NamesIn(facts.projections))
    <3>1. /\ DOMAIN NamesIn(facts.projections) = DOMAIN facts.packages
          /\ \A p \in DOMAIN facts.packages :
               NamesIn(facts.projections)[p] = facts.projections[p].name
      BY WholePlan DEF ShowsItsPlan
    <3>2. {<<o.package, o.name>> : o \in marker.overrides}
            = {<<p, facts.projections[p].name>> : p \in RenamedIn(facts)}
      <4> DEFINE over(p) == OverrideTable(p, facts.projections[p].name)
      <4>1. \A p : over(p).package = p /\ over(p).name = facts.projections[p].name
        BY DEF OverrideTable
      <4>2. marker.overrides = {over(p) : p \in RenamedIn(facts)}
        BY <2>1
      <4> HIDE DEF over
      <4>. QED BY <4>1, <4>2
    <3>. QED BY <3>1, <3>2 DEF Renames, RenamedIn
  <2>. QED BY <1>4, <2>1, <2>2 DEF RecoveredPlan, FactsPlan
<1>. QED BY <1>1, <1>4, <1>5, <1>6 DEF MarkerKeepsState

----------------------------------------------------------------------------
(* Nothing is applied that was not accepted.                               *)

(* Two sources without a delta differ at most in the ref of a git source.  *)
LEMMA NoDeltaSameSource ==
  ASSUME NEW r, NEW s, NEW t, SourceRow(s), SourceRow(t), ChangedSource(r, s, t) = {},
         s.source = "git" => s.version = t.version
  PROVE  s = t
<1>1. s.source = t.source
  <2>. SUFFICES ASSUME s.source # t.source PROVE FALSE
    OBVIOUS
  <2>1. ChangedSource(r, s, t) = {Delta("source-kind-changed", r)}
    BY DEF ChangedSource
  <2>. QED BY <2>1
<1>2. CASE s.source = "git"
  <2>1. s.commit = t.commit
    <3>. SUFFICES ASSUME s.commit # t.commit PROVE FALSE
      OBVIOUS
    <3>1. ChangedSource(r, s, t) = {Delta("git-commit-changed", r)}
      BY <1>1, <1>2 DEF ChangedSource
    <3>. QED BY <3>1
  <2>. QED BY <1>1, <1>2, <2>1 DEF SourceRow
<1>3. CASE s.source # "git"
  <2>1. ReleaseDeltas(r, s, t) = {}
    BY <1>1, <1>3 DEF ChangedSource
  <2>2. /\ s.version = t.version /\ s.tag = t.tag
        /\ ~(s.commit # t.commit /\ s.tag = t.tag) /\ s.immutable = t.immutable
    BY <2>1 DEF ReleaseDeltas, When
  <2>3. /\ s = [source |-> "release", version |-> s.version, tag |-> s.tag,
                commit |-> s.commit, immutable |-> s.immutable]
        /\ t = [source |-> "release", version |-> t.version, tag |-> t.tag,
                commit |-> t.commit, immutable |-> t.immutable]
    BY <1>1, <1>3 DEF SourceRow
  <2>. QED BY <2>2, <2>3
<1>. QED BY <1>2, <1>3

(* What has no deltas and the same requirements is the same state.         *)
LEMMA NoChangeSameState ==
  ASSUME NEW old, NEW new, WholeState(old), WholeState(new), NEW renamed,
         NoChange(old, new, renamed)
  PROVE  old = new
<1> DEFINE s(r) == old.sources[r]
           t(r) == new.sources[r]
           changed(p) == IF old.packages[p] = new.packages[p] THEN {}
                         ELSE {Delta("package-content-changed", p)}
<1>1. old.reqs = new.reqs
  BY DEF NoChange
<1>2. DOMAIN old.sources = DOMAIN new.sources
      /\ \A r \in DOMAIN old.sources : ChangedSource(r, s(r), t(r)) = {}
  <2>1. SourceDeltas(old, new) = {}
    BY DEF NoChange
  <2>2. PICK deltas : deltas = [r \in DOMAIN old.sources \cap DOMAIN new.sources |->
                                  ChangedSource(r, s(r), t(r))]
    OBVIOUS
  <2>3. \A r \in DOMAIN old.sources \cap DOMAIN new.sources :
          deltas[r] = ChangedSource(r, s(r), t(r))
    BY <2>2
  <2>4. {ChangedSource(r, s(r), t(r)) : r \in DOMAIN old.sources \cap DOMAIN new.sources}
          = {deltas[r] : r \in DOMAIN old.sources \cap DOMAIN new.sources}
    BY <2>3
  <2>5. DOMAIN old.sources = DOMAIN new.sources
        /\ \A r \in DOMAIN old.sources : deltas[r] = {}
    <3>1. /\ {Delta("repository-added", r) : r \in DOMAIN new.sources \ DOMAIN old.sources} = {}
          /\ {Delta("repository-removed", r) : r \in DOMAIN old.sources \ DOMAIN new.sources} = {}
          /\ UNION {deltas[r] : r \in DOMAIN old.sources \cap DOMAIN new.sources} = {}
      BY <2>1, <2>4 DEF SourceDeltas, Compare
    <3>2. DOMAIN old.sources = DOMAIN new.sources
      BY <3>1
    <3>3. \A r \in DOMAIN old.sources \cap DOMAIN new.sources : deltas[r] = {}
      BY <3>1
    <3>. QED BY <3>2, <3>3
  <2>. QED BY <2>3, <2>5
<1>3. ASSUME NEW r \in DOMAIN old.sources
      PROVE  s(r) = t(r)
  <2>1. SourceRow(s(r)) /\ SourceRow(t(r)) /\ ChangedSource(r, s(r), t(r)) = {}
    BY <1>2 DEF WholeState, GraphFits
  <2>2. s(r).source = "git" => s(r).version = t(r).version
    <3>. SUFFICES ASSUME s(r).source = "git" PROVE s(r).version = t(r).version
      OBVIOUS
    <3>1. GraphFits(old) /\ GraphFits(new)
      BY DEF WholeState
    <3>2. t(r).source = "git"
      <4>. SUFFICES ASSUME t(r).source # "git" PROVE FALSE
        OBVIOUS
      <4>1. ChangedSource(r, s(r), t(r)) = {Delta("source-kind-changed", r)}
        BY DEF ChangedSource
      <4>. QED BY <2>1, <4>1
    <3>3. PICK req \in old.reqs : RepositoryAt(req) = r
      BY <3>1, GitRefs
    <3>4. req.want = s(r).version
      BY <3>1, <3>3, GitRefs
    <3>5. req.want = t(r).version
      BY <1>1, <1>2, <3>1, <3>2, <3>3, GitRefs
    <3>. QED BY <3>4, <3>5
  <2>. QED BY <2>1, <2>2, NoDeltaSameSource
<1>4. old.sources = new.sources
  <2>1. IsFunction(old.sources) /\ IsFunction(new.sources)
    BY DEF WholeState
  <2>. QED BY <1>2, <1>3, <2>1 DEF IsFunction
<1>5. DOMAIN old.packages = DOMAIN new.packages
      /\ \A p \in DOMAIN old.packages : changed(p) = {}
  <2>1. PackageDeltas(old, new) = {}
    BY DEF NoChange
  <2>2. PICK deltas : deltas = [p \in DOMAIN old.packages \cap DOMAIN new.packages |-> changed(p)]
    OBVIOUS
  <2>3. \A p \in DOMAIN old.packages \cap DOMAIN new.packages : deltas[p] = changed(p)
    BY <2>2
  <2>4. {changed(p) : p \in DOMAIN old.packages \cap DOMAIN new.packages}
          = {deltas[p] : p \in DOMAIN old.packages \cap DOMAIN new.packages}
    BY <2>3
  <2>5. DOMAIN old.packages = DOMAIN new.packages
        /\ \A p \in DOMAIN old.packages : deltas[p] = {}
    <3>1. /\ {Delta("package-added", p) : p \in DOMAIN new.packages \ DOMAIN old.packages} = {}
          /\ {Delta("package-removed", p) : p \in DOMAIN old.packages \ DOMAIN new.packages} = {}
          /\ UNION {deltas[p] : p \in DOMAIN old.packages \cap DOMAIN new.packages} = {}
      BY <2>1, <2>4 DEF PackageDeltas, Compare
    <3>2. DOMAIN old.packages = DOMAIN new.packages
      BY <3>1
    <3>3. \A p \in DOMAIN old.packages \cap DOMAIN new.packages : deltas[p] = {}
      BY <3>1
    <3>. QED BY <3>2, <3>3
  <2>. QED BY <2>3, <2>5
<1>6. old.packages = new.packages
  <2>1. IsFunction(old.packages) /\ IsFunction(new.packages)
    BY DEF WholeState
  <2>2. \A p \in DOMAIN old.packages : old.packages[p] = new.packages[p]
    BY <1>5
  <2>. QED BY <1>5, <2>1, <2>2 DEF IsFunction
<1>7. old.edges = new.edges
  BY DEF NoChange, EdgeDeltas
<1>8. /\ old = [reqs |-> old.reqs, sources |-> old.sources, packages |-> old.packages,
                edges |-> old.edges]
      /\ new = [reqs |-> new.reqs, sources |-> new.sources, packages |-> new.packages,
                edges |-> new.edges]
  BY DEF WholeState
<1>. QED BY <1>1, <1>4, <1>6, <1>7, <1>8

(* A tag that moved is a retarget.                                         *)
LEMMA MovedTagIsRetarget ==
  ASSUME NEW old, NEW new, NEW r \in DOMAIN old.sources \cap DOMAIN new.sources,
         old.sources[r].source = "release", new.sources[r].source = "release",
         old.sources[r].tag = new.sources[r].tag, old.sources[r].commit # new.sources[r].commit
  PROVE  r \in Retargets(old, new)
<1> DEFINE s == old.sources[r]
           t == new.sources[r]
           delta == Delta("release-retarget", r)
<1>1. delta \in ReleaseDeltas(r, s, t)
  BY DEF ReleaseDeltas, When
<1>2. ChangedSource(r, s, t) = ReleaseDeltas(r, s, t)
  BY DEF ChangedSource
<1>3. delta \in SourceDeltas(old, new)
  BY <1>1, <1>2 DEF SourceDeltas, Compare
<1>4. delta.kind = "release-retarget" /\ delta.at = r
  BY DEF Delta
<1> HIDE DEF delta
<1>. QED BY <1>3, <1>4 DEF Retargets

(* Whatever is decided about two resolved states: no change means the same *)
(* state, and what is applied was allowed by a flag or by an answer.       *)
THEOREM NothingUnasked ==
  ASSUME NEW old, NEW new, WholeState(old), WholeState(new),
         NEW invocation, NEW answers, NEW renamed, NEW detached
  PROVE  AppliesWhatWasAccepted(invocation, answers, old, new, renamed, detached)
<1> DEFINE outcome == Outcome(invocation, answers, old, new, renamed)
           asked == AsksTheUser(invocation)
           moved == {r \in DOMAIN old.sources \cap DOMAIN new.sources :
                       /\ old.sources[r].source = "release" /\ new.sources[r].source = "release"
                       /\ old.sources[r].tag = new.sources[r].tag
                       /\ old.sources[r].commit # new.sources[r].commit}
<1>1. outcome = "no-op" => old = new
  <2>1. outcome = "no-op" => NoChange(old, new, renamed)
    BY DEF Outcome, Interactive, NonInteractive
  <2>. QED BY <2>1, NoChangeSameState
<1>2. moved # {} => Retargets(old, new) # {}
  BY MovedTagIsRetarget
<1>3. outcome = "applied" =>
        \/ /\ asked /\ answers.apply
           /\ Retargets(old, new) = {} \/ answers.retarget
        \/ /\ ~asked /\ ~invocation.plan /\ invocation.yes
           /\ Retargets(old, new) = {} \/ invocation.allowRetarget
  BY DEF Outcome, Interactive, NonInteractive
<1>4. outcome = "applied" =>
        /\ ~invocation.plan /\ (invocation.yes \/ (asked /\ answers.apply))
        /\ moved # {} => IF asked THEN answers.retarget ELSE invocation.allowRetarget
        /\ NeedsRegistry(invocation)
  BY <1>2, <1>3, Zenon DEF AsksTheUser, NeedsRegistry
<1>5. ASSUME NEW r \in DOMAIN new.sources
      PROVE  Origin(new, r) # "none"
  <2>1. /\ {RepositoryOf[p] : p \in DOMAIN new.packages}
             \cup {RepositoryAt(req) : req \in new.reqs} = DOMAIN new.sources
        /\ Reachable(new.edges, Roots(new.reqs, DOMAIN new.packages)) = DOMAIN new.packages
    BY DEF WholeState, GraphFits
  <2>. QED BY <2>1 DEF Origin
<1>6. \A p \in detached \cap DOMAIN old.packages \cap DOMAIN new.packages :
        old.packages[p] # new.packages[p] => p \in DetachedRisks(old, new, detached)
  BY DEF DetachedRisks
<1>. QED BY <1>1, <1>4, <1>5, <1>6 DEF AppliesWhatWasAccepted

----------------------------------------------------------------------------
(* Requirements admit what they say.                                       *)

LEMMA LeastNatural ==
  ASSUME NEW T \in SUBSET Nat, T # {}
  PROVE  \E x \in T : \A y \in T : x <= y
<1>1. PICK x \in T : \A y \in T : <<y, x>> \notin OpToRel(<, Nat)
  BY NatLessThanWellFounded, WFMin
<1>2. ASSUME NEW y \in T
      PROVE  x <= y
  <2>1. y \in Nat /\ x \in Nat
    OBVIOUS
  <2>2. <<y, x>> \in Nat \X Nat
    BY <2>1
  <2>3. ~(<<y, x>>[1] < <<y, x>>[2])
    BY <1>1, <2>2 DEF OpToRel
  <2>. QED BY <2>1, <2>3
<1>. QED BY <1>2

LEMMA IdentifiersOrdered ==
  ASSUME NEW x \in Identifier, NEW y \in Identifier
  PROVE  /\ ~(IdBefore(x, y) /\ IdBefore(y, x))
         /\ x = y \/ IdBefore(x, y) \/ IdBefore(y, x)
         /\ ~IdBefore(x, x)
BY DEF Identifier, IdBefore

(* Pre-releases are ordered.                                               *)
LEMMA PreReleasesOneWay ==
  ASSUME NEW x \in Seq(Identifier), NEW y \in Seq(Identifier), PreBefore(x, y), PreBefore(y, x)
  PROVE  FALSE
<1>1. x # <<>> /\ y # <<>>
  BY DEF PreBefore
<1>2. /\ \/ Len(x) < Len(y) /\ SamePrefix(x, y, Len(x))
         \/ \E i \in 1..Len(x) : /\ i <= Len(y) /\ SamePrefix(x, y, i - 1)
                                 /\ x[i] # y[i] /\ IdBefore(x[i], y[i])
      /\ \/ Len(y) < Len(x) /\ SamePrefix(y, x, Len(y))
         \/ \E i \in 1..Len(y) : /\ i <= Len(x) /\ SamePrefix(y, x, i - 1)
                                 /\ y[i] # x[i] /\ IdBefore(y[i], x[i])
  BY <1>1 DEF PreBefore
<1>3. CASE Len(x) < Len(y) /\ SamePrefix(x, y, Len(x))
  BY <1>2, <1>3 DEF SamePrefix
<1>4. CASE Len(y) < Len(x) /\ SamePrefix(y, x, Len(y))
  BY <1>2, <1>4 DEF SamePrefix
<1>5. CASE (\E i \in 1..Len(x) : /\ i <= Len(y) /\ SamePrefix(x, y, i - 1)
                                 /\ x[i] # y[i] /\ IdBefore(x[i], y[i]))
           /\ (\E i \in 1..Len(y) : /\ i <= Len(x) /\ SamePrefix(y, x, i - 1)
                                    /\ y[i] # x[i] /\ IdBefore(y[i], x[i]))
  <2>1. PICK i \in 1..Len(x) : /\ i <= Len(y) /\ SamePrefix(x, y, i - 1)
                               /\ x[i] # y[i] /\ IdBefore(x[i], y[i])
    BY <1>5
  <2>2. PICK j \in 1..Len(y) : /\ j <= Len(x) /\ SamePrefix(y, x, j - 1)
                               /\ y[j] # x[j] /\ IdBefore(y[j], x[j])
    BY <1>5
  <2>3. i = j
    BY <2>1, <2>2 DEF SamePrefix
  <2>4. x[i] \in Identifier /\ y[i] \in Identifier
    BY <2>1
  <2>. QED BY <2>1, <2>2, <2>3, <2>4, IdentifiersOrdered
<1>. QED BY <1>2, <1>3, <1>4, <1>5

LEMMA PreReleasesCompare ==
  ASSUME NEW x \in Seq(Identifier), NEW y \in Seq(Identifier)
  PROVE  x = y \/ PreBefore(x, y) \/ PreBefore(y, x)
<1>. SUFFICES ASSUME x # <<>>, y # <<>>, x # y
              PROVE  PreBefore(x, y) \/ PreBefore(y, x)
  BY DEF PreBefore
<1> DEFINE T == {i \in 1..Len(x) : i <= Len(y) /\ x[i] # y[i]}
<1>1. CASE T = {}
  <2>1. \A i \in 1..Len(x) : i <= Len(y) => x[i] = y[i]
    BY <1>1
  <2>2. Len(x) # Len(y)
    BY <2>1
  <2>3. CASE Len(x) < Len(y)
    BY <2>1, <2>3 DEF PreBefore, SamePrefix
  <2>4. CASE Len(y) < Len(x)
    BY <2>1, <2>4 DEF PreBefore, SamePrefix
  <2>. QED BY <2>2, <2>3, <2>4
<1>2. CASE T # {}
  <2>1. PICK i \in T : \A j \in T : i <= j
    <3>1. T \in SUBSET Nat
      OBVIOUS
    <3> HIDE DEF T
    <3>. QED BY <1>2, <3>1, LeastNatural
  <2>2. i \in 1..Len(x) /\ i \in 1..Len(y) /\ x[i] # y[i]
    BY <2>1
  <2>3. SamePrefix(x, y, i - 1) /\ SamePrefix(y, x, i - 1)
    <3>1. \A j \in 1..(i - 1) : j \notin T /\ j \in 1..Len(x) /\ j <= Len(y)
      BY <2>1, <2>2
    <3>. QED BY <3>1 DEF SamePrefix
  <2>4. IdBefore(x[i], y[i]) \/ IdBefore(y[i], x[i])
    BY <2>2, IdentifiersOrdered
  <2>. QED BY <2>2, <2>3, <2>4 DEF PreBefore
<1>. QED BY <1>1, <1>2

(* So of two pre-releases neither, one or both are at least the other.     *)
Ordered(x, y) ==
  /\ PreBefore(x, y) => ~PreBefore(y, x) /\ x # y
  /\ x = y \/ PreBefore(x, y) \/ PreBefore(y, x)
  /\ ~PreBefore(<<>>, x)
  /\ PreBefore(x, <<>>) <=> x # <<>>

LEMMA PreReleasesOrdered ==
  ASSUME NEW x \in Seq(Identifier), NEW y \in Seq(Identifier)
  PROVE  Ordered(x, y) /\ Ordered(y, x)
<1>1. ~(PreBefore(x, y) /\ PreBefore(y, x))
  BY PreReleasesOneWay
<1>2. ~PreBefore(x, x)
  BY PreReleasesOneWay
<1>3. \A z : ~PreBefore(<<>>, z)
  BY DEF PreBefore
<1>4. \A z : PreBefore(z, <<>>) <=> z # <<>>
  BY DEF PreBefore
<1>. QED BY <1>1, <1>2, <1>3, <1>4, PreReleasesCompare DEF Ordered

LEMMA ShortPrefixes ==
  ASSUME NEW x, NEW y
  PROVE  /\ SamePrefix(x, y, 1) <=> x[1] = y[1]
         /\ SamePrefix(x, y, 2) <=> x[1] = y[1] /\ x[2] = y[2]
         /\ SamePrefix(x, y, 3) <=> x[1] = y[1] /\ x[2] = y[2] /\ x[3] = y[3]
<1>1. 1..1 = {1} /\ 1..2 = {1, 2} /\ 1..3 = {1, 2, 3}
  OBVIOUS
<1>. QED BY <1>1 DEF SamePrefix

LEMMA Numbers ==
  ASSUME NEW x, NEW y
  PROVE  /\ NumbersBefore(x, y, 1) <=> x[1] < y[1]
         /\ NumbersBefore(x, y, 2) <=> x[1] < y[1] \/ (x[1] = y[1] /\ x[2] < y[2])
         /\ NumbersBefore(x, y, 3) <=> \/ x[1] < y[1] \/ (x[1] = y[1] /\ x[2] < y[2])
                                       \/ x[1] = y[1] /\ x[2] = y[2] /\ x[3] < y[3]
<1>1. 1..1 = {1} /\ 1..2 = {1, 2} /\ 1..3 = {1, 2, 3}
  OBVIOUS
<1>2. SamePrefix(x, y, 1 - 1)
  BY DEF SamePrefix
<1>3. 2 - 1 = 1 /\ 3 - 1 = 2
  OBVIOUS
<1>. QED BY <1>1, <1>2, <1>3, ShortPrefixes DEF NumbersBefore

(* What a requirement writes, padded to three numbers, and where its       *)
(* interval ends.                                                          *)
IsComparator(c) ==
  /\ c.op \in Operators \cup {"wildcard"}
  /\ c.at \in Seq(Nat) /\ Len(c.at) \in 1..3
  /\ c.pre \in Seq(Identifier) /\ (c.pre # <<>> => Len(c.at) = 3)

LEMMA PadParts ==
  ASSUME NEW at
  PROVE  /\ Pad(at) \in [1..3 -> Nat] <=> \A i \in 1..3 : i <= Len(at) => at[i] \in Nat
         /\ Pad(at)[1] = IF 1 <= Len(at) THEN at[1] ELSE 0
         /\ Pad(at)[2] = IF 2 <= Len(at) THEN at[2] ELSE 0
         /\ Pad(at)[3] = IF 3 <= Len(at) THEN at[3] ELSE 0
BY DEF Pad

LEMMA NextParts ==
  ASSUME NEW at \in [1..3 -> Nat]
  PROVE  /\ Next3(at, 1)[1] = at[1] + 1 /\ Next3(at, 1)[2] = 0 /\ Next3(at, 1)[3] = 0
         /\ Next3(at, 2)[1] = at[1] /\ Next3(at, 2)[2] = at[2] + 1 /\ Next3(at, 2)[3] = 0
         /\ Next3(at, 3)[1] = at[1] /\ Next3(at, 3)[2] = at[2] /\ Next3(at, 3)[3] = at[3] + 1
BY DEF Next3

LEMMA CaretParts ==
  ASSUME NEW c, IsComparator(c)
  PROVE  CaretPart(c) = IF c.at[1] # 0 \/ Len(c.at) = 1 THEN 1
                        ELSE IF c.at[2] # 0 \/ Len(c.at) = 2 THEN 2
                        ELSE 3
<1>1. PICK n \in 1..3 : n = Len(c.at)
  BY DEF IsComparator
<1>. SUFFICES CaretPart(c) = IF c.at[1] # 0 \/ n = 1 THEN 1
                             ELSE IF c.at[2] # 0 \/ n = 2 THEN 2
                             ELSE 3
  BY <1>1
<1>2. CASE ~\E i \in 1..n : c.at[i] # 0
  <2>1. CaretPart(c) = n
    BY <1>1, <1>2 DEF CaretPart
  <2>2. c.at[1] = 0 /\ (n >= 2 => c.at[2] = 0)
    BY <1>2
  <2>. QED BY <2>1, <2>2
<1>3. CASE \E i \in 1..n : c.at[i] # 0
  <2>1. PICK k \in 1..n : c.at[k] # 0 /\ \A j \in 1..(k - 1) : c.at[j] = 0
    <3>1. CASE c.at[1] # 0
      <4>1. 1 \in 1..n
        OBVIOUS
      <4>2. \A j \in 1..(1 - 1) : c.at[j] = 0
        OBVIOUS
      <4>. QED BY <3>1, <4>1, <4>2
    <3>2. CASE c.at[1] = 0 /\ n >= 2 /\ c.at[2] # 0
      <4>1. 2 \in 1..n /\ \A j \in 1..(2 - 1) : c.at[j] = 0
        BY <3>2
      <4>. QED BY <3>2, <4>1
    <3>3. CASE c.at[1] = 0 /\ (n >= 2 => c.at[2] = 0)
      <4>1. PICK i \in 1..n : c.at[i] # 0
        BY <1>3
      <4>2. i = 3
        BY <3>3, <4>1
      <4>3. \A j \in 1..(3 - 1) : c.at[j] = 0
        BY <3>3, <4>2
      <4>. QED BY <4>1, <4>2, <4>3
    <3>. QED BY <3>1, <3>2, <3>3
  <2>2. CaretPart(c) \in 1..n /\ c.at[CaretPart(c)] # 0
        /\ \A j \in 1..(CaretPart(c) - 1) : c.at[j] = 0
    BY <1>1, <1>3, <2>1 DEF CaretPart
  <2>3. PICK k1 \in 1..n : k1 = CaretPart(c)
    BY <2>2
  <2>4. c.at[k1] # 0 /\ \A j \in 1..(k1 - 1) : c.at[j] = 0
    BY <2>2, <2>3
  <2>5. CASE k1 = 1
    BY <2>3, <2>4, <2>5
  <2>6. CASE k1 = 2
    <3>1. c.at[1] = 0 /\ n # 1
      BY <2>4, <2>6
    <3>. QED BY <2>3, <2>4, <2>6, <3>1
  <2>7. CASE k1 = 3
    <3>1. c.at[1] = 0 /\ c.at[2] = 0 /\ n = 3
      BY <2>4, <2>7
    <3>. QED BY <2>3, <2>7, <3>1
  <2>. QED BY <2>5, <2>6, <2>7
<1>. QED BY <1>2, <1>3

(* The lowest version a comparator names, and how a version compares.      *)
Low(c) == [at |-> Pad(c.at), pre |-> c.pre]

(* x comes before y, by their numbers and then by what r says of the rest. *)
FirstAt(x, y, r) ==
  \/ x[1] < y[1]
  \/ x[1] = y[1] /\ x[2] < y[2]
  \/ x[1] = y[1] /\ x[2] = y[2] /\ x[3] < y[3]
  \/ x[1] = y[1] /\ x[2] = y[2] /\ x[3] = y[3] /\ r

Comparable(c, v) ==
  /\ Pad(c.at) \in [1..3 -> Nat] /\ Len(c.at) \in {1, 2, 3}
  /\ c.at[1] \in Nat /\ (Len(c.at) >= 2 => c.at[2] \in Nat) /\ (Len(c.at) >= 3 => c.at[3] \in Nat)
  /\ v.at[1] \in Nat /\ v.at[2] \in Nat /\ v.at[3] \in Nat
  /\ v = Low(c) <=> /\ v.at[1] = Pad(c.at)[1] /\ v.at[2] = Pad(c.at)[2] /\ v.at[3] = Pad(c.at)[3]
                    /\ v.pre = c.pre
  /\ Before(v, Low(c)) <=> FirstAt(v.at, Pad(c.at), PreBefore(v.pre, c.pre))
  /\ Before(Low(c), v) <=> FirstAt(Pad(c.at), v.at, PreBefore(c.pre, v.pre))
  /\ Ordered(v.pre, c.pre) /\ Ordered(c.pre, v.pre)

LEMMA Comparisons ==
  ASSUME NEW c, NEW v, IsComparator(c), IsVersion(v)
  PROVE  Comparable(c, v)
<1>1. Pad(c.at) \in [1..3 -> Nat] /\ v.at \in [1..3 -> Nat]
  <2>1. c.at \in Seq(Nat)
    BY DEF IsComparator
  <2>2. \A i \in 1..3 : (IF i <= Len(c.at) THEN c.at[i] ELSE 0) \in Nat
    BY <2>1
  <2>. QED BY <2>2 DEF Pad, IsVersion
<1>2. v.at = Pad(c.at) <=> \A i \in 1..3 : v.at[i] = Pad(c.at)[i]
  BY <1>1
<1>3. v.at = Pad(c.at) <=>
        v.at[1] = Pad(c.at)[1] /\ v.at[2] = Pad(c.at)[2] /\ v.at[3] = Pad(c.at)[3]
  <2>1. \A i : i \in 1..3 <=> i = 1 \/ i = 2 \/ i = 3
    OBVIOUS
  <2>. QED BY <1>2, <2>1
<1>4. v = Low(c) <=> v.at = Pad(c.at) /\ v.pre = c.pre
  BY DEF Low, IsVersion
<1>5. Low(c).at = Pad(c.at) /\ Low(c).pre = c.pre
  BY DEF Low
<1>6. Before(v, Low(c)) <=> FirstAt(v.at, Pad(c.at), PreBefore(v.pre, c.pre))
  BY <1>3, <1>5, Numbers DEF Before, FirstAt
<1>7. Before(Low(c), v) <=> FirstAt(Pad(c.at), v.at, PreBefore(c.pre, v.pre))
  BY <1>3, <1>5, Numbers DEF Before, FirstAt
<1>8. Ordered(v.pre, c.pre) /\ Ordered(c.pre, v.pre)
  <2>1. v.pre \in Seq(Identifier) /\ c.pre \in Seq(Identifier)
    BY DEF IsVersion, IsComparator
  <2>. QED BY <2>1, PreReleasesOrdered
<1>9. Len(c.at) \in {1, 2, 3} /\ c.at[1] \in Nat
      /\ (Len(c.at) >= 2 => c.at[2] \in Nat) /\ (Len(c.at) >= 3 => c.at[3] \in Nat)
  <2>1. c.at \in Seq(Nat) /\ Len(c.at) \in 1..3
    BY DEF IsComparator
  <2>2. \A i \in Nat : 1 <= i /\ i <= Len(c.at) => c.at[i] \in Nat
    BY <2>1
  <2>. QED BY <2>1, <2>2
<1>10. v.at[1] \in Nat /\ v.at[2] \in Nat /\ v.at[3] \in Nat
  BY <1>1
<1>. QED BY <1>1, <1>3, <1>4, <1>6, <1>7, <1>8, <1>9, <1>10 DEF Comparable

(* Below the next: the numbers up to the i-th do not exceed those written. *)
Below(c, v, i) == NumbersBefore(v.at, Next3(Pad(c.at), i), 3)

LEMMA BelowNext ==
  ASSUME NEW c, NEW v, Comparable(c, v)
  PROVE  /\ Below(c, v, 1) <=> v.at[1] <= Pad(c.at)[1]
         /\ Below(c, v, 2) <=> v.at[1] < Pad(c.at)[1]
                               \/ (v.at[1] = Pad(c.at)[1] /\ v.at[2] <= Pad(c.at)[2])
         /\ Below(c, v, 3) <=> \/ v.at[1] < Pad(c.at)[1]
                               \/ (v.at[1] = Pad(c.at)[1] /\ v.at[2] < Pad(c.at)[2])
                               \/ /\ v.at[1] = Pad(c.at)[1] /\ v.at[2] = Pad(c.at)[2]
                                  /\ v.at[3] <= Pad(c.at)[3]
<1>1. Pad(c.at)[1] \in Nat /\ Pad(c.at)[2] \in Nat /\ Pad(c.at)[3] \in Nat
  BY DEF Comparable
<1>2. v.at[1] \in Nat /\ v.at[2] \in Nat /\ v.at[3] \in Nat
  BY DEF Comparable
<1>3. \A i \in 1..3 : Below(c, v, i) <=>
        LET y == Next3(Pad(c.at), i) IN
        \/ v.at[1] < y[1] \/ (v.at[1] = y[1] /\ v.at[2] < y[2])
        \/ v.at[1] = y[1] /\ v.at[2] = y[2] /\ v.at[3] < y[3]
  BY Numbers DEF Below
<1>4. Pad(c.at) \in [1..3 -> Nat]
  BY DEF Comparable
<1>. QED BY <1>1, <1>2, <1>3, <1>4, NextParts

(* Everything that takes part, where the comparator and the version are    *)
(* read the same way: with fewer numbers neither has a pre-release.        *)
Settled(c, v) ==
  LET a == c.at
      w == v.at
      p == Pad(c.at)
  IN /\ Len(a) \in {1, 2, 3} /\ w[1] \in Nat /\ w[2] \in Nat /\ w[3] \in Nat
     /\ p[1] \in Nat /\ p[2] \in Nat /\ p[3] \in Nat
     /\ a[1] = p[1] /\ (Len(a) = 1 => p[2] = 0 /\ p[3] = 0) /\ (Len(a) = 2 => p[3] = 0)
     /\ (Len(a) # 1 => a[2] = p[2]) /\ (Len(a) = 3 => a[3] = p[3])
     /\ v = Low(c) <=> w[1] = p[1] /\ w[2] = p[2] /\ w[3] = p[3] /\ v.pre = c.pre
     /\ Before(v, Low(c)) <=> FirstAt(w, p, PreBefore(v.pre, c.pre))
     /\ Before(Low(c), v) <=> FirstAt(p, w, PreBefore(c.pre, v.pre))
     /\ ~(PreBefore(v.pre, c.pre) /\ PreBefore(c.pre, v.pre))
     /\ v.pre = c.pre <=> ~PreBefore(v.pre, c.pre) /\ ~PreBefore(c.pre, v.pre)
     /\ Len(a) # 3 => v.pre = c.pre

(* And the comparisons the matcher makes.                                  *)
Compares(c, v) ==
  LET a == c.at
      w == v.at
      p == Pad(c.at)
  IN /\ Below(c, v, 1) <=> w[1] <= p[1]
     /\ Below(c, v, 2) <=> w[1] < p[1] \/ (w[1] = p[1] /\ w[2] <= p[2])
     /\ Below(c, v, 3) <=> \/ w[1] < p[1] \/ (w[1] = p[1] /\ w[2] < p[2])
                           \/ w[1] = p[1] /\ w[2] = p[2] /\ w[3] <= p[3]
     /\ SamePrefix(a, w, 1) <=> a[1] = w[1]
     /\ SamePrefix(a, w, 2) <=> a[1] = w[1] /\ a[2] = w[2]
     /\ SamePrefix(a, w, 3) <=> a[1] = w[1] /\ a[2] = w[2] /\ a[3] = w[3]
     /\ NumbersBefore(a, w, 1) <=> a[1] < w[1]
     /\ NumbersBefore(a, w, 2) <=> a[1] < w[1] \/ (a[1] = w[1] /\ a[2] < w[2])
     /\ NumbersBefore(a, w, 3) <=> \/ a[1] < w[1] \/ (a[1] = w[1] /\ a[2] < w[2])
                                   \/ a[1] = w[1] /\ a[2] = w[2] /\ a[3] < w[3]
     /\ NumbersBefore(w, a, 1) <=> w[1] < a[1]
     /\ NumbersBefore(w, a, 2) <=> w[1] < a[1] \/ (w[1] = a[1] /\ w[2] < a[2])
     /\ NumbersBefore(w, a, 3) <=> \/ w[1] < a[1] \/ (w[1] = a[1] /\ w[2] < a[2])
                                   \/ w[1] = a[1] /\ w[2] = a[2] /\ w[3] < a[3]

LEMMA BothSettled ==
  ASSUME NEW c, NEW v, IsComparator(c), IsVersion(v), v.pre = <<>> \/ Len(c.at) = 3
  PROVE  Settled(c, v) /\ Compares(c, v)
<1>1. Comparable(c, v)
  BY Comparisons
<1>2. Pad(c.at)[1] \in Nat /\ Pad(c.at)[2] \in Nat /\ Pad(c.at)[3] \in Nat
  BY <1>1 DEF Comparable
<1>3. Len(c.at) # 3 => v.pre = c.pre
  BY DEF IsComparator
<1>4. /\ ~(PreBefore(v.pre, c.pre) /\ PreBefore(c.pre, v.pre))
      /\ v.pre = c.pre <=> ~PreBefore(v.pre, c.pre) /\ ~PreBefore(c.pre, v.pre)
  BY <1>1 DEF Comparable, Ordered
<1>5. /\ Pad(c.at)[1] = IF 1 <= Len(c.at) THEN c.at[1] ELSE 0
      /\ Pad(c.at)[2] = IF 2 <= Len(c.at) THEN c.at[2] ELSE 0
      /\ Pad(c.at)[3] = IF 3 <= Len(c.at) THEN c.at[3] ELSE 0
  BY PadParts
<1>6. Settled(c, v)
  <2> DEFINE a == c.at
             w == v.at
             p == Pad(c.at)
  <2>1. Len(a) \in {1, 2, 3} /\ w[1] \in Nat /\ w[2] \in Nat /\ w[3] \in Nat
    BY <1>1 DEF Comparable
  <2>2. /\ a[1] = p[1] /\ (Len(a) = 1 => p[2] = 0 /\ p[3] = 0) /\ (Len(a) = 2 => p[3] = 0)
        /\ (Len(a) # 1 => a[2] = p[2]) /\ (Len(a) = 3 => a[3] = p[3])
    BY <1>5, <2>1
  <2>3. /\ v = Low(c) <=> w[1] = p[1] /\ w[2] = p[2] /\ w[3] = p[3] /\ v.pre = c.pre
        /\ Before(v, Low(c)) <=> FirstAt(w, p, PreBefore(v.pre, c.pre))
        /\ Before(Low(c), v) <=> FirstAt(p, w, PreBefore(c.pre, v.pre))
    BY <1>1 DEF Comparable
  <2>. QED BY <1>2, <1>3, <1>4, <2>1, <2>2, <2>3 DEF Settled
<1>7. Compares(c, v)
  <2> DEFINE a == c.at
             w == v.at
             p == Pad(c.at)
  <2>1. /\ Below(c, v, 1) <=> w[1] <= p[1]
        /\ Below(c, v, 2) <=> w[1] < p[1] \/ (w[1] = p[1] /\ w[2] <= p[2])
        /\ Below(c, v, 3) <=> \/ w[1] < p[1] \/ (w[1] = p[1] /\ w[2] < p[2])
                              \/ w[1] = p[1] /\ w[2] = p[2] /\ w[3] <= p[3]
    BY <1>1, BelowNext
  <2>2. /\ SamePrefix(a, w, 1) <=> a[1] = w[1]
        /\ SamePrefix(a, w, 2) <=> a[1] = w[1] /\ a[2] = w[2]
        /\ SamePrefix(a, w, 3) <=> a[1] = w[1] /\ a[2] = w[2] /\ a[3] = w[3]
    BY ShortPrefixes
  <2>3. /\ NumbersBefore(a, w, 1) <=> a[1] < w[1]
        /\ NumbersBefore(a, w, 2) <=> a[1] < w[1] \/ (a[1] = w[1] /\ a[2] < w[2])
        /\ NumbersBefore(a, w, 3) <=> \/ a[1] < w[1] \/ (a[1] = w[1] /\ a[2] < w[2])
                                      \/ a[1] = w[1] /\ a[2] = w[2] /\ a[3] < w[3]
    BY Numbers
  <2>4. /\ NumbersBefore(w, a, 1) <=> w[1] < a[1]
        /\ NumbersBefore(w, a, 2) <=> w[1] < a[1] \/ (w[1] = a[1] /\ w[2] < a[2])
        /\ NumbersBefore(w, a, 3) <=> \/ w[1] < a[1] \/ (w[1] = a[1] /\ w[2] < a[2])
                                      \/ w[1] = a[1] /\ w[2] = a[2] /\ w[3] < a[3]
    BY Numbers
  <2>. QED BY <2>1, <2>2, <2>3, <2>4 DEF Compares
<1>. QED BY <1>6, <1>7

(* Every operator.                                                         *)
LEMMA CaretInterval ==
  ASSUME NEW c, NEW v, IsComparator(c), Settled(c, v), Compares(c, v)
  PROVE  MatchesCaret(c, v) <=> ~Before(v, Low(c)) /\ Below(c, v, CaretPart(c))
<1>1. CaretPart(c) = IF c.at[1] # 0 \/ Len(c.at) = 1 THEN 1
                     ELSE IF c.at[2] # 0 \/ Len(c.at) = 2 THEN 2
                     ELSE 3
  BY CaretParts
<1>2. CASE Len(c.at) = 1
  BY <1>1, <1>2 DEF MatchesCaret, Settled, Compares, FirstAt, Major
<1>3. CASE Len(c.at) = 2
  BY <1>1, <1>3 DEF MatchesCaret, Settled, Compares, FirstAt, Major
<1>4. CASE Len(c.at) = 3
  BY <1>1, <1>4 DEF MatchesCaret, Settled, Compares, FirstAt, Major, PreAtLeast
<1>. QED BY <1>2, <1>3, <1>4 DEF Settled

LEMMA TildeInterval ==
  ASSUME NEW c, NEW v, Settled(c, v), Compares(c, v)
  PROVE  MatchesTilde(c, v) <=>
           ~Before(v, Low(c)) /\ Below(c, v, IF Len(c.at) = 1 THEN 1 ELSE 2)
<1>1. CASE Len(c.at) = 1
  BY <1>1 DEF MatchesTilde, Settled, Compares, FirstAt, Part, PreAtLeast
<1>2. CASE Len(c.at) = 2
  BY <1>2 DEF MatchesTilde, Settled, Compares, FirstAt, Part, PreAtLeast
<1>3. CASE Len(c.at) = 3
  BY <1>3 DEF MatchesTilde, Settled, Compares, FirstAt, Part, PreAtLeast
<1>. QED BY <1>1, <1>2, <1>3 DEF Settled

LEMMA ExactInterval ==
  ASSUME NEW c, NEW v, Settled(c, v), Compares(c, v)
  PROVE  MatchesExact(c, v) <=>
           IF Len(c.at) = 3 THEN v = Low(c) ELSE ~Before(v, Low(c)) /\ Below(c, v, Len(c.at))
<1>1. CASE Len(c.at) = 1
  BY <1>1 DEF MatchesExact, Agrees, Settled, Compares, FirstAt
<1>2. CASE Len(c.at) = 2
  BY <1>2 DEF MatchesExact, Agrees, Settled, Compares, FirstAt
<1>3. CASE Len(c.at) = 3
  BY <1>3 DEF MatchesExact, Agrees, Settled, Compares
<1>. QED BY <1>1, <1>2, <1>3 DEF Settled

LEMMA GreaterInterval ==
  ASSUME NEW c, NEW v, Settled(c, v), Compares(c, v)
  PROVE  /\ MatchesGreater(c, v) <=>
              IF Len(c.at) = 3 THEN Before(Low(c), v) ELSE ~Below(c, v, Len(c.at))
         /\ MatchesExact(c, v) \/ MatchesGreater(c, v) <=> ~Before(v, Low(c))
<1>1. CASE Len(c.at) = 1
  BY <1>1 DEF MatchesExact, MatchesGreater, Agrees, Settled, Compares, FirstAt
<1>2. CASE Len(c.at) = 2
  BY <1>2 DEF MatchesExact, MatchesGreater, Agrees, Settled, Compares, FirstAt
<1>3. CASE Len(c.at) = 3
  BY <1>3 DEF MatchesExact, MatchesGreater, Agrees, Settled, Compares, FirstAt
<1>. QED BY <1>1, <1>2, <1>3 DEF Settled

LEMMA LessInterval ==
  ASSUME NEW c, NEW v, Settled(c, v), Compares(c, v)
  PROVE  /\ MatchesLess(c, v) <=> Before(v, Low(c))
         /\ MatchesExact(c, v) \/ MatchesLess(c, v) <=>
              IF Len(c.at) = 3 THEN ~Before(Low(c), v) ELSE Below(c, v, Len(c.at))
<1>1. CASE Len(c.at) = 1
  BY <1>1 DEF MatchesExact, MatchesLess, Agrees, Settled, Compares, FirstAt
<1>2. CASE Len(c.at) = 2
  BY <1>2 DEF MatchesExact, MatchesLess, Agrees, Settled, Compares, FirstAt
<1>3. CASE Len(c.at) = 3
  BY <1>3 DEF MatchesExact, MatchesLess, Agrees, Settled, Compares, FirstAt
<1>. QED BY <1>1, <1>2, <1>3 DEF Settled

LEMMA OneComparator ==
  ASSUME NEW c, NEW v, IsComparator(c), IsVersion(v), v.pre = <<>> \/ Len(c.at) = 3
  PROVE  MatchesComparator(c, v) <=> InInterval(c, v)
<1>1. Settled(c, v) /\ Compares(c, v)
  BY BothSettled
<1>2. c.op \in {"caret", "tilde", "exact", "greater", "greater-equal", "less", "less-equal",
                "wildcard"}
  BY DEF IsComparator, Operators
<1>3. CASE c.op = "caret"
  BY <1>1, <1>3, CaretInterval DEF MatchesComparator, InInterval, AtLeast, Low, Below
<1>4. CASE c.op = "tilde"
  BY <1>1, <1>4, TildeInterval DEF MatchesComparator, InInterval, AtLeast, Low, Below
<1>5. CASE c.op \in {"exact", "wildcard"}
  BY <1>1, <1>5, ExactInterval DEF MatchesComparator, InInterval, AtLeast, Low, Below
<1>6. CASE c.op = "greater"
  BY <1>1, <1>6, GreaterInterval DEF MatchesComparator, InInterval, AtLeast, Low, Below
<1>7. CASE c.op = "greater-equal"
  BY <1>1, <1>7, GreaterInterval DEF MatchesComparator, InInterval, AtLeast, Low, Below
<1>8. CASE c.op = "less"
  BY <1>1, <1>8, LessInterval DEF MatchesComparator, InInterval, AtLeast, Low, Below
<1>9. CASE c.op = "less-equal"
  BY <1>1, <1>9, LessInterval DEF MatchesComparator, InInterval, AtLeast, Low, Below
<1>. QED BY <1>2, <1>3, <1>4, <1>5, <1>6, <1>7, <1>8, <1>9

(* What a requirement reads as: comparators with one to three numbers.     *)
LEMMA ReadComparators ==
  ASSUME NEW texts, \A text \in texts : IsText(text), RequirementOk(texts),
         NEW c \in Requirement(texts)
  PROVE  IsComparator(c)
<1>1. PICK text \in texts : ~Bare(text) /\ c = Comparator(text)
  BY DEF Requirement
<1>2. IsText(text) /\ ComparatorOk(text)
  BY <1>1 DEF RequirementOk
<1>3. Len(text.at) \in 1..3 /\ (text.pre # <<>> => Len(text.at) = 3)
  <2>1. text.at \in Seq(Nat) /\ (text.star => text.at # <<>> /\ Len(text.at) <= 2)
    BY <1>1, <1>2 DEF IsText, ComparatorOk, Bare
  <2>2. /\ \A s \in Seq(Nat) : s # <<>> => Len(s) \in Nat /\ Len(s) # 0
        /\ \A n \in Nat : n # 0 /\ n <= 2 => n \in 1..3
    OBVIOUS
  <2>3. ~text.star => Len(text.at) \in 1..3
    BY <1>2 DEF ComparatorOk
  <2>4. text.star => Len(text.at) \in 1..3
    BY <2>1, <2>2
  <2>5. text.pre # <<>> => Len(text.at) = 3
    BY <1>2 DEF ComparatorOk
  <2>6. text.star \in BOOLEAN
    BY <1>2 DEF IsText
  <2>. QED BY <2>3, <2>4, <2>5, <2>6
<1>4. c.at = text.at /\ c.pre = text.pre /\ c.op \in Operators \cup {"wildcard"}
  BY <1>1, <1>2 DEF Comparator, IsText, Operators
<1>. QED BY <1>2, <1>3, <1>4 DEF IsComparator, IsText

(* A requirement admits what it says: whatever texts are read and whatever *)
(* version is matched, each comparator admits exactly the versions of its  *)
(* interval, a requirement what all its comparators admit, and no          *)
(* pre-release that nobody named.                                          *)
THEOREM RequirementsAdmitWhatTheySay ==
  ASSUME NEW texts, \A text \in texts : IsText(text), NEW v, IsVersion(v)
  PROVE  AdmitsTheInterval(texts, v)
<1> DEFINE comparators == Requirement(texts)
<1>. SUFFICES ASSUME RequirementOk(texts)
              PROVE  AdmitsTheInterval(texts, v)
  BY DEF AdmitsTheInterval
<1>1. \A c \in comparators :
        (v.pre = <<>> \/ Len(c.at) = 3) => (MatchesComparator(c, v) <=> InInterval(c, v))
  BY ReadComparators, OneComparator
<1>2. v.pre = <<>> =>
        (MatchesRequirement(comparators, v) <=> \A c \in comparators : InInterval(c, v))
  BY <1>1 DEF MatchesRequirement
<1>3. comparators = {} => (MatchesRequirement(comparators, v) <=> v.pre = <<>>)
  BY DEF MatchesRequirement
<1>. QED BY <1>1, <1>2, <1>3 DEF AdmitsTheInterval

----------------------------------------------------------------------------
(* What the resolver finds.                                                *)

(* Of finitely many numbers one is the greatest.                           *)
LEMMA GreatestNatural ==
  ASSUME NEW S \in SUBSET Nat, IsFiniteSet(S), S # {}
  PROVE  \E x \in S : \A y \in S : y <= x
<1> DEFINE Greatest(T) == \E x \in T : \A y \in T : y <= x
           bad == {n \in Nat : \E T \in SUBSET Nat : /\ IsFiniteSet(T) /\ T # {}
                                                     /\ Cardinality(T) = n /\ ~Greatest(T)}
<1>1. SUFFICES ASSUME bad # {}
               PROVE  FALSE
  <2>1. Cardinality(S) \in Nat
    BY FS_CardinalityType
  <2>2. ~Greatest(S) => Cardinality(S) \in bad
    BY <2>1
  <2>. QED BY <2>2
<1>2. PICK n \in bad : \A m \in bad : n <= m
  <2>1. bad \in SUBSET Nat
    OBVIOUS
  <2> HIDE DEF bad
  <2>. QED BY <1>1, <2>1, LeastNatural
<1>3. PICK T \in SUBSET Nat : IsFiniteSet(T) /\ T # {} /\ Cardinality(T) = n /\ ~Greatest(T)
  BY <1>2
<1>4. PICK e \in T : TRUE
  BY <1>3
<1>5. IsFiniteSet(T \ {e}) /\ Cardinality(T \ {e}) = n - 1 /\ n - 1 \in Nat
  <2>1. IsFiniteSet(T \ {e}) /\ Cardinality(T \ {e}) = n - 1
    BY <1>3, <1>4, FS_RemoveElement
  <2>. QED BY <2>1, FS_CardinalityType
<1>6. T \ {e} # {}
  <2>1. T = {e} => Greatest(T)
    BY <1>4
  <2>. QED BY <1>3, <1>4, <2>1
<1>7. Greatest(T \ {e})
  <2>1. ~Greatest(T \ {e}) => n - 1 \in bad
    BY <1>5, <1>6
  <2>2. n - 1 \notin bad
    BY <1>2, <1>5
  <2>. QED BY <2>1, <2>2
<1>8. PICK x \in T \ {e} : \A y \in T \ {e} : y <= x
  BY <1>7
<1>9. e \in Nat /\ x \in Nat /\ \A y \in T : y \in Nat
  OBVIOUS
<1>10. CASE e <= x
  <2>1. \A y \in T : y <= x
    BY <1>8, <1>10
  <2>. QED BY <1>3, <2>1
<1>11. CASE x <= e
  <2>1. \A y \in T : y <= e
    BY <1>8, <1>9, <1>11
  <2>. QED BY <1>3, <1>4, <2>1
<1>. QED BY <1>9, <1>10, <1>11

(* Passes that start with some elements of X and add others, one after the *)
(* other.                                                                  *)
Passes(f, n, X, start, next) ==
  /\ f[0] = start
  /\ \A i \in 1..n : f[i - 1] \in SUBSET X => f[i] = next[f[i - 1]]

Grows(next, X) ==
  next \in [SUBSET X -> SUBSET X] /\ \A S \in SUBSET X : S \subseteq next[S]

(* There are as many passes as one likes.                                  *)
PassesWithin(f, n, X, start, next) ==
  /\ f \in [0..n -> SUBSET X]
  /\ \A i \in 0..n : f[i] = IF i = 0 THEN start ELSE next[f[i - 1]]

LEMMA PassesExist ==
  ASSUME NEW X, NEW start \in SUBSET X, NEW next, Grows(next, X), NEW n \in Nat
  PROVE  \E f : PassesWithin(f, n, X, start, next)
<1> DEFINE Is(f, m) == /\ f \in [0..m -> SUBSET X]
                       /\ \A i \in 0..m : f[i] = IF i = 0 THEN start ELSE next[f[i - 1]]
           bad == {m \in Nat : ~\E f : Is(f, m)}
<1>1. SUFFICES ASSUME bad # {}
               PROVE  FALSE
  <2>1. n \notin bad => \E f : Is(f, n)
    OBVIOUS
  <2>. QED BY <2>1 DEF PassesWithin
<1>2. PICK m \in bad : \A k \in bad : m <= k
  <2>1. bad \in SUBSET Nat
    OBVIOUS
  <2> HIDE DEF bad
  <2>. QED BY <1>1, <2>1, LeastNatural
<1>3. m # 0
  <2>1. Is([i \in 0..0 |-> start], 0)
    OBVIOUS
  <2>. QED BY <1>2, <2>1
<1>4. m \in Nat /\ m - 1 \in Nat /\ m - 1 \notin bad
  BY <1>2, <1>3
<1>5. PICK f : Is(f, m - 1)
  BY <1>4
<1> DEFINE g == [i \in 0..m |-> IF i = m THEN next[f[m - 1]] ELSE f[i]]
<1>6. f[m - 1] \in SUBSET X /\ next[f[m - 1]] \in SUBSET X
  BY <1>4, <1>5 DEF Grows
<1>7. g \in [0..m -> SUBSET X]
  BY <1>4, <1>5, <1>6
<1>8. ASSUME NEW i \in 0..m
      PROVE  g[i] = IF i = 0 THEN start ELSE next[g[i - 1]]
  <2>1. CASE i = m
    <3>1. g[i] = next[f[m - 1]]
      BY <2>1
    <3>2. g[m - 1] = f[m - 1]
      BY <1>3, <1>4
    <3>. QED BY <1>3, <2>1, <3>1, <3>2
  <2>2. CASE i # m
    <3>1. i \in 0..(m - 1)
      BY <1>4, <2>2
    <3>2. g[i] = f[i]
      BY <2>2
    <3>3. i # 0 => g[i - 1] = f[i - 1]
      BY <1>4, <3>1
    <3>4. f[i] = IF i = 0 THEN start ELSE next[f[i - 1]]
      BY <1>5, <3>1
    <3>. QED BY <3>2, <3>3, <3>4
  <2>. QED BY <2>1, <2>2
<1>9. Is(g, m)
  BY <1>7, <1>8
<1>. QED BY <1>2, <1>9

(* The last of as many passes as X has elements is closed, and it is in    *)
(* every closed set that has the start.                                    *)
Closes(R, X, start, next) ==
  /\ R \in SUBSET X /\ start \subseteq R /\ next[R] = R
  /\ \A Q \in SUBSET X :
       start \subseteq Q /\ (\A S \in SUBSET Q : next[S] \subseteq Q) => R \subseteq Q

LEMMA PassesClose ==
  ASSUME NEW X, IsFiniteSet(X), NEW start \in SUBSET X, NEW next, Grows(next, X),
         NEW f, Passes(f, Cardinality(X), X, start, next)
  PROVE  Closes(f[Cardinality(X)], X, start, next)
<1> DEFINE n == Cardinality(X)
<1>0. n \in Nat
  BY FS_CardinalityType
<1>1. ASSUME NEW i \in 0..n
      PROVE  f[i] \in SUBSET X
  <2> DEFINE bad == {j \in 0..n : f[j] \notin SUBSET X}
  <2>1. SUFFICES ASSUME bad # {} PROVE FALSE
    OBVIOUS
  <2>2. PICK j \in bad : \A k \in bad : j <= k
    <3>1. bad \in SUBSET Nat
      BY <1>0
    <3> HIDE DEF bad
    <3>. QED BY <2>1, <3>1, LeastNatural
  <2>3. j # 0
    BY <2>2 DEF Passes
  <2>4. j \in 1..n /\ j - 1 \in 0..n /\ ~(j <= j - 1)
    BY <1>0, <2>2, <2>3
  <2>5. f[j - 1] \in SUBSET X
    BY <2>2, <2>4
  <2>6. f[j] = next[f[j - 1]]
    BY <2>4, <2>5 DEF Passes
  <2>. QED BY <2>2, <2>5, <2>6 DEF Grows
<1>2. \A i \in 1..n : i - 1 \in 0..n /\ i \in 0..n /\ f[i] = next[f[i - 1]]
  <2>1. \A i \in 1..n : i - 1 \in 0..n /\ i \in 0..n
    BY <1>0
  <2>. QED BY <1>1, <2>1 DEF Passes
<1>3. \A i \in 1..n : f[i - 1] \subseteq f[i]
  BY <1>1, <1>2 DEF Grows
<1>4. ASSUME NEW i \in 0..n
      PROVE  start \subseteq f[i]
  <2> DEFINE bad == {j \in 0..n : ~(start \subseteq f[j])}
  <2>1. SUFFICES ASSUME bad # {} PROVE FALSE
    OBVIOUS
  <2>2. PICK j \in bad : \A k \in bad : j <= k
    <3>1. bad \in SUBSET Nat
      BY <1>0
    <3> HIDE DEF bad
    <3>. QED BY <2>1, <3>1, LeastNatural
  <2>3. j # 0
    BY <2>2 DEF Passes
  <2>4. j \in 1..n /\ j - 1 \in 0..n /\ ~(j <= j - 1)
    BY <1>0, <2>2, <2>3
  <2>5. start \subseteq f[j - 1]
    BY <2>2, <2>4
  <2>. QED BY <1>3, <2>2, <2>4, <2>5
<1>5. next[f[n]] = f[n]
  <2> DEFINE Grew(i) == next[f[i]] # f[i]
  <2>1. SUFFICES ASSUME Grew(n) PROVE FALSE
    OBVIOUS
  <2>2. ASSUME NEW i \in 1..n, Grew(i)
        PROVE  Grew(i - 1)
    BY <1>2, <2>2
  <2>3. ASSUME NEW i \in 0..n
        PROVE  Grew(i)
    <3> DEFINE bad == {j \in 0..n : ~Grew(n - j)}
    <3>1. SUFFICES ASSUME bad # {} PROVE FALSE
      <4>1. n - i \in 0..n /\ n - (n - i) = i
        BY <1>0
      <4>2. ~Grew(i) => n - i \in bad
        BY <4>1
      <4>. QED BY <4>2
    <3>2. PICK j \in bad : \A k \in bad : j <= k
      <4>1. bad \in SUBSET Nat
        BY <1>0
      <4> HIDE DEF bad
      <4>. QED BY <3>1, <4>1, LeastNatural
    <3>3. j # 0
      <4>1. n - 0 = n
        BY <1>0
      <4>. QED BY <2>1, <3>2, <4>1
    <3>4. j - 1 \in 0..n /\ ~(j <= j - 1) /\ n - (j - 1) \in 1..n /\ (n - (j - 1)) - 1 = n - j
      BY <1>0, <3>2, <3>3
    <3>5. Grew(n - (j - 1))
      BY <3>2, <3>4
    <3>6. Grew((n - (j - 1)) - 1)
      BY <2>2, <3>4, <3>5
    <3>. QED BY <3>2, <3>4, <3>6
  <2>4. \A i \in 0..n : IsFiniteSet(f[i]) /\ Cardinality(f[i]) \in Nat
    BY <1>1, FS_Subset, FS_CardinalityType
  <2>5. ASSUME NEW i \in 0..n
        PROVE  i <= Cardinality(f[i])
    <3> DEFINE bad == {j \in 0..n : ~(j <= Cardinality(f[j]))}
    <3>1. SUFFICES ASSUME bad # {} PROVE FALSE
      OBVIOUS
    <3>2. PICK j \in bad : \A k \in bad : j <= k
      <4>1. bad \in SUBSET Nat
        BY <1>0
      <4> HIDE DEF bad
      <4>. QED BY <3>1, <4>1, LeastNatural
    <3>3. j # 0
      <4>1. Cardinality(f[0]) \in Nat
        BY <1>0, <2>4
      <4>2. 0 <= Cardinality(f[0])
        BY <4>1
      <4>. QED BY <3>2, <4>2
    <3>4. j \in Nat /\ j \in 1..n /\ j - 1 \in 0..n /\ ~(j <= j - 1)
      BY <1>0, <3>2, <3>3
    <3>5. j - 1 <= Cardinality(f[j - 1])
      BY <3>2, <3>4
    <3>6. f[j - 1] \subseteq f[j] /\ f[j - 1] # f[j]
      BY <1>2, <1>3, <2>3, <3>4
    <3>7. Cardinality(f[j - 1]) <= Cardinality(f[j]) /\ Cardinality(f[j - 1]) # Cardinality(f[j])
      BY <2>4, <3>4, <3>6, FS_Subset
    <3>8. Cardinality(f[j - 1]) \in Nat /\ Cardinality(f[j]) \in Nat
      BY <2>4, <3>4
    <3>9. j <= Cardinality(f[j])
      BY <3>4, <3>5, <3>7, <3>8
    <3>. QED BY <3>2, <3>9
  <2>6. n <= Cardinality(f[n]) /\ f[n] \in SUBSET X /\ n \in 0..n
    BY <1>0, <1>1, <2>5
  <2>7. f[n] = X
    <3>1. Cardinality(f[n]) <= n
      BY <2>6, FS_Subset
    <3>2. Cardinality(f[n]) = n
      BY <1>0, <2>4, <2>6, <3>1
    <3>. QED BY <2>6, <3>2, FS_Subset
  <2>8. next[X] = X
    BY DEF Grows
  <2>. QED BY <2>1, <2>7, <2>8
<1>6. ASSUME NEW Q \in SUBSET X, start \subseteq Q, \A S \in SUBSET Q : next[S] \subseteq Q
      PROVE  f[n] \subseteq Q
  <2> DEFINE bad == {j \in 0..n : ~(f[j] \subseteq Q)}
  <2>1. SUFFICES ASSUME bad # {} PROVE FALSE
    BY <1>0
  <2>2. PICK j \in bad : \A k \in bad : j <= k
    <3>1. bad \in SUBSET Nat
      BY <1>0
    <3> HIDE DEF bad
    <3>. QED BY <2>1, <3>1, LeastNatural
  <2>3. j # 0
    BY <1>6, <2>2 DEF Passes
  <2>4. j \in 1..n /\ j - 1 \in 0..n /\ ~(j <= j - 1)
    BY <1>0, <2>2, <2>3
  <2>5. f[j - 1] \subseteq Q
    BY <2>2, <2>4
  <2>. QED BY <1>2, <1>6, <2>2, <2>4, <2>5
<1>. QED BY <1>0, <1>1, <1>4, <1>5, <1>6 DEF Closes

(* Bindings whose snapshots are made of packages.                          *)
OfPackages(snapshot) ==
  DOMAIN snapshot \subseteq Package /\ \A p \in DOMAIN snapshot : DOMAIN snapshot[p] \subseteq Package

Bound(bindings) ==
  /\ DOMAIN bindings \subseteq Repository
  /\ \A repo \in DOMAIN bindings : OfPackages(bindings[repo].snapshot)

(* What is required has the roots and, of what is expanded, what it        *)
(* depends on; and there is no less that has them.                         *)
ClosedUnder(packages, bindings) ==
  \A p \in packages : Expandable(p, bindings) => DOMAIN Depends(p, bindings) \subseteq packages

RequiredIs(R, reqs, bindings) ==
  /\ R \in SUBSET Package /\ RootPackages(reqs, bindings) \subseteq R /\ ClosedUnder(R, bindings)
  /\ \A Q \in SUBSET Package :
       RootPackages(reqs, bindings) \subseteq Q /\ ClosedUnder(Q, bindings) => R \subseteq Q

(* One more pass stays within every closed set.                            *)
LEMMA GrownIs ==
  ASSUME NEW b, Bound(b), NEW S \in SUBSET Package
  PROVE  /\ Grown(S, b) \in SUBSET Package /\ S \subseteq Grown(S, b)
         /\ \A p \in S : Expandable(p, b) => DOMAIN Depends(p, b) \subseteq Grown(S, b)
         /\ \A Q \in SUBSET Package : S \subseteq Q /\ ClosedUnder(Q, b) => Grown(S, b) \subseteq Q
<1>1. \A p : Expandable(p, b) => DOMAIN Depends(p, b) \subseteq Package
  BY DEF Expandable, Depends, Bound, OfPackages
<1>2. Grown(S, b) = S \cup UNION {DOMAIN Depends(p, b) : p \in {p \in S : Expandable(p, b)}}
  BY DEF Grown
<1>3. \A x : x \in Grown(S, b) <=> x \in S \/ \E p \in S : Expandable(p, b) /\ x \in DOMAIN Depends(p, b)
  BY <1>2
<1>. QED BY <1>1, <1>3 DEF ClosedUnder

(* The roots are packages.                                                 *)
LEMMA RootsAre ==
  ASSUME NEW reqs, WholeRequest(reqs), NEW b, Bound(b)
  PROVE  RootPackages(reqs, b) \in SUBSET Package
BY DEF RootPackages, WholeRequest, Bound, OfPackages

(* So much is required: as many passes as there are packages are enough.   *)
LEMMA RequiredIsLeast ==
  ASSUME NEW reqs, WholeRequest(reqs), NEW b, Bound(b)
  PROVE  RequiredIs(Required(reqs, b), reqs, b)
<1> DEFINE n == Cardinality(Package)
           start == RootPackages(reqs, b)
           next == [S \in SUBSET Package |-> Grown(S, b)]
           IsPass(f) == f = [i \in 0..n |-> IF i = 0 THEN start ELSE Grown(f[i - 1], b)]
<1>1. start \in SUBSET Package
  BY RootsAre
<1>2. Grows(next, Package)
  BY GrownIs DEF Grows
<1>3. n \in Nat /\ IsFiniteSet(Package)
  BY RepositoryAssumption, FS_CardinalityType
<1>4. PICK g : PassesWithin(g, n, Package, start, next)
  <2> HIDE DEF n, start, next
  <2>. QED BY <1>1, <1>2, <1>3, PassesExist
<1>5. IsPass(g)
  <2>1. \A i \in 0..n : i # 0 => i - 1 \in 0..n
    BY <1>3
  <2>2. \A i \in 0..n : i # 0 => next[g[i - 1]] = Grown(g[i - 1], b)
    BY <1>4, <2>1 DEF PassesWithin
  <2>3. \A i \in 0..n : g[i] = IF i = 0 THEN start ELSE Grown(g[i - 1], b)
    BY <1>4, <2>2 DEF PassesWithin
  <2>. QED BY <1>4, <2>3 DEF PassesWithin
<1>6. PICK f : IsPass(f) /\ Required(reqs, b) = f[n]
  <2> DEFINE f == CHOOSE f : IsPass(f)
  <2>1. IsPass(f)
    BY <1>5
  <2>2. Required(reqs, b) = f[n]
    BY DEF Required
  <2> HIDE DEF f
  <2>. QED BY <2>1, <2>2
<1>7. Passes(f, n, Package, start, next)
  <2>1. f[0] = start
    BY <1>3, <1>6
  <2>2. ASSUME NEW i \in 1..n, f[i - 1] \in SUBSET Package
        PROVE  f[i] = next[f[i - 1]]
    <3>1. i \in 0..n /\ i # 0
      BY <1>3
    <3>2. f[i] = Grown(f[i - 1], b)
      BY <1>6, <3>1
    <3>. QED BY <2>2, <3>2
  <2>. QED BY <2>1, <2>2 DEF Passes
<1> DEFINE R == Required(reqs, b)
<1>8. Closes(R, Package, start, next)
  <2> HIDE DEF start, next
  <2>. QED BY <1>1, <1>2, <1>3, <1>6, <1>7, PassesClose
<1>9. R \in SUBSET Package /\ start \subseteq R /\ Grown(R, b) = R
  BY <1>8 DEF Closes
<1>10. ClosedUnder(R, b)
  <2>1. \A p \in R : Expandable(p, b) => DOMAIN Depends(p, b) \subseteq Grown(R, b)
    BY <1>9, GrownIs
  <2>. QED BY <1>9, <2>1 DEF ClosedUnder
<1>11. ASSUME NEW Q \in SUBSET Package, start \subseteq Q, ClosedUnder(Q, b)
       PROVE  R \subseteq Q
  <2>1. ASSUME NEW S \in SUBSET Q
        PROVE  next[S] \subseteq Q
    <3>1. S \in SUBSET Package
      OBVIOUS
    <3>2. Grown(S, b) \subseteq Q
      BY <1>11, <3>1, GrownIs
    <3>. QED BY <3>1, <3>2
  <2>. QED BY <1>8, <1>11, <2>1 DEF Closes
<1>. QED BY <1>9, <1>10, <1>11 DEF RequiredIs

----------------------------------------------------------------------------
(* The search is there, and its result is what its branches give.          *)

(* What the resolver is given.                                             *)
SearchInput(reqs, sources, git) ==
  /\ WholeRequest(reqs)
  /\ DOMAIN sources \subseteq Repository
  /\ \A repo \in DOMAIN sources : WholeReleases(repo, sources[repo])
  /\ DOMAIN git \subseteq Repository /\ IsFunction(git)
  /\ \A repo \in DOMAIN git : git[repo].source = "git" /\ WholeSnapshot(repo, git[repo].snapshot)

Free(bindings) == Cardinality(Repository \ DOMAIN bindings)

(* How many repositories are free.                                         *)
LEMMA FreeIs ==
  ASSUME NEW b
  PROVE  Free(b) \in Nat /\ Free(b) <= Cardinality(Repository) /\ Cardinality(Repository) \in Nat
<1>1. IsFiniteSet(Repository \ DOMAIN b) /\ Free(b) <= Cardinality(Repository)
  <2>1. Repository \ DOMAIN b \in SUBSET Repository
    OBVIOUS
  <2>. QED BY <2>1, RepositoryAssumption, FS_Subset DEF Free
<1>. QED BY <1>1, RepositoryAssumption, FS_CardinalityType DEF Free

(* Of some repositories one comes first.                                   *)
LEMMA FirstIsOne ==
  ASSUME NEW S \in SUBSET Repository, S # {}
  PROVE  FirstOf(S) \in S
<1> DEFINE T == {Order[r] : r \in S}
<1>1. T \in SUBSET Nat /\ T # {}
  BY RepositoryAssumption
<1>2. PICK x \in T : \A y \in T : x <= y
  BY <1>1, LeastNatural
<1>3. PICK r \in S : x = Order[r]
  BY <1>2
<1>4. \A s \in S : Order[r] <= Order[s]
  BY <1>2, <1>3
<1>. QED BY <1>3, <1>4 DEF FirstOf

(* A binding is that of a git ref or of a release.                         *)
LEMMA BindingsAre ==
  ASSUME NEW sources, NEW git, NEW b
  PROVE  b \in Bindings(sources, git) <=>
           /\ DOMAIN b \subseteq Repository /\ IsFunction(b)
           /\ \A repo \in DOMAIN b :
                \/ \E r \in DOMAIN git : b[repo] = git[r]
                \/ \E r \in DOMAIN sources : \E c \in sources[r] : b[repo] = BindingOf(c)
<1> DEFINE releases == UNION {sources[repo] : repo \in DOMAIN sources}
           values == {git[repo] : repo \in DOMAIN git} \cup {BindingOf(c) : c \in releases}
<1>1. Bindings(sources, git) = UNION {[repos -> values] : repos \in SUBSET Repository}
  BY DEF Bindings
<1>2. \A v : v \in values <=> \/ \E r \in DOMAIN git : v = git[r]
                              \/ \E r \in DOMAIN sources : \E c \in sources[r] : v = BindingOf(c)
  OBVIOUS
<1> HIDE DEF values
<1>3. b \in Bindings(sources, git) <=> \E repos \in SUBSET Repository : b \in [repos -> values]
  BY <1>1
<1>4. b \in Bindings(sources, git) <=>
        /\ DOMAIN b \subseteq Repository /\ IsFunction(b) /\ \A repo \in DOMAIN b : b[repo] \in values
  BY <1>3 DEF IsFunction
<1>. QED BY <1>2, <1>4

(* All of them have snapshots of packages.                                 *)
LEMMA BindingsAreBound ==
  ASSUME NEW reqs, NEW sources, NEW git, SearchInput(reqs, sources, git),
         NEW b \in Bindings(sources, git)
  PROVE  Bound(b)
<1>1. \A r \in DOMAIN git : OfPackages(git[r].snapshot)
  BY DEF SearchInput, WholeSnapshot, OfPackages
<1>2. \A r \in DOMAIN sources : \A c \in sources[r] : OfPackages(BindingOf(c).snapshot)
  BY DEF SearchInput, WholeReleases, WholeSnapshot, OfPackages, BindingOf
<1>. QED BY <1>1, <1>2, BindingsAre DEF Bound

(* One more repository is bound.                                           *)
LEMMA OneMoreBound ==
  ASSUME NEW sources, NEW git, NEW b \in Bindings(sources, git),
         NEW repo \in Repository \ DOMAIN b, NEW from \in DOMAIN sources, NEW c \in sources[from]
  PROVE  /\ With(b, repo, BindingOf(c)) \in Bindings(sources, git)
         /\ Free(With(b, repo, BindingOf(c))) < Free(b)
<1> DEFINE w == With(b, repo, BindingOf(c))
<1>1. /\ DOMAIN w = DOMAIN b \cup {repo} /\ IsFunction(w)
      /\ w[repo] = BindingOf(c) /\ \A r \in DOMAIN b : w[r] = b[r]
  BY DEF With, IsFunction
<1> HIDE DEF w
<1>2. w \in Bindings(sources, git)
  BY <1>1, BindingsAre
<1>3. Repository \ DOMAIN w = (Repository \ DOMAIN b) \ {repo}
  BY <1>1
<1>4. IsFiniteSet(Repository \ DOMAIN b)
  <2>1. Repository \ DOMAIN b \in SUBSET Repository
    OBVIOUS
  <2>. QED BY <2>1, RepositoryAssumption, FS_Subset
<1>5. Free(w) = Free(b) - 1
  BY <1>3, <1>4, FS_RemoveElement DEF Free
<1>. QED BY <1>2, <1>5, FreeIs DEF w

(* What is unresolved is free.                                             *)
LEMMA UnresolvedIsFree ==
  ASSUME NEW reqs, WholeRequest(reqs), NEW b, Bound(b)
  PROVE  Unresolved(reqs, b) \subseteq Repository \ DOMAIN b
<1>1. Required(reqs, b) \subseteq Package
  BY RequiredIsLeast DEF RequiredIs
<1>2. Wide(reqs) \subseteq Repository
  BY DEF Wide, WholeRequest
<1>3. \A p \in Package : RepositoryOf[p] \in Repository
  BY RepositoryAssumption
<1>. QED BY <1>1, <1>2, <1>3 DEF Unresolved

(* What a branch decides: the repository, and the releases it may take.    *)
Decides(reqs, b) == FirstOf(Unresolved(reqs, b))
Candidates(reqs, sources, b) ==
  Eligible(sources[Decides(reqs, b)], Constraints(reqs, b, Decides(reqs, b)))
Taken(reqs, b, c) == With(b, Decides(reqs, b), BindingOf(c))
Attempts(reqs, sources, f, b) ==
  {[of |-> c, result |-> f[Taken(reqs, b, c)]] : c \in Candidates(reqs, sources, b)}
Stuck(reqs, b) ==
  SourceConflict(reqs, b) \/ PackageMissing(reqs, b) \/ ~AssignedOk(reqs, b)
DeadEnd(reqs, sources, b) ==
  Decides(reqs, b) \notin DOMAIN sources \/ AmbiguousVersion(Candidates(reqs, sources, b))

(* What searchBranch gives, in these words.                                *)
LEMMA BranchIs ==
  ASSUME NEW reqs, NEW sources, NEW f, NEW b
  PROVE  SearchBranch(reqs, sources, f, b) =
           IF Stuck(reqs, b) THEN Failed
           ELSE IF Unresolved(reqs, b) = {} THEN Found(Graph(reqs, b))
           ELSE IF DeadEnd(reqs, sources, b) THEN Failed
           ELSE FirstSuccess(Candidates(reqs, sources, b), Attempts(reqs, sources, f, b))
BY DEF SearchBranch, Stuck, DeadEnd, Attempts, Candidates, Decides, Taken

(* A candidate is a release that is no draft.                              *)
LEMMA CandidatesAre ==
  ASSUME NEW reqs, NEW sources, NEW b, NEW c \in Candidates(reqs, sources, b)
  PROVE  c \in sources[Decides(reqs, b)] /\ ~c.draft
BY DEF Candidates, Eligible

(* A free repository is decided.                                           *)
LEMMA DecidesAFreeOne ==
  ASSUME NEW reqs, WholeRequest(reqs), NEW b, Bound(b), Unresolved(reqs, b) # {}
  PROVE  Decides(reqs, b) \in Unresolved(reqs, b) /\ Decides(reqs, b) \in Repository \ DOMAIN b
<1>1. Unresolved(reqs, b) \subseteq Repository \ DOMAIN b
  BY UnresolvedIsFree
<1>2. Unresolved(reqs, b) \in SUBSET Repository
  BY <1>1
<1>3. FirstOf(Unresolved(reqs, b)) \in Unresolved(reqs, b)
  BY <1>2, FirstIsOne
<1>. QED BY <1>1, <1>3 DEF Decides

(* The branches of a decision have fewer free repositories.                *)
LEMMA BranchesAreSmaller ==
  ASSUME NEW reqs, NEW sources, NEW git, SearchInput(reqs, sources, git),
         NEW b \in Bindings(sources, git), Unresolved(reqs, b) # {},
         ~DeadEnd(reqs, sources, b), NEW c \in Candidates(reqs, sources, b)
  PROVE  Taken(reqs, b, c) \in Bindings(sources, git) /\ Free(Taken(reqs, b, c)) < Free(b)
<1>1. Bound(b) /\ WholeRequest(reqs)
  BY BindingsAreBound DEF SearchInput
<1>2. Decides(reqs, b) \in Repository \ DOMAIN b
  BY <1>1, DecidesAFreeOne
<1>3. Decides(reqs, b) \in DOMAIN sources /\ c \in sources[Decides(reqs, b)]
  BY CandidatesAre DEF DeadEnd
<1>. QED BY <1>2, <1>3, OneMoreBound DEF Taken

(* Of a search a branch reads only what has fewer free repositories.       *)
LEMMA OnlyBranchesMatter ==
  ASSUME NEW reqs, NEW sources, NEW git, SearchInput(reqs, sources, git),
         NEW b \in Bindings(sources, git), NEW f, NEW g,
         \A x \in Bindings(sources, git) : Free(x) < Free(b) => f[x] = g[x]
  PROVE  SearchBranch(reqs, sources, f, b) = SearchBranch(reqs, sources, g, b)
<1>1. CASE Unresolved(reqs, b) # {} /\ ~DeadEnd(reqs, sources, b)
  <2>1. \A c \in Candidates(reqs, sources, b) : f[Taken(reqs, b, c)] = g[Taken(reqs, b, c)]
    BY <1>1, BranchesAreSmaller
  <2>2. Attempts(reqs, sources, f, b) = Attempts(reqs, sources, g, b)
    BY <2>1 DEF Attempts
  <2>. QED BY <2>2, BranchIs
<1>2. CASE Unresolved(reqs, b) = {} \/ DeadEnd(reqs, sources, b)
  BY <1>2, BranchIs
<1>. QED BY <1>1, <1>2

(* A function that is the search on some bindings.                         *)
IsSearch(f, reqs, sources, B) == f = [b \in B |-> SearchBranch(reqs, sources, f, b)]

(* There is one on all of them, and it is what gives the result.           *)
LEMMA SearchExists ==
  ASSUME NEW reqs, NEW sources, NEW git, SearchInput(reqs, sources, git)
  PROVE  \E f : /\ IsSearch(f, reqs, sources, Bindings(sources, git))
                /\ ResolveTargetGraph(reqs, sources, git) = f[git]
<1> DEFINE B == Bindings(sources, git)
           Within(n) == {b \in B : Free(b) < n}
           Has(n) == \E f : IsSearch(f, reqs, sources, Within(n))
           bad == {n \in Nat : ~Has(n)}
<1>1. bad = {}
  <2>1. SUFFICES ASSUME bad # {} PROVE FALSE
    OBVIOUS
  <2>2. PICK n \in bad : \A m \in bad : n <= m
    <3>1. bad \in SUBSET Nat
      OBVIOUS
    <3> HIDE DEF bad
    <3>. QED BY <2>1, <3>1, LeastNatural
  <2>3. n # 0
    <3>1. Within(0) = {}
      BY FreeIs
    <3>2. IsSearch([b \in {} |-> FALSE], reqs, sources, {})
      BY DEF IsSearch
    <3>3. Has(0)
      BY <3>1, <3>2
    <3>. QED BY <2>2, <3>3
  <2>4. n \in Nat /\ n - 1 \in Nat /\ ~(n <= n - 1)
    BY <2>2, <2>3
  <2>5. PICK g : IsSearch(g, reqs, sources, Within(n - 1))
    BY <2>2, <2>4
  <2> DEFINE h == [b \in Within(n) |-> SearchBranch(reqs, sources, g, b)]
  <2>6. ASSUME NEW b \in Within(n)
        PROVE  SearchBranch(reqs, sources, g, b) = SearchBranch(reqs, sources, h, b)
    <3>1. ASSUME NEW x \in B, Free(x) < Free(b)
          PROVE  g[x] = h[x]
      <4>1. Free(x) \in Nat /\ Free(b) \in Nat /\ Free(b) < n
        BY FreeIs
      <4>2. x \in Within(n) /\ x \in Within(n - 1)
        BY <2>4, <3>1, <4>1
      <4>3. h[x] = SearchBranch(reqs, sources, g, x)
        BY <4>2
      <4>4. g[x] = SearchBranch(reqs, sources, g, x)
        BY <2>5, <4>2 DEF IsSearch
      <4>. QED BY <4>3, <4>4
    <3>2. b \in B
      OBVIOUS
    <3> HIDE DEF B, h
    <3>. QED BY <3>1, <3>2, OnlyBranchesMatter DEF B
  <2>7. h = [b \in Within(n) |-> SearchBranch(reqs, sources, h, b)]
    BY <2>6
  <2> HIDE DEF h
  <2>8. Has(n)
    BY <2>7 DEF IsSearch
  <2>. QED BY <2>2, <2>8
<1>2. PICK g : IsSearch(g, reqs, sources, B)
  <2> DEFINE n == Cardinality(Repository) + 1
  <2>1. n \in Nat
    BY FreeIs
  <2>2. Within(n) = B
    <3>1. ASSUME NEW b PROVE Free(b) < n
      BY FreeIs
    <3>. QED BY <3>1
  <2>3. Has(n)
    BY <1>1, <2>1
  <2>. QED BY <2>2, <2>3
<1> DEFINE Is(f) == f = [b \in B |-> SearchBranch(reqs, sources, f, b)]
           f == CHOOSE f : Is(f)
<1>3. Is(f)
  BY <1>2 DEF IsSearch
<1>4. ResolveTargetGraph(reqs, sources, git) = f[git]
  BY DEF ResolveTargetGraph
<1>5. IsSearch(f, reqs, sources, B)
  BY <1>3 DEF IsSearch
<1> HIDE DEF f
<1>. QED BY <1>4, <1>5

(* The attempts are finitely many, of candidates that are no drafts.       *)
LEMMA AttemptsAre ==
  ASSUME NEW reqs, NEW sources, NEW git, SearchInput(reqs, sources, git), NEW f,
         NEW b, ~DeadEnd(reqs, sources, b)
  PROVE  /\ IsFiniteSet(Candidates(reqs, sources, b))
         /\ \A c \in Candidates(reqs, sources, b) : c.rank \in Nat
         /\ IsFiniteSet(Attempts(reqs, sources, f, b))
<1> DEFINE C == Candidates(reqs, sources, b)
           h == [c \in C |-> [of |-> c, result |-> f[Taken(reqs, b, c)]]]
<1>1. Decides(reqs, b) \in DOMAIN sources
  BY DEF DeadEnd
<1>2. C \in SUBSET sources[Decides(reqs, b)]
  BY CandidatesAre
<1>3. IsFiniteSet(C) /\ \A c \in C : c.rank \in Nat
  BY <1>1, <1>2, FS_Subset DEF SearchInput, WholeReleases
<1>4. Attempts(reqs, sources, f, b) = {h[c] : c \in C}
  BY DEF Attempts
<1> HIDE DEF C
<1>5. IsFiniteSet({h[c] : c \in C})
  <2>1. DOMAIN h = C
    OBVIOUS
  <2> HIDE DEF h
  <2>. QED BY <1>3, <2>1, FiniteImage
<1>. QED BY <1>3, <1>4, <1>5 DEF C

(* An attempt that ends the loop, and those that do so before all others.  *)
Ends(eligible, x) == x.result.ok \/ Cardinality(Group(eligible, x.of.rank)) > 1
EndsFirst(eligible, attempts) ==
  {x \in attempts : Ends(eligible, x)
                    /\ \A y \in attempts : Ends(eligible, y) => y.of.rank <= x.of.rank}

(* What the loop gives, in these words.                                    *)
LEMMA FirstSuccessIs ==
  ASSUME NEW eligible, NEW attempts
  PROVE  FirstSuccess(eligible, attempts) =
           IF Cardinality(EndsFirst(eligible, attempts)) = 1
             THEN (CHOOSE x \in EndsFirst(eligible, attempts) : TRUE).result ELSE Failed
BY DEF FirstSuccess, EndsFirst, Ends

(* A success is that of an attempt.                                        *)
LEMMA OneAttempt ==
  ASSUME NEW eligible, NEW attempts, IsFiniteSet(attempts), FirstSuccess(eligible, attempts).ok
  PROVE  \E x \in attempts : FirstSuccess(eligible, attempts) = x.result
<1> DEFINE last == EndsFirst(eligible, attempts)
<1>1. Cardinality(last) = 1
  BY FirstSuccessIs DEF Failed
<1>2. IsFiniteSet(last)
  <2>1. last \in SUBSET attempts
    BY DEF EndsFirst
  <2>. QED BY <2>1, FS_Subset
<1>3. PICK x : last = {x}
  BY <1>1, <1>2, FS_Singleton
<1>4. FirstSuccess(eligible, attempts) = x.result
  BY <1>1, <1>3, FirstSuccessIs
<1>. QED BY <1>3, <1>4 DEF EndsFirst

(* So it is that of a branch.                                              *)
LEMMA SucceededBranch ==
  ASSUME NEW reqs, NEW sources, NEW git, SearchInput(reqs, sources, git), NEW f,
         NEW b, ~DeadEnd(reqs, sources, b),
         FirstSuccess(Candidates(reqs, sources, b), Attempts(reqs, sources, f, b)).ok
  PROVE  \E c \in Candidates(reqs, sources, b) :
           FirstSuccess(Candidates(reqs, sources, b), Attempts(reqs, sources, f, b))
             = f[Taken(reqs, b, c)]
<1>1. IsFiniteSet(Attempts(reqs, sources, f, b))
  BY AttemptsAre
<1>2. PICK x \in Attempts(reqs, sources, f, b) :
        FirstSuccess(Candidates(reqs, sources, b), Attempts(reqs, sources, f, b)) = x.result
  BY <1>1, OneAttempt
<1>3. PICK c \in Candidates(reqs, sources, b) : x = [of |-> c, result |-> f[Taken(reqs, b, c)]]
  BY DEF Attempts
<1>. QED BY <1>2, <1>3

(* When no two releases are ambiguous, the newest branch that succeeds.    *)
LEMMA NewestBranch ==
  ASSUME NEW reqs, NEW sources, NEW git, SearchInput(reqs, sources, git), ~Ambiguous(sources),
         NEW f, NEW b, ~DeadEnd(reqs, sources, b),
         NEW d \in Candidates(reqs, sources, b), f[Taken(reqs, b, d)].ok
  PROVE  \E t \in Candidates(reqs, sources, b) :
           /\ FirstSuccess(Candidates(reqs, sources, b), Attempts(reqs, sources, f, b))
                = f[Taken(reqs, b, t)]
           /\ f[Taken(reqs, b, t)].ok
           /\ \A c \in Candidates(reqs, sources, b) : f[Taken(reqs, b, c)].ok => c.rank <= t.rank
<1> DEFINE C == Candidates(reqs, sources, b)
           A == Attempts(reqs, sources, f, b)
           at(c) == [of |-> c, result |-> f[Taken(reqs, b, c)]]
<1>1. /\ IsFiniteSet(C) /\ IsFiniteSet(A) /\ \A c \in C : c.rank \in Nat
  BY AttemptsAre
<1>2. \A c, e \in C : c.rank = e.rank => c = e
  <2>1. \A c \in C : c \in sources[Decides(reqs, b)] /\ ~c.draft
    BY CandidatesAre
  <2>. QED BY <2>1 DEF Ambiguous, DeadEnd
<1>3. ASSUME NEW x \in A
      PROVE  Ends(C, x) <=> x.result.ok
  <2>1. PICK c \in C : x = at(c)
    BY DEF Attempts
  <2>2. Group(C, x.of.rank) = {c}
    BY <1>2, <2>1 DEF Group
  <2>3. Cardinality(Group(C, x.of.rank)) = 1
    BY <2>2, FS_Singleton
  <2>. QED BY <2>3 DEF Ends
<1> DEFINE good == {c \in C : f[Taken(reqs, b, c)].ok}
           ranks == {c.rank : c \in good}
<1>4. PICK n \in ranks : \A m \in ranks : m <= n
  <2>1. IsFiniteSet(ranks)
    <3> DEFINE h == [c \in good |-> c.rank]
    <3>1. IsFiniteSet(good)
      <4>1. good \in SUBSET C
        OBVIOUS
      <4>. QED BY <1>1, <4>1, FS_Subset
    <3>2. IsFiniteSet({h[c] : c \in good})
      <4>1. DOMAIN h = good
        OBVIOUS
      <4> HIDE DEF h, good
      <4>. QED BY <3>1, <4>1, FiniteImage
    <3>3. ranks = {h[c] : c \in good}
      OBVIOUS
    <3>. QED BY <3>2, <3>3
  <2>2. ranks \in SUBSET Nat /\ ranks # {}
    BY <1>1
  <2> HIDE DEF ranks
  <2>. QED BY <2>1, <2>2, GreatestNatural
<1>5. PICK t \in good : t.rank = n
  OBVIOUS
<1>6. EndsFirst(C, A) = {at(t)}
  <2>1. at(t) \in A /\ at(t).result.ok /\ at(t).of = t
    BY <1>5 DEF Attempts
  <2>2. ASSUME NEW x \in A, x.result.ok
        PROVE  x.of \in good /\ x = at(x.of) /\ x.of.rank <= t.rank
    <3>1. PICK c \in C : x = at(c)
      BY DEF Attempts
    <3>. QED BY <1>4, <1>5, <2>2, <3>1
  <2>3. at(t) \in EndsFirst(C, A)
    BY <1>3, <2>1, <2>2 DEF EndsFirst
  <2>4. ASSUME NEW x \in EndsFirst(C, A)
        PROVE  x = at(t)
    <3>1. x \in A /\ x.result.ok
      BY <1>3 DEF EndsFirst
    <3>2. t.rank <= x.of.rank
      BY <1>3, <2>1 DEF EndsFirst
    <3>3. x.of \in good /\ x = at(x.of) /\ x.of.rank <= t.rank
      BY <2>2, <3>1
    <3>4. x.of.rank = t.rank
      BY <1>1, <3>2, <3>3
    <3>5. x.of = t
      BY <1>2, <3>3, <3>4
    <3>. QED BY <3>3, <3>5
  <2>. QED BY <2>3, <2>4
<1>7. FirstSuccess(C, A) = at(t).result
  <2>1. Cardinality(EndsFirst(C, A)) = 1
    BY <1>6, FS_Singleton
  <2>. QED BY <1>6, <2>1, FirstSuccessIs
<1>8. \A c \in C : f[Taken(reqs, b, c)].ok => c.rank <= t.rank
  BY <1>4, <1>5
<1>. QED BY <1>5, <1>7, <1>8

----------------------------------------------------------------------------
(* What is found is a solution.                                            *)

Extends(b, c) == DOMAIN c \subseteq DOMAIN b /\ \A repo \in DOMAIN c : b[repo] = c[repo]

(* The bindings the search comes to: git, and releases of the sources.     *)
Comes(b, sources, git) ==
  /\ b \in Bindings(sources, git) /\ Extends(b, git)
  /\ \A repo \in DOMAIN b \ DOMAIN git :
       repo \in DOMAIN sources /\ \E c \in sources[repo] : ~c.draft /\ b[repo] = BindingOf(c)

(* The search starts there.                                                *)
LEMMA GitComes ==
  ASSUME NEW reqs, NEW sources, NEW git, SearchInput(reqs, sources, git)
  PROVE  Comes(git, sources, git)
<1>1. git \in Bindings(sources, git)
  BY BindingsAre DEF SearchInput
<1>. QED BY <1>1 DEF Comes, Extends

(* And each branch adds the repository that is decided.                    *)
LEMMA BranchComes ==
  ASSUME NEW reqs, NEW sources, NEW git, SearchInput(reqs, sources, git),
         NEW b, Comes(b, sources, git), Unresolved(reqs, b) # {}, ~DeadEnd(reqs, sources, b),
         NEW c \in Candidates(reqs, sources, b)
  PROVE  /\ Comes(Taken(reqs, b, c), sources, git) /\ Extends(Taken(reqs, b, c), b)
         /\ Free(Taken(reqs, b, c)) < Free(b)
         /\ DOMAIN Taken(reqs, b, c) = DOMAIN b \cup {Decides(reqs, b)}
         /\ Taken(reqs, b, c)[Decides(reqs, b)] = BindingOf(c)
<1> DEFINE w == Taken(reqs, b, c)
           repo == Decides(reqs, b)
<1>1. b \in Bindings(sources, git) /\ Bound(b) /\ WholeRequest(reqs)
  BY BindingsAreBound DEF Comes, SearchInput
<1>2. repo \in Repository \ DOMAIN b
  BY <1>1, DecidesAFreeOne
<1>3. repo \in DOMAIN sources /\ c \in sources[repo] /\ ~c.draft
  BY CandidatesAre DEF DeadEnd
<1>4. w \in Bindings(sources, git) /\ Free(w) < Free(b)
  BY <1>1, BranchesAreSmaller
<1> HIDE DEF repo
<1>5. DOMAIN w = DOMAIN b \cup {repo} /\ w[repo] = BindingOf(c) /\ \A r \in DOMAIN b : w[r] = b[r]
  BY <1>2 DEF With, Taken, repo
<1> HIDE DEF w
<1>6. Extends(w, b) /\ Extends(w, git)
  BY <1>5 DEF Comes, Extends
<1>7. \A r \in DOMAIN w \ DOMAIN git :
        r \in DOMAIN sources /\ \E d \in sources[r] : ~d.draft /\ w[r] = BindingOf(d)
  BY <1>3, <1>5 DEF Comes
<1>. QED BY <1>4, <1>5, <1>6, <1>7 DEF Comes, w, repo

(* A search that succeeds comes to bindings that lack nothing.             *)
Finishes(e, reqs, sources, git) ==
  Comes(e, sources, git) /\ ~Stuck(reqs, e) /\ Unresolved(reqs, e) = {}

(* A step of the search.                                                   *)
LEMMA StepOf ==
  ASSUME NEW reqs, NEW sources, NEW git, NEW f,
         IsSearch(f, reqs, sources, Bindings(sources, git)), NEW b \in Bindings(sources, git)
  PROVE  f[b] = SearchBranch(reqs, sources, f, b)
BY DEF IsSearch

LEMMA SuccessFinishes ==
  ASSUME NEW reqs, NEW sources, NEW git, SearchInput(reqs, sources, git), NEW f,
         IsSearch(f, reqs, sources, Bindings(sources, git)),
         NEW start, Comes(start, sources, git), f[start].ok
  PROVE  \E e : /\ Finishes(e, reqs, sources, git) /\ Extends(e, start)
                /\ f[start] = Found(Graph(reqs, e))
<1> DEFINE Good(b) == \E e : /\ Finishes(e, reqs, sources, git) /\ Extends(e, b)
                             /\ f[b] = Found(Graph(reqs, e))
           Bad(b) == Comes(b, sources, git) /\ f[b].ok /\ ~Good(b)
           bad == {n \in Nat : \E b : Bad(b) /\ Free(b) = n}
<1>1. SUFFICES ASSUME bad # {} PROVE FALSE
  BY FreeIs
<1>2. PICK n \in bad : \A m \in bad : n <= m
  <2>1. bad \in SUBSET Nat
    OBVIOUS
  <2> HIDE DEF bad
  <2>. QED BY <1>1, <2>1, LeastNatural
<1>3. PICK b : Bad(b) /\ Free(b) = n
  BY <1>2
<1>4. f[b] = SearchBranch(reqs, sources, f, b)
  BY <1>3, StepOf DEF Comes
<1>5. ~Stuck(reqs, b)
  BY <1>3, <1>4, BranchIs DEF Failed
<1>6. Unresolved(reqs, b) # {}
  <2>1. ASSUME Unresolved(reqs, b) = {} PROVE Good(b)
    <3>1. f[b] = Found(Graph(reqs, b))
      BY <1>4, <1>5, <2>1, BranchIs
    <3>2. Finishes(b, reqs, sources, git) /\ Extends(b, b)
      BY <1>3, <1>5, <2>1 DEF Finishes, Extends
    <3>. QED BY <3>1, <3>2
  <2>. QED BY <1>3, <2>1
<1>7. ~DeadEnd(reqs, sources, b)
  BY <1>3, <1>4, <1>5, <1>6, BranchIs DEF Failed
<1>8. f[b] = FirstSuccess(Candidates(reqs, sources, b), Attempts(reqs, sources, f, b))
  BY <1>4, <1>5, <1>6, <1>7, BranchIs
<1>9. PICK c \in Candidates(reqs, sources, b) : f[b] = f[Taken(reqs, b, c)]
  BY <1>3, <1>7, <1>8, SucceededBranch
<1> DEFINE w == Taken(reqs, b, c)
<1>10. Comes(w, sources, git) /\ Extends(w, b) /\ Free(w) < Free(b)
  BY <1>3, <1>6, <1>7, BranchComes
<1>11. ~Bad(w)
  <2>1. Free(w) \in Nat /\ Free(b) \in Nat
    BY FreeIs
  <2>2. Free(w) \notin bad
    BY <1>2, <1>3, <1>10, <2>1
  <2>. QED BY <2>1, <2>2
<1>12. PICK e : /\ Finishes(e, reqs, sources, git) /\ Extends(e, w)
                /\ f[w] = Found(Graph(reqs, e))
  BY <1>3, <1>9, <1>10, <1>11
<1>13. Extends(e, b)
  BY <1>10, <1>12 DEF Extends
<1>14. Good(b)
  BY <1>9, <1>12, <1>13
<1>. QED BY <1>3, <1>14

(* The snapshots it comes to have packages of their own repositories.      *)
LEMMA ComesWhole ==
  ASSUME NEW reqs, NEW sources, NEW git, SearchInput(reqs, sources, git),
         NEW b, Comes(b, sources, git)
  PROVE  /\ Bound(b) /\ WholeRequest(reqs)
         /\ \A repo \in DOMAIN b : /\ b[repo].source \in {"git", "release"}
                                   /\ WholeSnapshot(repo, b[repo].snapshot)
<1>1. Bound(b) /\ WholeRequest(reqs)
  BY BindingsAreBound DEF Comes, SearchInput
<1>2. ASSUME NEW repo \in DOMAIN b
      PROVE  b[repo].source \in {"git", "release"} /\ WholeSnapshot(repo, b[repo].snapshot)
  <2>1. CASE repo \in DOMAIN git
    BY <2>1 DEF Comes, Extends, SearchInput
  <2>2. CASE repo \notin DOMAIN git
    <3>1. PICK c \in sources[repo] : b[repo] = BindingOf(c)
      BY <2>2 DEF Comes
    <3>2. WholeSnapshot(repo, c.snapshot)
      BY <2>2 DEF Comes, SearchInput, WholeReleases
    <3>. QED BY <3>1, <3>2 DEF BindingOf
  <2>. QED BY <2>1, <2>2
<1>. QED BY <1>1, <1>2

(* A release binding meets what is asked for and what packages ask.        *)
LEMMA WantsAreMet ==
  ASSUME NEW reqs, NEW e, ~Stuck(reqs, e), NEW repo \in DOMAIN e, e[repo].source = "release"
  PROVE  /\ \A r \in reqs : RepositoryAt(r) = repo /\ r.source = "release" =>
              Admits(r.want, e[repo])
         /\ \A x \in Edges(reqs, e) : RepositoryOf[x[2]] = repo =>
              Admits(Depends(x[1], e)[x[2]], e[repo])
<1>1. \A want \in Constraints(reqs, e, repo) : e[repo].version \in want
  BY DEF Stuck, AssignedOk
<1>2. ASSUME NEW r \in reqs, RepositoryAt(r) = repo, r.source = "release"
      PROVE  Admits(r.want, e[repo])
  <2>1. r.want # AnyVersion => r.want \in Constraints(reqs, e, repo)
    BY <1>2 DEF Constraints
  <2>. QED BY <1>1, <2>1 DEF Admits
<1>3. repo \notin ExplicitGit(reqs, e)
  <2>1. ASSUME NEW r \in reqs, r.source = "git", RepositoryAt(r) = repo PROVE FALSE
    <3>1. Claim(r) = BindingClaim(e[repo])
      BY <2>1 DEF Stuck, SourceConflict
    <3>. QED BY <2>1, <3>1 DEF Claim, BindingClaim
  <2>. QED BY <2>1 DEF ExplicitGit
<1>4. ASSUME NEW x \in Edges(reqs, e), RepositoryOf[x[2]] = repo
      PROVE  Admits(Depends(x[1], e)[x[2]], e[repo])
  <2>1. Depends(x[1], e)[x[2]] \in Constraints(reqs, e, repo)
    BY <1>3, <1>4 DEF Constraints
  <2>. QED BY <1>1, <2>1 DEF Admits
<1>. QED BY <1>2, <1>4

(* Where the search ends the requirements are solved.                      *)
LEMMA FinishSolves ==
  ASSUME NEW reqs, NEW sources, NEW git, SearchInput(reqs, sources, git),
         NEW e, Finishes(e, reqs, sources, git)
  PROVE  Solves(reqs, e, Expanded(reqs, e))
<1> DEFINE R == Required(reqs, e)
           X == Expanded(reqs, e)
<1>1. Bound(e) /\ WholeRequest(reqs) /\ RequiredIs(R, reqs, e)
  BY ComesWhole, RequiredIsLeast DEF Finishes
<1>2. X = {p \in R : Expandable(p, e)}
  BY DEF Expanded
<1>3. ASSUME NEW p \in R
      PROVE  RepositoryOf[p] \in DOMAIN e /\ p \in X
  <2>1. RepositoryOf[p] \in DOMAIN e
    BY DEF Finishes, Unresolved
  <2>. QED BY <1>2, <2>1 DEF Finishes, Stuck, PackageMissing
<1>4. ASSUME NEW r \in reqs
      PROVE  /\ RepositoryAt(r) \in DOMAIN e
             /\ IF r.kind = "package" THEN {r.at} \subseteq X ELSE DOMAIN e[r.at].snapshot \subseteq X
  <2>1. CASE r.kind = "package"
    <3>1. r.at \in R
      BY <1>1, <2>1 DEF RequiredIs, RootPackages
    <3>. QED BY <1>3, <2>1, <3>1 DEF RepositoryAt
  <2>2. CASE r.kind # "package"
    <3>1. r.kind = "repository" /\ RepositoryAt(r) = r.at /\ r.at \in Wide(reqs)
      BY <1>1, <2>2 DEF WholeRequest, RepositoryAt, Wide
    <3>2. r.at \in DOMAIN e
      BY <3>1 DEF Finishes, Unresolved
    <3>3. DOMAIN e[r.at].snapshot \subseteq RootPackages(reqs, e)
      BY <3>1, <3>2 DEF RootPackages
    <3>. QED BY <1>1, <1>3, <2>2, <3>1, <3>2, <3>3 DEF RequiredIs
  <2>. QED BY <2>1, <2>2
<1>5. ASSUME NEW r \in reqs
      PROVE  /\ Claim(r) = BindingClaim(e[RepositoryAt(r)])
             /\ r.source = "git" \/ Admits(r.want, e[RepositoryAt(r)])
  <2>1. RepositoryAt(r) \in DOMAIN e /\ Claim(r) = BindingClaim(e[RepositoryAt(r)])
    BY <1>4 DEF Finishes, Stuck, SourceConflict
  <2>2. CASE r.source = "git"
    BY <2>1, <2>2
  <2>3. CASE r.source # "git"
    <3>1. r.source = "release"
      BY <1>1, <2>3 DEF WholeRequest
    <3>2. e[RepositoryAt(r)].source = "release"
      BY <2>1, <3>1 DEF Claim, BindingClaim
    <3>. QED BY <2>1, <3>1, <3>2, WantsAreMet DEF Finishes
  <2>. QED BY <2>2, <2>3
<1>6. ASSUME NEW p \in X
      PROVE  /\ Expandable(p, e)
             /\ \A q \in DOMAIN Depends(p, e) :
                  q \in X /\ Expandable(q, e) /\ Admits(Depends(p, e)[q], e[RepositoryOf[q]])
  <2>1. p \in R /\ Expandable(p, e)
    BY <1>2
  <2>2. ASSUME NEW q \in DOMAIN Depends(p, e)
        PROVE  q \in X /\ Expandable(q, e) /\ Admits(Depends(p, e)[q], e[RepositoryOf[q]])
    <3>1. q \in R /\ q \in Package
      BY <1>1, <2>1 DEF RequiredIs, ClosedUnder
    <3>2. q \in X /\ Expandable(q, e) /\ RepositoryOf[q] \in DOMAIN e
      BY <1>2, <1>3, <3>1
    <3>3. <<p, q>> \in Edges(reqs, e)
      BY <3>1 DEF Edges
    <3>4. e[RepositoryOf[q]].source \in {"git", "release"}
      BY <3>2, ComesWhole DEF Finishes
    <3>5. CASE e[RepositoryOf[q]].source = "release"
      <4>1. \A x \in Edges(reqs, e) : RepositoryOf[x[2]] = RepositoryOf[q] =>
              Admits(Depends(x[1], e)[x[2]], e[RepositoryOf[q]])
        BY <3>2, <3>5, WantsAreMet DEF Finishes
      <4>. QED BY <3>2, <3>3, <4>1
    <3>6. CASE e[RepositoryOf[q]].source = "git"
      BY <3>2, <3>6 DEF Admits
    <3>. QED BY <3>4, <3>5, <3>6
  <2>. QED BY <2>1, <2>2
<1>. QED BY <1>4, <1>5, <1>6 DEF Solves

(* A set that solves the requirements has all that is required.            *)
LEMMA SolutionHasAll ==
  ASSUME NEW reqs, WholeRequest(reqs), NEW b, Bound(b), NEW s, Extends(s, b),
         NEW packages \in SUBSET Package, Solves(reqs, s, packages)
  PROVE  Required(reqs, b) \subseteq packages
<1>1. RequiredIs(Required(reqs, b), reqs, b)
  BY RequiredIsLeast
<1>2. RootPackages(reqs, b) \subseteq packages
  <2>1. ASSUME NEW r \in reqs, r.kind = "package" PROVE r.at \in packages
    BY <2>1 DEF Solves
  <2>2. ASSUME NEW r \in reqs, r.kind = "repository", r.at \in DOMAIN b
        PROVE  DOMAIN b[r.at].snapshot \subseteq packages
    <3>1. b[r.at] = s[r.at]
      BY <2>2 DEF Extends
    <3>2. DOMAIN s[r.at].snapshot \subseteq packages
      BY <2>2 DEF Solves
    <3>. QED BY <3>1, <3>2
  <2>. QED BY <2>1, <2>2 DEF RootPackages, Wide
<1>3. ClosedUnder(packages, b)
  <2>1. ASSUME NEW p \in packages, Expandable(p, b)
        PROVE  DOMAIN Depends(p, b) \subseteq packages
    <3>1. Depends(p, b) = Depends(p, s)
      BY <2>1 DEF Depends, Expandable, Extends
    <3>2. DOMAIN Depends(p, s) \subseteq packages
      BY DEF Solves
    <3>. QED BY <3>1, <3>2
  <2>. QED BY <2>1 DEF ClosedUnder
<1>. QED BY <1>1, <1>2, <1>3 DEF RequiredIs

(* What the search finds, for any sources and any requirements, is a       *)
(* solution: every requirement and every dependency is met by a release    *)
(* that is no draft or by the git binding, and nothing is superfluous.     *)
THEOREM FoundIsASolution ==
  ASSUME NEW reqs, NEW sources, NEW git, SearchInput(reqs, sources, git)
  PROVE  FindsASolution(reqs, sources, git)
<1> DEFINE found == ResolveTargetGraph(reqs, sources, git)
           g == found.graph
<1>1. SUFFICES ASSUME found.ok
      PROVE  /\ Solves(reqs, g.bindings, g.packages)
             /\ \A p \in g.packages :
                  {q \in Package : <<p, q>> \in g.edges} = DOMAIN Depends(p, g.bindings)
             /\ \A packages \in (SUBSET g.packages) \ {g.packages} :
                  ~Solves(reqs, g.bindings, packages)
             /\ \A repo \in DOMAIN g.bindings \ DOMAIN git :
                  \E c \in sources[repo] : ~c.draft /\ BindingOf(c) = g.bindings[repo]
  BY DEF FindsASolution
<1>2. PICK f : IsSearch(f, reqs, sources, Bindings(sources, git)) /\ found = f[git]
  BY SearchExists
<1>3. PICK e : Finishes(e, reqs, sources, git) /\ found = Found(Graph(reqs, e))
  BY <1>1, <1>2, GitComes, SuccessFinishes
<1>4. g.bindings = e /\ g.packages = Expanded(reqs, e) /\ g.edges = Edges(reqs, e)
  BY <1>3 DEF Found, Graph
<1>5. Bound(e) /\ WholeRequest(reqs)
  BY <1>3, ComesWhole DEF Finishes
<1>6. Expanded(reqs, e) \in SUBSET Package
  BY <1>5, RequiredIsLeast DEF Expanded, RequiredIs
<1>7. Solves(reqs, e, Expanded(reqs, e))
  BY <1>3, FinishSolves
<1>8. ASSUME NEW p \in Expanded(reqs, e)
      PROVE  {q \in Package : <<p, q>> \in Edges(reqs, e)} = DOMAIN Depends(p, e)
  <2>1. DOMAIN Depends(p, e) \subseteq Package
    BY <1>5 DEF Expanded, Expandable, Depends, Bound, OfPackages
  <2>. QED BY <2>1 DEF Edges
<1>9. ASSUME NEW packages \in SUBSET Expanded(reqs, e), Solves(reqs, e, packages)
      PROVE  packages = Expanded(reqs, e)
  <2>1. Required(reqs, e) \subseteq packages
    BY <1>5, <1>6, <1>9, SolutionHasAll DEF Extends
  <2>. QED BY <2>1 DEF Expanded
<1>10. \A repo \in DOMAIN e \ DOMAIN git : \E c \in sources[repo] : ~c.draft /\ BindingOf(c) = e[repo]
  BY <1>3 DEF Finishes, Comes
<1>11. \A p \in g.packages : {q \in Package : <<p, q>> \in g.edges} = DOMAIN Depends(p, g.bindings)
  BY <1>4, <1>8
<1>12. \A packages \in (SUBSET g.packages) \ {g.packages} : ~Solves(reqs, g.bindings, packages)
  BY <1>4, <1>9
<1>13. \A repo \in DOMAIN g.bindings \ DOMAIN git :
          \E c \in sources[repo] : ~c.draft /\ BindingOf(c) = g.bindings[repo]
  BY <1>4, <1>10
<1>14. Solves(reqs, g.bindings, g.packages)
  BY <1>4, <1>7
<1> HIDE DEF g, found
<1>. QED BY <1>11, <1>12, <1>13, <1>14

----------------------------------------------------------------------------
(* A solution is found when there is one.                                  *)

(* What repositories are bound to when only stable releases are taken.     *)
StableIs(s, sources, git) ==
  /\ Extends(s, git)
  /\ \A repo \in DOMAIN s \ DOMAIN git :
       repo \in DOMAIN sources
         /\ \E c \in sources[repo] : c.stable /\ ~c.draft /\ s[repo] = BindingOf(c)

(* A stable choice is git's, or a stable release for every other one.      *)
LEMMA StableChoicesAre ==
  ASSUME NEW sources, NEW git, NEW s \in StableChoices(sources, git)
  PROVE  StableIs(s, sources, git)
<1> DEFINE free == DOMAIN sources \ DOMAIN git
           stable(repo) == {BindingOf(c) : c \in {c \in sources[repo] : c.stable /\ ~c.draft}}
           some == {repo \in free : stable(repo) # {}}
           choices == {f \in [some -> UNION {stable(repo) : repo \in some}] :
                         \A repo \in some : f[repo] \in stable(repo)}
           with(choice) == [repo \in DOMAIN git \cup some |->
                              IF repo \in some THEN choice[repo] ELSE git[repo]]
<1>1. StableChoices(sources, git) = {with(choice) : choice \in choices}
  BY DEF StableChoices
<1>2. PICK choice \in choices : s = with(choice)
  BY <1>1
<1>3. \A repo \in some : choice[repo] \in stable(repo)
  OBVIOUS
<1>4. DOMAIN s = DOMAIN git \cup some
  BY <1>2
<1>5. \A repo \in DOMAIN git : s[repo] = git[repo]
  BY <1>2
<1>6. \A repo \in some : s[repo] \in stable(repo)
  BY <1>2, <1>3
<1>7. \A repo \in some : /\ repo \in DOMAIN sources
                         /\ \E c \in sources[repo] : c.stable /\ ~c.draft /\ s[repo] = BindingOf(c)
  BY <1>6
<1> HIDE DEF some
<1>. QED BY <1>4, <1>5, <1>7 DEF StableIs, Extends

(* A solution by stable releases, and bindings that agree with it.         *)
AgreesWith(b, s, packages, reqs, sources, git) ==
  /\ Comes(b, sources, git) /\ StableIs(s, sources, git) /\ Extends(s, b)
  /\ Solves(reqs, s, packages) /\ packages \in SUBSET Package

(* Nothing is wrong with them.                                             *)
LEMMA AgreeingIsNotStuck ==
  ASSUME NEW reqs, NEW sources, NEW git, SearchInput(reqs, sources, git),
         NEW b, NEW s, NEW packages, AgreesWith(b, s, packages, reqs, sources, git)
  PROVE  /\ ~Stuck(reqs, b) /\ Required(reqs, b) \subseteq packages
         /\ \A repo \in Unresolved(reqs, b) : repo \in DOMAIN s
<1>1. /\ Bound(b) /\ WholeRequest(reqs)
      /\ \A repo \in DOMAIN b : WholeSnapshot(repo, b[repo].snapshot)
  BY ComesWhole DEF AgreesWith
<1>2. Required(reqs, b) \subseteq packages /\ packages \in SUBSET Package
  BY <1>1, SolutionHasAll DEF AgreesWith
<1>3. ~SourceConflict(reqs, b)
  <2>1. \A r \in reqs : Claim(r) = BindingClaim(s[RepositoryAt(r)])
    BY DEF AgreesWith, Solves
  <2>2. \A repo \in DOMAIN b : s[repo] = b[repo]
    BY DEF AgreesWith, Extends
  <2>. QED BY <2>1, <2>2 DEF SourceConflict
<1>4. \A p : RepositoryOf[p] \in DOMAIN b => /\ Expandable(p, b) <=> Expandable(p, s)
                                             /\ Depends(p, b) = Depends(p, s)
  BY DEF AgreesWith, Extends, Expandable, Depends
<1>5. ~PackageMissing(reqs, b)
  BY <1>2, <1>4 DEF PackageMissing, AgreesWith, Solves
<1>6. ASSUME NEW repo \in DOMAIN b, b[repo].source = "release",
             NEW want \in Constraints(reqs, b, repo)
      PROVE  b[repo].version \in want
  <2>1. s[repo] = b[repo]
    BY DEF AgreesWith, Extends
  <2>2. CASE \E r \in reqs : /\ RepositoryAt(r) = repo /\ r.source = "release"
                             /\ r.want # AnyVersion /\ want = r.want
    <3>1. PICK r \in reqs : /\ RepositoryAt(r) = repo /\ r.source = "release"
                            /\ r.want # AnyVersion /\ want = r.want
      BY <2>2
    <3>2. Admits(r.want, s[repo])
      BY <3>1 DEF AgreesWith, Solves
    <3>. QED BY <1>6, <2>1, <3>1, <3>2 DEF Admits
  <2>3. CASE \E x \in Edges(reqs, b) : RepositoryOf[x[2]] = repo /\ want = Depends(x[1], b)[x[2]]
    <3>1. PICK x \in Edges(reqs, b) : RepositoryOf[x[2]] = repo /\ want = Depends(x[1], b)[x[2]]
      BY <2>3
    <3>2. x[1] \in packages /\ Expandable(x[1], b) /\ x[2] \in DOMAIN Depends(x[1], b)
      BY <1>2 DEF Edges, Expanded
    <3>3. Depends(x[1], b) = Depends(x[1], s)
      BY <1>4, <3>2 DEF Expandable
    <3>4. Admits(want, s[repo])
      BY <3>1, <3>2, <3>3 DEF AgreesWith, Solves
    <3>5. want # AnyVersion
      BY <1>1, <3>1, <3>2 DEF WholeSnapshot, Depends, Expandable
    <3>. QED BY <1>6, <2>1, <3>4, <3>5 DEF Admits
  <2>. QED BY <2>2, <2>3 DEF Constraints
<1>7. AssignedOk(reqs, b)
  BY <1>6 DEF AssignedOk
<1>8. ASSUME NEW repo \in Unresolved(reqs, b)
      PROVE  repo \in DOMAIN s
  <2>1. CASE repo \in Wide(reqs)
    <3>1. PICK r \in reqs : r.kind = "repository" /\ r.at = repo
      BY <2>1 DEF Wide
    <3>. QED BY <3>1 DEF AgreesWith, Solves, RepositoryAt
  <2>2. CASE \E p \in Required(reqs, b) : repo = RepositoryOf[p]
    BY <1>2, <2>2 DEF AgreesWith, Solves, Expandable
  <2>. QED BY <2>1, <2>2 DEF Unresolved
<1>. QED BY <1>2, <1>3, <1>5, <1>7, <1>8 DEF Stuck

(* What the solution takes for the repository that is decided is one of    *)
(* the candidates, and with it the bindings still agree.                   *)
LEMMA SolutionIsACandidate ==
  ASSUME NEW reqs, NEW sources, NEW git, SearchInput(reqs, sources, git), ~Ambiguous(sources),
         NEW b, NEW s, NEW packages, AgreesWith(b, s, packages, reqs, sources, git),
         Unresolved(reqs, b) # {}
  PROVE  /\ ~DeadEnd(reqs, sources, b)
         /\ \E c \in Candidates(reqs, sources, b) :
              /\ s[Decides(reqs, b)] = BindingOf(c)
              /\ AgreesWith(Taken(reqs, b, c), s, packages, reqs, sources, git)
<1> DEFINE repo == Decides(reqs, b)
<1>1. /\ Bound(b) /\ WholeRequest(reqs)
      /\ \A r \in DOMAIN b : WholeSnapshot(r, b[r].snapshot)
  BY ComesWhole DEF AgreesWith
<1>2. repo \in Unresolved(reqs, b) /\ repo \notin DOMAIN b
  BY <1>1, DecidesAFreeOne
<1>3. repo \in DOMAIN s /\ Required(reqs, b) \subseteq packages
  BY <1>2, AgreeingIsNotStuck
<1> HIDE DEF repo
<1>4. repo \in DOMAIN sources
      /\ \E c \in sources[repo] : c.stable /\ ~c.draft /\ s[repo] = BindingOf(c)
  BY <1>2, <1>3 DEF AgreesWith, StableIs, Comes, Extends
<1>5. PICK c \in sources[repo] : c.stable /\ ~c.draft /\ s[repo] = BindingOf(c)
  BY <1>4
<1>6. s[repo].source = "release" /\ s[repo].version = c.version
  BY <1>5 DEF BindingOf
<1>7. ASSUME NEW want \in Constraints(reqs, b, repo)
      PROVE  c.version \in want
  <2>1. CASE \E r \in reqs : /\ RepositoryAt(r) = repo /\ r.source = "release"
                             /\ r.want # AnyVersion /\ want = r.want
    <3>1. PICK r \in reqs : /\ RepositoryAt(r) = repo /\ r.source = "release"
                            /\ r.want # AnyVersion /\ want = r.want
      BY <2>1
    <3>2. Admits(r.want, s[repo])
      BY <3>1 DEF AgreesWith, Solves
    <3>. QED BY <1>6, <3>1, <3>2 DEF Admits
  <2>2. CASE \E x \in Edges(reqs, b) : RepositoryOf[x[2]] = repo /\ want = Depends(x[1], b)[x[2]]
    <3>1. PICK x \in Edges(reqs, b) : RepositoryOf[x[2]] = repo /\ want = Depends(x[1], b)[x[2]]
      BY <2>2
    <3>2. x[1] \in packages /\ Expandable(x[1], b) /\ x[2] \in DOMAIN Depends(x[1], b)
      BY <1>3 DEF Edges, Expanded
    <3>3. Depends(x[1], b) = Depends(x[1], s)
      BY <3>2 DEF Expandable, Depends, AgreesWith, Extends
    <3>4. Admits(want, s[repo])
      BY <3>1, <3>2, <3>3 DEF AgreesWith, Solves
    <3>5. want # AnyVersion
      BY <1>1, <3>1, <3>2 DEF WholeSnapshot, Depends, Expandable
    <3>. QED BY <1>6, <3>4, <3>5 DEF Admits
  <2>. QED BY <2>1, <2>2 DEF Constraints
<1>8. c \in Candidates(reqs, sources, b)
  BY <1>5, <1>7 DEF Candidates, Eligible, repo
<1>9. ~AmbiguousVersion(Candidates(reqs, sources, b))
  <2>1. ASSUME NEW x \in Candidates(reqs, sources, b), NEW y \in Candidates(reqs, sources, b),
               x # y, x.version = y.version
        PROVE  FALSE
    <3>1. x \in sources[repo] /\ ~x.draft /\ y \in sources[repo] /\ ~y.draft
      BY CandidatesAre DEF repo
    <3>2. x.rank = y.rank
      BY <1>4, <2>1, <3>1 DEF SearchInput, WholeReleases
    <3>. QED BY <1>4, <2>1, <3>1, <3>2 DEF Ambiguous
  <2>. QED BY <2>1 DEF AmbiguousVersion
<1>10. ~DeadEnd(reqs, sources, b)
  BY <1>4, <1>9 DEF DeadEnd, repo
<1>11. /\ Comes(Taken(reqs, b, c), sources, git) /\ Extends(Taken(reqs, b, c), b)
       /\ DOMAIN Taken(reqs, b, c) = DOMAIN b \cup {repo}
       /\ Taken(reqs, b, c)[repo] = BindingOf(c)
  BY <1>8, <1>10, BranchComes DEF AgreesWith, repo
<1>12. AgreesWith(Taken(reqs, b, c), s, packages, reqs, sources, git)
  BY <1>3, <1>5, <1>11 DEF AgreesWith, Extends
<1>. QED BY <1>5, <1>8, <1>10, <1>12 DEF repo

(* So the search succeeds from bindings that agree with a solution.        *)
LEMMA SolutionIsFound ==
  ASSUME NEW reqs, NEW sources, NEW git, SearchInput(reqs, sources, git), ~Ambiguous(sources),
         NEW f, IsSearch(f, reqs, sources, Bindings(sources, git)),
         NEW s, NEW packages, NEW start, AgreesWith(start, s, packages, reqs, sources, git)
  PROVE  f[start].ok
<1> DEFINE Bad(b) == AgreesWith(b, s, packages, reqs, sources, git) /\ ~f[b].ok
           bad == {n \in Nat : \E b : Bad(b) /\ Free(b) = n}
<1>1. SUFFICES ASSUME bad # {} PROVE FALSE
  BY FreeIs
<1>2. PICK n \in bad : \A m \in bad : n <= m
  <2>1. bad \in SUBSET Nat
    OBVIOUS
  <2> HIDE DEF bad
  <2>. QED BY <1>1, <2>1, LeastNatural
<1>3. PICK b : Bad(b) /\ Free(b) = n
  BY <1>2
<1>4. f[b] = SearchBranch(reqs, sources, f, b)
  BY <1>3, StepOf DEF AgreesWith, Comes
<1>5. ~Stuck(reqs, b)
  BY <1>3, AgreeingIsNotStuck
<1>6. CASE Unresolved(reqs, b) = {}
  BY <1>3, <1>4, <1>5, <1>6, BranchIs DEF Found
<1>7. CASE Unresolved(reqs, b) # {}
  <2>1. ~DeadEnd(reqs, sources, b)
    BY <1>3, <1>7, SolutionIsACandidate
  <2>2. PICK c \in Candidates(reqs, sources, b) :
          AgreesWith(Taken(reqs, b, c), s, packages, reqs, sources, git)
    BY <1>3, <1>7, SolutionIsACandidate
  <2>3. Free(Taken(reqs, b, c)) < Free(b)
    BY <1>3, <1>7, <2>1, BranchComes DEF AgreesWith
  <2>4. f[Taken(reqs, b, c)].ok
    <3>1. Free(Taken(reqs, b, c)) \in Nat /\ Free(b) \in Nat
      BY FreeIs
    <3>2. Free(Taken(reqs, b, c)) \notin bad
      BY <1>2, <1>3, <2>3, <3>1
    <3>. QED BY <2>2, <3>1, <3>2
  <2>5. FirstSuccess(Candidates(reqs, sources, b), Attempts(reqs, sources, f, b)).ok
    BY <2>1, <2>4, NewestBranch
  <2>. QED BY <1>3, <1>4, <1>5, <1>7, <2>1, <2>5, BranchIs
<1>. QED BY <1>6, <1>7

(* When no two releases are ambiguous, the search finds a solution if      *)
(* stable releases give one, and none of them has a newer release of the   *)
(* repository that is decided first.                                       *)
THEOREM NewestIsFound ==
  ASSUME NEW reqs, NEW sources, NEW git, SearchInput(reqs, sources, git)
  PROVE  FindsTheNewest(reqs, sources, git)
<1> DEFINE found == ResolveTargetGraph(reqs, sources, git)
           solutions == {b \in StableChoices(sources, git) :
                           \E packages \in SUBSET Offered(b) : Solves(reqs, b, packages)}
           first == FirstOf(Unresolved(reqs, git))
<1>1. SUFFICES ASSUME ~Ambiguous(sources)
               PROVE  /\ solutions # {} => found.ok
                      /\ (found.ok /\ Unresolved(reqs, git) # {}) =>
                           \A b \in solutions : b[first].rank <= found.graph.bindings[first].rank
  BY DEF FindsTheNewest
<1>2. PICK f : IsSearch(f, reqs, sources, Bindings(sources, git)) /\ found = f[git]
  BY SearchExists
<1>3. ASSUME NEW s \in solutions
      PROVE  \E packages : AgreesWith(git, s, packages, reqs, sources, git)
  <2>1. PICK packages \in SUBSET Offered(s) : Solves(reqs, s, packages)
    OBVIOUS
  <2>2. StableIs(s, sources, git)
    BY StableChoicesAre
  <2>3. packages \in SUBSET Package
    <3>1. \A p \in packages : RepositoryOf[p] \in DOMAIN s /\ p \in DOMAIN s[RepositoryOf[p]].snapshot
      BY <2>1 DEF Solves, Expandable
    <3>2. \A r \in DOMAIN s : DOMAIN s[r].snapshot \subseteq Package
      <4>1. ASSUME NEW r \in DOMAIN s, r \in DOMAIN git
            PROVE  DOMAIN s[r].snapshot \subseteq Package
        BY <2>2, <4>1 DEF StableIs, Extends, SearchInput, WholeSnapshot
      <4>2. ASSUME NEW r \in DOMAIN s, r \notin DOMAIN git
            PROVE  DOMAIN s[r].snapshot \subseteq Package
        BY <2>2, <4>2 DEF StableIs, SearchInput, WholeReleases, WholeSnapshot, BindingOf
      <4>. QED BY <4>1, <4>2
    <3>. QED BY <3>1, <3>2
  <2>. QED BY <2>1, <2>2, <2>3, GitComes DEF AgreesWith, StableIs
<1>4. ASSUME solutions # {}
      PROVE  found.ok
  <2>1. PICK s \in solutions : TRUE
    BY <1>4
  <2>2. PICK packages : AgreesWith(git, s, packages, reqs, sources, git)
    BY <1>3
  <2>. QED BY <1>1, <1>2, <2>2, SolutionIsFound
<1>5. ASSUME found.ok, Unresolved(reqs, git) # {}, NEW s \in solutions
      PROVE  s[first].rank <= found.graph.bindings[first].rank
  <2>1. PICK packages : AgreesWith(git, s, packages, reqs, sources, git)
    BY <1>3
  <2>2. first = Decides(reqs, git)
    BY DEF Decides
  <2>3. ~DeadEnd(reqs, sources, git)
    BY <1>1, <1>5, <2>1, SolutionIsACandidate
  <2>4. PICK c \in Candidates(reqs, sources, git) :
          /\ s[first] = BindingOf(c)
          /\ AgreesWith(Taken(reqs, git, c), s, packages, reqs, sources, git)
    BY <1>1, <1>5, <2>1, <2>2, SolutionIsACandidate
  <2>5. f[Taken(reqs, git, c)].ok
    BY <1>1, <1>2, <2>4, SolutionIsFound
  <2>6. PICK t \in Candidates(reqs, sources, git) :
          /\ FirstSuccess(Candidates(reqs, sources, git), Attempts(reqs, sources, f, git))
               = f[Taken(reqs, git, t)]
          /\ f[Taken(reqs, git, t)].ok
          /\ \A d \in Candidates(reqs, sources, git) : f[Taken(reqs, git, d)].ok => d.rank <= t.rank
    BY <1>1, <2>3, <2>5, NewestBranch
  <2>7. found = f[Taken(reqs, git, t)]
    <3>1. git \in Bindings(sources, git) /\ ~Stuck(reqs, git)
      BY <2>1, AgreeingIsNotStuck DEF AgreesWith, Comes
    <3>2. f[git] = SearchBranch(reqs, sources, f, git)
      BY <1>2, <3>1, StepOf
    <3>. QED BY <1>2, <1>5, <2>3, <2>6, <3>1, <3>2, BranchIs
  <2>8. /\ Comes(Taken(reqs, git, t), sources, git)
        /\ first \in DOMAIN Taken(reqs, git, t)
        /\ Taken(reqs, git, t)[first] = BindingOf(t)
    <3>1. /\ Comes(Taken(reqs, git, t), sources, git)
          /\ DOMAIN Taken(reqs, git, t) = DOMAIN git \cup {Decides(reqs, git)}
          /\ Taken(reqs, git, t)[Decides(reqs, git)] = BindingOf(t)
      BY <1>5, <2>3, GitComes, BranchComes
    <3> HIDE DEF first
    <3>. QED BY <2>2, <3>1
  <2>9. PICK e : Extends(e, Taken(reqs, git, t)) /\ found = Found(Graph(reqs, e))
    BY <1>2, <2>6, <2>7, <2>8, SuccessFinishes
  <2>10. found.graph.bindings[first] = BindingOf(t)
    BY <2>8, <2>9 DEF Found, Graph, Extends
  <2>. QED BY <2>4, <2>5, <2>6, <2>10 DEF BindingOf
<1>. QED BY <1>4, <1>5

----------------------------------------------------------------------------
(* Fetching only what snapshots lead to loses nothing.                     *)

(* The sources that were fetched are input for the resolver.               *)
LEMMA AcquiredInput ==
  ASSUME NEW reqs, WholeRequest(reqs), NEW releases, NEW refs, WholeWorld(releases, refs),
         NEW reachable, AcquireOk(reqs, refs, reachable), NEW S \in SUBSET Repository
  PROVE  /\ SearchInput(reqs, RestrictTo(releases, S), GitOf(reqs, refs))
         /\ DOMAIN GitOf(reqs, refs) = DirectSources(reqs, "git")
         /\ DOMAIN RestrictTo(releases, S) = S
<1> DEFINE git == GitOf(reqs, refs)
           sources == RestrictTo(releases, S)
<1>1. DOMAIN git = DirectSources(reqs, "git") /\ IsFunction(git)
      /\ \A r \in DOMAIN git : git[r] = refs[r]
  BY DEF GitOf, RestrictTo, IsFunction
<1>2. DOMAIN git \subseteq DOMAIN refs
  BY <1>1 DEF AcquireOk
<1>3. DOMAIN sources = S /\ \A r \in S : sources[r] = releases[r]
  BY DEF RestrictTo
<1> HIDE DEF git, sources
<1>4. SearchInput(reqs, sources, git)
  BY <1>1, <1>2, <1>3 DEF SearchInput, WholeWorld
<1>. QED BY <1>1, <1>3, <1>4 DEF git, sources

(* So are all of them.                                                     *)
LEMMA WorldAsInput ==
  ASSUME NEW reqs, WholeRequest(reqs), NEW releases, NEW refs, WholeWorld(releases, refs),
         AcquireOk(reqs, refs, Repository)
  PROVE  SearchInput(reqs, releases, GitOf(reqs, refs))
<1> DEFINE git == GitOf(reqs, refs)
<1>1. DOMAIN git = DirectSources(reqs, "git") /\ IsFunction(git)
      /\ \A r \in DOMAIN git : git[r] = refs[r]
  BY DEF GitOf, RestrictTo, IsFunction
<1>2. DOMAIN git \subseteq DOMAIN refs
  BY <1>1 DEF AcquireOk
<1> HIDE DEF git
<1>3. SearchInput(reqs, releases, git)
  BY <1>1, <1>2 DEF SearchInput, WholeWorld
<1>. QED BY <1>3 DEF git

(* What is prefetched has what is required directly, and every repository  *)
(* that answers and that its snapshots depend on.                          *)
PrefetchedIs(S, releases, reachable, direct, git) ==
  /\ direct \subseteq S /\ S \subseteq direct \cup (reachable \ DOMAIN git)
  /\ (KnownDependencies(releases, S, git) \cap reachable) \ DOMAIN git \subseteq S

(* As many rounds as there are repositories are enough.                    *)
LEMMA PrefetchedCloses ==
  ASSUME NEW reqs, NEW releases, NEW reachable \in SUBSET Repository,
         NEW direct \in SUBSET Repository, NEW git
  PROVE  PrefetchedIs(Prefetched(releases, reachable, direct, git), releases, reachable, direct, git)
<1> DEFINE n == Cardinality(Repository)
           next == [S \in SUBSET Repository |-> Fetched(releases, reachable, S, git)]
           IsRound(f) == f = [i \in 0..n |-> IF i = 0 THEN direct
                                             ELSE Fetched(releases, reachable, f[i - 1], git)]
<1>1. \A S : Fetched(releases, reachable, S, git)
               = S \cup ((KnownDependencies(releases, S, git) \cap reachable) \ DOMAIN git)
  BY DEF Fetched
<1>2. Grows(next, Repository)
  BY <1>1 DEF Grows
<1>3. n \in Nat /\ IsFiniteSet(Repository)
  BY RepositoryAssumption, FS_CardinalityType
<1>4. PICK g : PassesWithin(g, n, Repository, direct, next)
  <2> HIDE DEF n, next
  <2>. QED BY <1>2, <1>3, PassesExist
<1>5. IsRound(g)
  <2>1. \A i \in 0..n : i # 0 => i - 1 \in 0..n
    BY <1>3
  <2>2. \A i \in 0..n : i # 0 => next[g[i - 1]] = Fetched(releases, reachable, g[i - 1], git)
    BY <1>4, <2>1 DEF PassesWithin
  <2>3. \A i \in 0..n : g[i] = IF i = 0 THEN direct ELSE Fetched(releases, reachable, g[i - 1], git)
    BY <1>4, <2>2 DEF PassesWithin
  <2>. QED BY <1>4, <2>3 DEF PassesWithin
<1> DEFINE P == Prefetched(releases, reachable, direct, git)
<1>6. PICK f : IsRound(f) /\ P = f[n]
  <2> DEFINE f == CHOOSE f : IsRound(f)
  <2>1. IsRound(f)
    BY <1>5
  <2>2. P = f[n]
    BY DEF Prefetched
  <2> HIDE DEF f
  <2>. QED BY <2>1, <2>2
<1>7. Passes(f, n, Repository, direct, next)
  <2>1. f[0] = direct
    BY <1>3, <1>6
  <2>2. ASSUME NEW i \in 1..n, f[i - 1] \in SUBSET Repository
        PROVE  f[i] = next[f[i - 1]]
    <3>1. i \in 0..n /\ i # 0
      BY <1>3
    <3>2. f[i] = Fetched(releases, reachable, f[i - 1], git)
      BY <1>6, <3>1
    <3>. QED BY <2>2, <3>2
  <2>. QED BY <2>1, <2>2 DEF Passes
<1>8. Closes(P, Repository, direct, next)
  <2> HIDE DEF next
  <2>. QED BY <1>2, <1>3, <1>6, <1>7, PassesClose
<1>9. P \in SUBSET Repository /\ direct \subseteq P /\ Fetched(releases, reachable, P, git) = P
  BY <1>8 DEF Closes
<1>10. P \subseteq direct \cup (reachable \ DOMAIN git)
  <2> DEFINE Q == direct \cup (reachable \ DOMAIN git)
  <2>1. Q \in SUBSET Repository /\ direct \subseteq Q
    OBVIOUS
  <2>2. ASSUME NEW S \in SUBSET Q PROVE next[S] \subseteq Q
    <3>1. S \in SUBSET Repository
      BY <2>1
    <3>2. next[S] = Fetched(releases, reachable, S, git)
      BY <3>1
    <3>. QED BY <1>1, <3>2
  <2> HIDE DEF next, Q, P
  <2>3. P \subseteq Q
    BY <1>8, <2>1, <2>2 DEF Closes
  <2>. QED BY <2>3 DEF Q, P
<1>. QED BY <1>1, <1>9, <1>10 DEF PrefetchedIs

(* A repository that is missing was fetched, or does not answer.           *)
LEMMA MissingIsFetched ==
  ASSUME NEW reqs, WholeRequest(reqs), NEW releases, NEW refs, WholeWorld(releases, refs),
         NEW reachable \in SUBSET Repository, AcquireOk(reqs, refs, reachable),
         NEW S \in SUBSET Repository,
         PrefetchedIs(S, releases, reachable, DirectSources(reqs, "release"), GitOf(reqs, refs)),
         NEW b, Comes(b, RestrictTo(releases, S), GitOf(reqs, refs)),
         NEW repo \in Unresolved(reqs, b), repo \in reachable \ DOMAIN GitOf(reqs, refs)
  PROVE  repo \in S
<1> DEFINE git == GitOf(reqs, refs)
           sources == RestrictTo(releases, S)
           Q == {p \in Package : RepositoryOf[p] \in reachable \ DOMAIN git => RepositoryOf[p] \in S}
<1>1. /\ SearchInput(reqs, sources, git) /\ DOMAIN git = DirectSources(reqs, "git")
      /\ DOMAIN sources = S
  BY AcquiredInput
<1>2. /\ Bound(b) /\ \A r \in DOMAIN b : WholeSnapshot(r, b[r].snapshot)
  BY <1>1, ComesWhole
<1>3. \A r \in reqs : RepositoryAt(r) \in S \cup DOMAIN git
  <2>1. \A r \in reqs : r.source \in {"release", "git"}
    BY DEF WholeRequest
  <2>. QED BY <1>1, <2>1 DEF DirectSources, PrefetchedIs
<1>4. \A r \in S : sources[r] = releases[r]
  BY DEF RestrictTo
<1> HIDE DEF git, sources
<1>5. Comes(b, sources, git) /\ repo \in reachable \ DOMAIN git
  BY DEF git, sources
<1>6. DOMAIN b \subseteq S \cup DOMAIN git
  BY <1>1, <1>5 DEF Comes
<1>7. RootPackages(reqs, b) \subseteq Q
  <2>1. RootPackages(reqs, b) \in SUBSET Package
    BY <1>2, RootsAre
  <2>2. ASSUME NEW r \in reqs, r.kind = "package"
        PROVE  RepositoryOf[r.at] \in S \cup DOMAIN git
    BY <1>3, <2>2 DEF RepositoryAt
  <2>3. ASSUME NEW r \in DOMAIN b, NEW p \in DOMAIN b[r].snapshot
        PROVE  RepositoryOf[p] \in S \cup DOMAIN git
    BY <1>2, <1>6 DEF WholeSnapshot
  <2>4. \A p \in RootPackages(reqs, b) : RepositoryOf[p] \in S \cup DOMAIN git
    BY <2>2, <2>3 DEF RootPackages
  <2>. QED BY <2>1, <2>4
<1>8. ASSUME NEW r \in DOMAIN b
      PROVE  SnapshotDependencies(b[r].snapshot) \subseteq KnownDependencies(releases, S, git)
  <2>1. CASE r \in DOMAIN git
    <3>1. b[r] = git[r]
      BY <1>5, <2>1 DEF Comes, Extends
    <3>. QED BY <2>1, <3>1 DEF KnownDependencies
  <2>2. CASE r \notin DOMAIN git
    <3>1. PICK c \in sources[r] : b[r] = BindingOf(c)
      BY <1>5, <2>2 DEF Comes
    <3>2. r \in S /\ c \in releases[r] /\ b[r].snapshot = c.snapshot
      BY <1>1, <1>4, <1>5, <2>2, <3>1 DEF Comes, BindingOf
    <3>. QED BY <3>2 DEF KnownDependencies
  <2>. QED BY <2>1, <2>2
<1>9. ClosedUnder(Q, b)
  <2>1. ASSUME NEW p \in Q, Expandable(p, b), NEW q \in DOMAIN Depends(p, b)
        PROVE  q \in Q
    <3> DEFINE r == RepositoryOf[p]
    <3>1. r \in DOMAIN b /\ p \in DOMAIN b[r].snapshot /\ q \in DOMAIN b[r].snapshot[p]
      BY <2>1 DEF Expandable, Depends
    <3>2. q \in Package
      BY <1>2, <3>1 DEF WholeSnapshot
    <3>3. RepositoryOf[q] \in SnapshotDependencies(b[r].snapshot)
      BY <3>1 DEF SnapshotDependencies
    <3>4. RepositoryOf[q] \in KnownDependencies(releases, S, git)
      BY <1>8, <3>1, <3>3
    <3>. QED BY <3>2, <3>4 DEF PrefetchedIs, git
  <2>. QED BY <2>1 DEF ClosedUnder
<1>10. Required(reqs, b) \subseteq Q
  <2>1. Q \in SUBSET Package
    OBVIOUS
  <2> HIDE DEF Q
  <2>. QED BY <1>2, <1>7, <1>9, <2>1, RequiredIsLeast DEF RequiredIs
<1>11. CASE repo \in Wide(reqs)
  <2>1. repo \in S \cup DOMAIN git
    BY <1>3, <1>11 DEF Wide, RepositoryAt
  <2>. QED BY <1>5, <2>1
<1>12. CASE \E p \in Required(reqs, b) : repo = RepositoryOf[p]
  BY <1>5, <1>10, <1>12
<1>. QED BY <1>11, <1>12 DEF Unresolved

(* Two searches that differ in sources which are never decided agree.      *)
LEMMA SameSearch ==
  ASSUME NEW reqs, NEW releases, NEW git, NEW S \in SUBSET Repository, NEW T \in SUBSET Repository,
         S \subseteq T,
         SearchInput(reqs, RestrictTo(releases, S), git),
         SearchInput(reqs, RestrictTo(releases, T), git),
         \A b : Comes(b, RestrictTo(releases, S), git) => Unresolved(reqs, b) \cap T \subseteq S,
         NEW f, IsSearch(f, reqs, RestrictTo(releases, S), Bindings(RestrictTo(releases, S), git)),
         NEW g, IsSearch(g, reqs, RestrictTo(releases, T), Bindings(RestrictTo(releases, T), git)),
         NEW start, Comes(start, RestrictTo(releases, S), git)
  PROVE  f[start] = g[start]
<1> DEFINE few == RestrictTo(releases, S)
           many == RestrictTo(releases, T)
           Bad(b) == Comes(b, few, git) /\ f[b] # g[b]
           bad == {n \in Nat : \E b : Bad(b) /\ Free(b) = n}
<1>1. SUFFICES ASSUME bad # {} PROVE FALSE
  BY FreeIs
<1>2. PICK n \in bad : \A m \in bad : n <= m
  <2>1. bad \in SUBSET Nat
    OBVIOUS
  <2> HIDE DEF bad
  <2>. QED BY <1>1, <2>1, LeastNatural
<1>3. PICK b : Bad(b) /\ Free(b) = n
  BY <1>2
<1>4. /\ DOMAIN few = S /\ DOMAIN many = T
      /\ \A repo \in S : few[repo] = releases[repo] /\ many[repo] = releases[repo]
  BY DEF RestrictTo
<1>5. b \in Bindings(many, git)
  <2>1. b \in Bindings(few, git)
    BY <1>3 DEF Comes
  <2> HIDE DEF few, many
  <2>. QED BY <1>4, <2>1, BindingsAre
<1>6. /\ f[b] = SearchBranch(reqs, few, f, b) /\ g[b] = SearchBranch(reqs, many, g, b)
      /\ b \in Bindings(few, git)
  BY <1>3, <1>5, StepOf DEF Comes
<1>7. Bound(b) /\ WholeRequest(reqs)
  BY <1>3, ComesWhole
<1>8. ~Stuck(reqs, b) /\ Unresolved(reqs, b) # {}
  BY <1>3, <1>6, BranchIs
<1> DEFINE repo == Decides(reqs, b)
<1>9. repo \in Unresolved(reqs, b)
  BY <1>7, <1>8, DecidesAFreeOne
<1>10. repo \in S <=> repo \in T
  BY <1>3, <1>9
<1>11. CASE repo \notin S
  <2>1. DeadEnd(reqs, few, b) /\ DeadEnd(reqs, many, b)
    BY <1>4, <1>10, <1>11 DEF DeadEnd
  <2>. QED BY <1>3, <1>6, <1>8, <2>1, BranchIs
<1>12. CASE repo \in S
  <2>1. Candidates(reqs, few, b) = Candidates(reqs, many, b)
    BY <1>4, <1>12 DEF Candidates
  <2>2. DeadEnd(reqs, few, b) <=> DeadEnd(reqs, many, b)
    BY <1>4, <1>10, <1>12, <2>1 DEF DeadEnd
  <2>3. ~DeadEnd(reqs, few, b)
    BY <1>3, <1>6, <1>8, <2>2, BranchIs
  <2>4. ASSUME NEW c \in Candidates(reqs, few, b)
        PROVE  f[Taken(reqs, b, c)] = g[Taken(reqs, b, c)]
    <3>1. Comes(Taken(reqs, b, c), few, git) /\ Free(Taken(reqs, b, c)) < Free(b)
      BY <1>3, <1>8, <2>3, BranchComes
    <3>2. Free(Taken(reqs, b, c)) \in Nat /\ Free(b) \in Nat
      BY FreeIs
    <3>3. Free(Taken(reqs, b, c)) \notin bad
      BY <1>2, <1>3, <3>1, <3>2
    <3>. QED BY <3>1, <3>2, <3>3
  <2>5. Attempts(reqs, few, f, b) = Attempts(reqs, many, g, b)
    BY <2>1, <2>4 DEF Attempts
  <2>. QED BY <1>3, <1>6, <2>1, <2>2, <2>5, BranchIs
<1>. QED BY <1>11, <1>12

(* The answer from what is prefetched is the answer from every repository  *)
(* that answers.                                                           *)
THEOREM PrefetchIsEnough ==
  ASSUME NEW reqs, WholeRequest(reqs), NEW releases, NEW refs, WholeWorld(releases, refs),
         NEW reachable \in SUBSET Repository
  PROVE  PrefetchLosesNothing(reqs, releases, refs, reachable)
<1> DEFINE git == GitOf(reqs, refs)
           direct == DirectSources(reqs, "release")
           S == Prefetched(releases, reachable, direct, git)
           T == reachable \ DOMAIN git
<1>1. SUFFICES ASSUME AcquireOk(reqs, refs, reachable)
      PROVE  ResolveTargetGraph(reqs, RestrictTo(releases, S), git)
               = ResolveTargetGraph(reqs, RestrictTo(releases, T), git)
  BY DEF PrefetchLosesNothing, Resolved, GitOf
<1>2. DOMAIN git = DirectSources(reqs, "git") /\ direct \subseteq reachable
  BY <1>1 DEF GitOf, RestrictTo, AcquireOk
<1>3. direct \cap DOMAIN git = {}
  <2>1. \A r, s \in reqs : RepositoryAt(r) = RepositoryAt(s) => Claim(r) = Claim(s)
    BY <1>1 DEF AcquireOk, SourceConflict
  <2>2. \A r, s \in reqs : r.source # s.source => Claim(r) # Claim(s)
    BY DEF Claim
  <2>. QED BY <1>2, <2>1, <2>2 DEF DirectSources
<1>4. PrefetchedIs(S, releases, reachable, direct, git)
  BY <1>2, PrefetchedCloses
<1>5. S \subseteq T /\ S \in SUBSET Repository /\ T \in SUBSET Repository
  BY <1>2, <1>3, <1>4 DEF PrefetchedIs
<1> HIDE DEF S, T, git, direct
<1>6. /\ SearchInput(reqs, RestrictTo(releases, S), git)
      /\ SearchInput(reqs, RestrictTo(releases, T), git)
  BY <1>1, <1>5, AcquiredInput DEF git
<1>7. ASSUME NEW b, Comes(b, RestrictTo(releases, S), git)
      PROVE  Unresolved(reqs, b) \cap T \subseteq S
  BY <1>1, <1>4, <1>5, <1>7, MissingIsFetched DEF git, T, direct
<1>8. PICK f : /\ IsSearch(f, reqs, RestrictTo(releases, S), Bindings(RestrictTo(releases, S), git))
               /\ ResolveTargetGraph(reqs, RestrictTo(releases, S), git) = f[git]
  BY <1>6, SearchExists
<1>9. PICK g : /\ IsSearch(g, reqs, RestrictTo(releases, T), Bindings(RestrictTo(releases, T), git))
               /\ ResolveTargetGraph(reqs, RestrictTo(releases, T), git) = g[git]
  BY <1>6, SearchExists
<1>10. Comes(git, RestrictTo(releases, S), git)
  BY <1>6, GitComes
<1>11. f[git] = g[git]
  BY <1>5, <1>6, <1>7, <1>8, <1>9, <1>10, SameSearch
<1>. QED BY <1>8, <1>9, <1>11

----------------------------------------------------------------------------
(* The decisions that are taken.                                           *)

(* What is decided about is what was given, or what was imported from it.  *)
GivenInputs ==
  /\ (IsOpen("export") \/ Decided("export")) => decision.of \in Targets
  /\ IsOpen("import") => decision.of \in Imports
  /\ (IsOpen("merge") \/ Decided("merge")) => decision.of \in Targets
  /\ Decided("merge") => decision.input \in Imports
  /\ (IsOpen("accept") \/ Decided("accept")) => decision.of \in States
  /\ Decided("accept") => decision.input.new \in States
  /\ (IsOpen("marker") \/ Decided("marker")) => decision.of \in Headers
  /\ Decided("marker") => /\ decision.input.managed \in ManagedTablesRead
                          /\ decision.input.detached \in DetachedTablesRead
  /\ (IsOpen("resolve") \/ Decided("resolve")) => decision.of \in Worlds
  /\ Decided("resolve") => /\ decision.input \in Requests
                           /\ AcquireOk(decision.input, decision.of.refs, Repository)
  /\ (IsOpen("fetch") \/ Decided("fetch")) => decision.of \in FetchWorlds
  /\ Decided("fetch") => /\ decision.input.reqs \in FetchRequests
                         /\ decision.input.reachable \in SUBSET Repository
  /\ (IsOpen("match") \/ Decided("match")) => decision.of \in Texts
  /\ Decided("match") => decision.input \in Versions

LEMMA OpenGives ==
  ASSUME NEW topic, NEW of, Open(topic, of)
  PROVE  /\ decision'.topic = topic /\ decision'.phase = "open" /\ decision'.of = of
BY DEF Open

LEMMA DecideGives ==
  ASSUME NEW topic, NEW input, IsOpen(topic), Decide(topic, input)
  PROVE  /\ decision'.topic = topic /\ decision'.phase = "decided"
         /\ decision'.of = decision.of /\ decision'.input = input
BY DEF Decide

LEMMA GivenFromTheStart == Init => GivenInputs
BY DEF Init, GivenInputs, IsOpen, Decided

LEMMA GivenKept == GivenInputs /\ [Next]_decision => GivenInputs'
<1>. SUFFICES ASSUME GivenInputs, [Next]_decision
              PROVE  GivenInputs'
  OBVIOUS
<1>1. CASE OpenExport
  <2>1. PICK facts \in Targets : Open("export", facts)
    BY <1>1 DEF OpenExport
  <2>. QED BY <2>1, OpenGives DEF GivenInputs, IsOpen, Decided
<1>2. CASE OpenImport
  <2>1. PICK facts \in Imports : Open("import", facts)
    BY <1>2 DEF OpenImport
  <2>2. Imports' = Imports
    BY DEF Imports, Exports
  <2>. QED BY <2>1, <2>2, OpenGives DEF GivenInputs, IsOpen, Decided
<1>3. CASE OpenMerge
  <2>1. PICK facts \in Targets : Open("merge", facts)
    BY <1>3 DEF OpenMerge
  <2>. QED BY <2>1, OpenGives DEF GivenInputs, IsOpen, Decided
<1>4. CASE OpenAcceptance
  <2>1. PICK old \in States : Open("accept", old)
    BY <1>4 DEF OpenAcceptance
  <2>. QED BY <2>1, OpenGives DEF GivenInputs, IsOpen, Decided
<1>5. CASE OpenMarker
  <2>1. PICK head \in Headers : Open("marker", head)
    BY <1>5 DEF OpenMarker
  <2>. QED BY <2>1, OpenGives DEF GivenInputs, IsOpen, Decided
<1>6. CASE DecideExport
  <2>1. PICK mode \in Modes, content \in UserContents :
          Decide("export", [mode |-> mode, content |-> content])
    BY <1>6 DEF DecideExport
  <2>2. IsOpen("export")
    BY <1>6 DEF DecideExport
  <2>. QED BY <2>1, <2>2, DecideGives DEF GivenInputs, IsOpen, Decided
<1>7. CASE DecideMerge
  <2>1. PICK imported \in Imports : Decide("merge", imported)
    BY <1>7 DEF DecideMerge
  <2>2. IsOpen("merge")
    BY <1>7 DEF DecideMerge
  <2>3. Imports' = Imports
    BY DEF Imports, Exports
  <2>. QED BY <2>1, <2>2, <2>3, DecideGives DEF GivenInputs, IsOpen, Decided
<1>8. CASE DecideAcceptance
  <2>1. PICK new \in States, invocation \in Invocations, answers \in Answers, renamed \in BOOLEAN :
          Decide("accept", [new |-> new, invocation |-> invocation, answers |-> answers,
                            renamed |-> renamed])
    BY <1>8 DEF DecideAcceptance
  <2>2. IsOpen("accept")
    BY <1>8 DEF DecideAcceptance
  <2>. QED BY <2>1, <2>2, DecideGives DEF GivenInputs, IsOpen, Decided
<1>9. CASE DecideMarker
  <2>1. PICK managed \in ManagedTablesRead, detached \in DetachedTablesRead :
          Decide("marker", [managed |-> managed, detached |-> detached])
    BY <1>9 DEF DecideMarker
  <2>2. IsOpen("marker")
    BY <1>9 DEF DecideMarker
  <2>. QED BY <2>1, <2>2, DecideGives DEF GivenInputs, IsOpen, Decided
<1>10. CASE OpenResolution
  <2>1. PICK world \in Worlds : Open("resolve", world)
    BY <1>10 DEF OpenResolution
  <2>. QED BY <2>1, OpenGives DEF GivenInputs, IsOpen, Decided
<1>11. CASE OpenFetch
  <2>1. PICK world \in FetchWorlds : Open("fetch", world)
    BY <1>11 DEF OpenFetch
  <2>. QED BY <2>1, OpenGives DEF GivenInputs, IsOpen, Decided
<1>12. CASE OpenMatch
  <2>1. PICK text \in Texts : Open("match", text)
    BY <1>12 DEF OpenMatch
  <2>. QED BY <2>1, OpenGives DEF GivenInputs, IsOpen, Decided
<1>13. CASE DecideResolution
  <2>1. PICK reqs \in Requests :
          AcquireOk(reqs, decision.of.refs, Repository) /\ Decide("resolve", reqs)
    BY <1>13 DEF DecideResolution
  <2>2. IsOpen("resolve")
    BY <1>13 DEF DecideResolution
  <2>. QED BY <2>1, <2>2, DecideGives DEF GivenInputs, IsOpen, Decided
<1>14. CASE DecideFetch
  <2>1. PICK reqs \in FetchRequests, reachable \in SUBSET Repository :
          Decide("fetch", [reqs |-> reqs, reachable |-> reachable])
    BY <1>14 DEF DecideFetch
  <2>2. IsOpen("fetch")
    BY <1>14 DEF DecideFetch
  <2>. QED BY <2>1, <2>2, DecideGives DEF GivenInputs, IsOpen, Decided
<1>15. CASE DecideMatch
  <2>1. PICK v \in Versions : Decide("match", v)
    BY <1>15 DEF DecideMatch
  <2>2. IsOpen("match")
    BY <1>15 DEF DecideMatch
  <2>. QED BY <2>1, <2>2, DecideGives DEF GivenInputs, IsOpen, Decided
<1>16. CASE UNCHANGED decision
  BY <1>16 DEF GivenInputs, IsOpen, Decided, Imports, Exports
<1>. QED BY <1>1, <1>2, <1>3, <1>4, <1>5, <1>6, <1>7, <1>8, <1>9, <1>10, <1>11, <1>12, <1>13,
            <1>14, <1>15, <1>16 DEF Next

LEMMA AlwaysGiven == Spec => []GivenInputs
BY GivenFromTheStart, GivenKept, PTL DEF Spec

(* What is imported is whole.                                              *)
LEMMA ImportsAreWhole ==
  ASSUME NEW facts \in Imports
  PROVE  WholeFacts(facts)
<1>1. PICK m \in Exports : facts = ImportedFacts(m)
  BY DEF Imports
<1>2. PICK x \in Modes \X Targets \X UserContents :
        (x[1] = "full" => FullExportOk(x[2], x[3])) /\ m = Export(x[1], x[2], x[3])
  BY DEF Exports
<1>3. PICK mode, target, content :
        mode = x[1] /\ target = x[2] /\ content = x[3] /\ target \in Targets
  OBVIOUS
<1>4. RoundTrip(mode, target, content)
  BY <1>3, TargetsAssumption, ImportUndoesExport
<1>. QED BY <1>1, <1>2, <1>3, <1>4 DEF RoundTrip

(* Exporting and importing give the same target again, and merging an      *)
(* import takes nothing away.                                              *)
THEOREM TransfersAlwaysKeepFacts == Spec => []TransfersKeepFacts
<1>1. GivenInputs => TransfersKeepFacts
  <2>. SUFFICES ASSUME GivenInputs PROVE TransfersKeepFacts
    OBVIOUS
  <2>1. Decided("export") =>
          RoundTrip(decision.input.mode, decision.of, decision.input.content)
    BY TargetsAssumption, ImportUndoesExport DEF GivenInputs
  <2>2. Decided("merge") => MergeOnlyAdds(decision.of, decision.input)
    BY TargetsAssumption, ImportsAreWhole, MergeAddsOnly DEF GivenInputs
  <2>. QED BY <2>1, <2>2 DEF TransfersKeepFacts
<1>. QED BY <1>1, AlwaysGiven, PTL

(* The marker of every target, also of one an import or a merge made, can  *)
(* be read, keeps the state, and stays the same when it is written again.  *)
THEOREM MarkersAlwaysKeepState == Spec => []MarkersKeepState
<1>1. GivenInputs => MarkersKeepState
  <2>. SUFFICES ASSUME GivenInputs PROVE MarkersKeepState
    OBVIOUS
  <2>1. MaxSafeInteger \in 0..MaxSafeInteger
    BY MarkerAssumption
  <2>2. (IsOpen("export") \/ IsOpen("import")) =>
          \A id \in MarkerId : MarkerKeepsState(id, MaxSafeInteger, decision.of)
    <3>1. (IsOpen("export") \/ IsOpen("import")) => WholeFacts(decision.of)
      BY TargetsAssumption, ImportsAreWhole DEF GivenInputs
    <3>. QED BY <2>1, <3>1, MarkerKeepsWholeState
  <2>3. (Decided("merge") /\ MergeOk(decision.of, decision.input)) =>
          \A id \in MarkerId :
            MarkerKeepsState(id, MaxSafeInteger, MergedFacts(decision.of, decision.input))
    <3>. SUFFICES ASSUME Decided("merge"), MergeOk(decision.of, decision.input)
                  PROVE  WholeFacts(MergedFacts(decision.of, decision.input))
      BY <2>1, MarkerKeepsWholeState
    <3>1. WholeFacts(decision.of) /\ WholeFacts(decision.input)
      BY TargetsAssumption, ImportsAreWhole DEF GivenInputs
    <3>. QED BY <3>1, MergeAddsOnly DEF MergeOnlyAdds
  <2>4. Decided("marker") =>
          RewritingKeepsMarker(Document(decision.of, decision.input.managed,
                                        decision.input.detached))
    <3>. SUFFICES ASSUME Decided("marker")
                  PROVE  RewritingKeepsMarker(Document(decision.of, decision.input.managed,
                                                       decision.input.detached))
      OBVIOUS
    <3>1. PICK doc : doc = Document(decision.of, decision.input.managed, decision.input.detached)
      OBVIOUS
    <3>2. /\ doc.requirements = decision.of.requirements /\ doc.overrides = decision.of.overrides
          /\ doc.managed = decision.input.managed /\ doc.detached = decision.input.detached
      BY <3>1 DEF Document
    <3>3. /\ IsTableSeq(doc.requirements) /\ IsTableSeq(doc.overrides)
          /\ IsTableSeq(doc.managed) /\ IsTableSeq(doc.detached)
      BY <3>2, TablesAssumption DEF GivenInputs
    <3>. QED BY <3>1, <3>3, RewritingKeepsWhatWasRead
  <2>. QED BY <2>2, <2>3, <2>4 DEF MarkersKeepState
<1>. QED BY <1>1, AlwaysGiven, PTL

(* Nothing is applied that was not accepted, whichever packages are        *)
(* detached.                                                               *)
THEOREM AcceptanceIsAlwaysAsked == Spec => []AcceptanceIsAsked
<1>1. GivenInputs => AcceptanceIsAsked
  <2>. SUFFICES ASSUME GivenInputs, Decided("accept") PROVE AcceptanceIsAsked
    BY DEF AcceptanceIsAsked
  <2>1. WholeState(decision.of) /\ WholeState(decision.input.new)
    BY StatesAssumption DEF GivenInputs
  <2>. QED BY <2>1, NothingUnasked DEF AcceptanceIsAsked
<1>. QED BY <1>1, AlwaysGiven, PTL

(* Whatever is resolved is right: what is found solves the requirements, a *)
(* solution is found when there is one, the newest first, no source that   *)
(* is needed is left unfetched, and requirements admit what they say.      *)
THEOREM ResolutionIsAlwaysRight == Spec => []ResolutionIsRight
<1>1. GivenInputs => ResolutionIsRight
  <2>. SUFFICES ASSUME GivenInputs PROVE ResolutionIsRight
    OBVIOUS
  <2>1. ASSUME Decided("resolve")
        PROVE  /\ FindsASolution(decision.input, decision.of.releases,
                                 GitOf(decision.input, decision.of.refs))
               /\ FindsTheNewest(decision.input, decision.of.releases,
                                 GitOf(decision.input, decision.of.refs))
    <3>1. PICK reqs, releases, refs :
            reqs = decision.input /\ releases = decision.of.releases /\ refs = decision.of.refs
      OBVIOUS
    <3>2. WholeRequest(reqs) /\ WholeWorld(releases, refs) /\ AcquireOk(reqs, refs, Repository)
      BY <2>1, <3>1, WorldsAssumption, RequestsAssumption DEF GivenInputs
    <3>3. SearchInput(reqs, releases, GitOf(reqs, refs))
      BY <3>2, WorldAsInput
    <3>4. FindsASolution(reqs, releases, GitOf(reqs, refs))
          /\ FindsTheNewest(reqs, releases, GitOf(reqs, refs))
      BY <3>3, FoundIsASolution, NewestIsFound
    <3>. QED BY <3>1, <3>4
  <2>2. ASSUME Decided("fetch")
        PROVE  PrefetchLosesNothing(decision.input.reqs, decision.of.releases, decision.of.refs,
                                    decision.input.reachable)
    <3>1. PICK reqs, releases, refs, reachable :
            /\ reqs = decision.input.reqs /\ releases = decision.of.releases
            /\ refs = decision.of.refs /\ reachable = decision.input.reachable
      OBVIOUS
    <3>2. WholeRequest(reqs) /\ WholeWorld(releases, refs) /\ reachable \in SUBSET Repository
      BY <2>2, <3>1, WorldsAssumption, RequestsAssumption DEF GivenInputs
    <3>3. PrefetchLosesNothing(reqs, releases, refs, reachable)
      BY <3>2, PrefetchIsEnough
    <3>. QED BY <3>1, <3>3
  <2>3. ASSUME Decided("match")
        PROVE  AdmitsTheInterval({decision.of}, decision.input)
    <3>1. \A text \in {decision.of} : IsText(text)
      BY <2>3, ScannedAssumption DEF GivenInputs
    <3>2. IsVersion(decision.input)
      BY <2>3, ScannedAssumption DEF GivenInputs
    <3>. QED BY <3>1, <3>2, RequirementsAdmitWhatTheySay
  <2>. QED BY <2>1, <2>2, <2>3 DEF ResolutionIsRight
<1>. QED BY <1>1, AlwaysGiven, PTL
=============================================================================
