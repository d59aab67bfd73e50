----------------------------- MODULE StateMarker -----------------------------
(***************************************************************************)
(* The marker of a target, .skiloom-state: what is written into it and     *)
(* what can be read back (src/src/domain/target/state-marker.ts,           *)
(* state-marker/managed.ts, domain/public-format/common.ts,                *)
(* runtime/target-state-recovery.ts, orchestration/lifecycle/apply.ts).    *)
(*                                                                         *)
(* A document is a format, a target id, a generation and sequences of      *)
(* tables; the characters of the TOML text are left out.  A file that has  *)
(* an unknown field or a field of another type is no document and is       *)
(* refused before anything here.  The facts of a target are ExactTransfer's. *)
(***************************************************************************)
EXTENDS ExactTransfer, SequencesExt

CONSTANTS MarkerId,         \* canonical target ids
          MaxSafeInteger

(* The tables of a document.                                               *)
OverrideTable(p, n) == [package |-> p, name |-> n]
ManagedTable(p, n, mat, digest, view) ==
  [package |-> p, name |-> n, mat |-> mat, digest |-> digest, view |-> view]
DetachedTable(p, digest) == [package |-> p, digest |-> digest]

Distinct(tables, Key(_)) ==
  \A i, j \in DOMAIN tables : Key(tables[i]) = Key(tables[j]) => i = j
PackageOf(table) == table.package
NameOf(table) == table.name
Requirer(req) == <<req.kind, req.at>>

(* parsePublicRequirementTable.                                            *)
RequirementTableOk(req) ==
  /\ \/ req.kind = "package" /\ req.at \in Package
     \/ req.kind = "repository" /\ req.at \in {RepositoryOf[p] : p \in Package}
  /\ req.source \in {"release", "git"}
  /\ req.source = "git" => req.want \in Ref
  /\ req.source = "release" => req.want \notin Ref

(* parseRequirements.                                                      *)
RequirementsOk(tables) ==
  (\A i \in DOMAIN tables : RequirementTableOk(tables[i])) /\ Distinct(tables, Requirer)

(* parseProjectionOverrides.                                               *)
OverridesOk(tables) ==
  /\ \A i \in DOMAIN tables :
       /\ tables[i].package \in Package /\ tables[i].name \in Name
       /\ tables[i].name # Default[tables[i].package]
  /\ Distinct(tables, PackageOf) /\ Distinct(tables, NameOf)

(* isCanonicalManagedTransformJson, canonicalRouteValues.                  *)
CanonicalView(view) ==
  /\ \A r \in view.routes : r[1] \in Package /\ r[2] # Default[r[1]]
  /\ \A r, s \in view.routes : r[1] = s[1] => r = s

(* A table of managed: only what is shown by a copy is transformed.        *)
ManagedTableOk(table) ==
  /\ table.package \in Package /\ table.name \in Name
  /\ table.mat \in {"link", "copy"}
  /\ ~Direct(table.package, table.view) => table.mat = "copy" /\ CanonicalView(table.view)

(* parseManagedMarker.                                                     *)
ManagedOk(tables) ==
  /\ \A i \in DOMAIN tables : ManagedTableOk(tables[i])
  /\ Distinct(tables, PackageOf) /\ Distinct(tables, NameOf)

(* parseDetached.                                                          *)
DetachedOk(tables) ==
  (\A i \in DOMAIN tables : tables[i].package \in Package) /\ Distinct(tables, PackageOf)

(* parseTargetStateMarkerDocument.                                         *)
ParseOk(doc) ==
  /\ doc.format \in {"V1", "V2"}
  /\ doc.format = "V1" => doc.managed = <<>>
  /\ doc.id \in MarkerId
  /\ doc.generation \in 0..MaxSafeInteger
  /\ RequirementsOk(doc.requirements)
  /\ OverridesOk(doc.overrides)
  /\ ManagedOk(doc.managed)
  /\ DetachedOk(doc.detached)
  /\ \A i \in DOMAIN doc.managed, j \in DOMAIN doc.detached :
       doc.managed[i].package # doc.detached[j].package

Parsed(doc) ==
  [id |-> doc.id, generation |-> doc.generation,
   requirements |-> ToSet(doc.requirements), overrides |-> ToSet(doc.overrides),
   managed |-> ToSet(doc.managed), detached |-> ToSet(doc.detached)]

(* Mutant: what is detached now is left out of the marker.                 *)
WrittenManaged(marker) ==
  [format |-> "V2", id |-> marker.id, generation |-> marker.generation,
   requirements |-> SetToSeq(marker.requirements),
   overrides |-> SetToSeq(marker.overrides),
   managed |-> SetToSeq(marker.managed),
   detached |-> <<>>]

(* writeTargetStateMarker: sorted, without the overrides that are none.    *)
Written(marker) ==
  [format |-> "V2", id |-> marker.id, generation |-> marker.generation,
   requirements |-> SetToSeq(marker.requirements),
   overrides |-> SetToSeq({o \in marker.overrides : o.name # Default[o.package]}),
   managed |-> SetToSeq(marker.managed),
   detached |-> SetToSeq(marker.detached)]

----------------------------------------------------------------------------
ManagedTables(facts) ==
  {ManagedTable(p, facts.projections[p].name, facts.projections[p].mat,
                facts.packages[p], facts.projections[p].view)
     : p \in ManagedIn(facts.projections)}

DetachedTables(facts) ==
  {DetachedTable(p, facts.baselines[p]) : p \in DOMAIN facts.baselines}

(* buildMarkerFacts, with the plan of the names.                           *)
MarkerFacts(id, generation, facts) ==
  LET plan == FactsPlan(facts, NamesIn(facts.projections)) IN
  [id |-> id, generation |-> generation, requirements |-> facts.reqs,
   overrides |-> {OverrideTable(p, plan[p].name) :
                    p \in {p \in DOMAIN plan : plan[p].name # Default[p]}},
   managed |-> ManagedTables(facts), detached |-> DetachedTables(facts)]

(* targetStateMarkerFactsFromRegistryState, which has no plan.             *)
RegistryMarkerFacts(id, generation, facts) ==
  Parsed(Written(
    [id |-> id, generation |-> generation, requirements |-> facts.reqs,
     overrides |-> {OverrideTable(p, facts.projections[p].name) :
                      p \in DOMAIN facts.projections},
     managed |-> ManagedTables(facts), detached |-> DetachedTables(facts)]))

(* recoveryIntent, and the plan of a candidate that resolves to the same   *)
(* packages and edges.                                                     *)
RecoveredPlan(marker, facts) ==
  PlanProjections(DOMAIN facts.packages, facts.edges,
                  Roots(marker.requirements, DOMAIN facts.packages),
                  {<<o.package, o.name>> : o \in marker.overrides})

(* syncLifecycleMarker writes only what can be read back; it is called     *)
(* after the commit, so a state whose marker cannot be read would make     *)
(* every command on the target fail.  The marker gives back everything it  *)
(* was given, whoever writes it writes the same, and what it says is       *)
(* enough to plan the same projections when the registry is lost.          *)
MarkerKeepsState(id, generation, facts) ==
  LET marker == MarkerFacts(id, generation, facts) IN
  /\ ParseOk(Written(marker)) /\ Parsed(Written(marker)) = marker
  /\ RegistryMarkerFacts(id, generation, facts) = marker
  /\ RecoveredPlan(Parsed(Written(marker)), facts) = FactsPlan(facts, NamesIn(facts.projections))

(* Whatever is read, however the file was edited and whichever format it   *)
(* has, is written again so that it reads the same.                        *)
RewritingKeepsMarker(doc) ==
  ParseOk(doc) => ParseOk(Written(Parsed(doc))) /\ Parsed(Written(Parsed(doc))) = Parsed(doc)
=============================================================================
