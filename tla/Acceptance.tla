----------------------------- MODULE Acceptance -----------------------------
(***************************************************************************)
(* How a candidate differs from the accepted state of a target, and who    *)
(* has to agree before it is applied                                       *)
(* (src/src/domain/resolver/comparison.ts, domain/lifecycle/acceptance.ts, *)
(* runtime/orchestration/lifecycle/, cli/candidate-acceptance.ts).         *)
(*                                                                         *)
(* Both are [reqs, sources, packages, edges], as the registry holds them   *)
(* of a target (ExactTransfer).                                            *)
(***************************************************************************)
EXTENDS ExactTransfer

----------------------------------------------------------------------------
(* compareCandidateGraphs; a delta is [kind, at].                          *)

Delta(kind, at) == [kind |-> kind, at |-> at]

When(condition, kind, at) == IF condition THEN {Delta(kind, at)} ELSE {}

(* Two releases of one repository.                                         *)
ReleaseDeltas(r, s, t) ==
  When(s.version # t.version, "release-version-changed", r)
    \cup When(s.tag # t.tag, "release-tag-changed", r)
    \cup When(s.commit # t.commit /\ s.tag = t.tag, "release-retarget", r)
    \cup When(s.commit # t.commit /\ s.tag # t.tag, "release-commit-changed", r)
    \cup When(s.immutable # t.immutable, "immutable-signal-changed", r)

ChangedSource(r, s, t) ==
  CASE s.source # t.source -> {Delta("source-kind-changed", r)}
    [] s.source = "git" /\ t.source = "git" ->
         IF s.commit = t.commit THEN {} ELSE {Delta("git-commit-changed", r)}
    [] OTHER -> ReleaseDeltas(r, s, t)

(* Added, removed and, by changed, what is on both sides.                  *)
Compare(f, g, added, removed, changed(_)) ==
  {Delta(added, x) : x \in DOMAIN g \ DOMAIN f} \cup {Delta(removed, x) : x \in DOMAIN f \ DOMAIN g}
    \cup UNION {changed(x) : x \in DOMAIN f \cap DOMAIN g}

SourceDeltas(old, new) ==
  LET changed(r) == ChangedSource(r, old.sources[r], new.sources[r])
  IN Compare(old.sources, new.sources, "repository-added", "repository-removed", changed)

PackageDeltas(old, new) ==
  LET changed(p) == IF old.packages[p] = new.packages[p] THEN {}
                    ELSE {Delta("package-content-changed", p)}
  IN Compare(old.packages, new.packages, "package-added", "package-removed", changed)

EdgeDeltas(old, new) ==
  {Delta("dependency-edge-added", e) : e \in new.edges \ old.edges}
    \cup {Delta("dependency-edge-removed", e) : e \in old.edges \ new.edges}

(* buildRepositoryOrigins: why a repository is there.                      *)
Origin(new, r) ==
  LET reached == Reachable(new.edges, Roots(new.reqs, DOMAIN new.packages))
  IN IF \E q \in new.reqs : RepositoryAt(q) = r THEN "direct"
     ELSE IF \E p \in reached : RepositoryOf[p] = r THEN "transitive"
     ELSE "none"

(* comparisonHasNoDeltas, sameDirectRequirementSet,                        *)
(* applyRequestedRenameChange.                                             *)
NoChange(old, new, renamed) ==
  /\ SourceDeltas(old, new) = {} /\ PackageDeltas(old, new) = {} /\ EdgeDeltas(old, new) = {}
  /\ old.reqs = new.reqs
  /\ ~renamed

(* Mutant: a tag that moved counts as any other change.                    *)
NoRetargets(old, new) == {}

Retargets(old, new) == {d.at : d \in {d \in SourceDeltas(old, new) : d.kind = "release-retarget"}}

SameSource(s, t) ==
  s.source = t.source /\ s.version = t.version /\ s.commit = t.commit
    /\ (s.source = "release" => s.tag = t.tag)

(* detachedContentChangeRisks.                                             *)
DetachedRisks(old, new, detached) ==
  {p \in detached \cap DOMAIN old.packages \cap DOMAIN new.packages :
     \/ old.packages[p] # new.packages[p]
     \/ ~SameSource(old.sources[RepositoryOf[p]], new.sources[RepositoryOf[p]])}

----------------------------------------------------------------------------
(* An invocation is [command, plan, yes, allowRetarget, terminal], and     *)
(* answers [retarget, apply] what the user says when asked.                *)

(* decideNonInteractiveLifecycleAcceptance.                                *)
NonInteractive(invocation, old, new, noChange) ==
  CASE noChange -> "no-op"
    [] ~noChange /\ invocation.plan -> "planned"
    [] ~noChange /\ ~invocation.plan ->
         IF invocation.yes /\ (Retargets(old, new) = {} \/ invocation.allowRetarget)
           THEN "applied" ELSE "rejected"

(* createCliCandidateAcceptance and acceptCandidateWithRetarget; update    *)
(* asks the same questions through authorizeReleaseRetarget.               *)
Interactive(answers, old, new) ==
  IF Retargets(old, new) # {} /\ ~answers.retarget THEN "rejected"
  ELSE IF answers.apply THEN "applied" ELSE "declined"

AsksTheUser(invocation) == invocation.terminal /\ ~invocation.plan /\ ~invocation.yes

(* applyAcceptedRequirementChange up to the decision: nothing is asked     *)
(* when nothing changes.                                                   *)
Outcome(invocation, answers, old, new, renamed) ==
  LET noChange == NoChange(old, new, renamed) IN
  IF noChange THEN "no-op"
  ELSE IF AsksTheUser(invocation) THEN Interactive(answers, old, new)
  ELSE NonInteractive(invocation, old, new, noChange)

(* freshInstallNeedsRegistry: otherwise a first install is given a         *)
(* registry that only answers reads.                                       *)
NeedsRegistry(invocation) ==
  ~invocation.plan /\ (invocation.terminal \/ invocation.yes)

----------------------------------------------------------------------------
(* What a resolution gives.                                                *)
WholeState(s) ==
  /\ s = [reqs |-> s.reqs, sources |-> s.sources, packages |-> s.packages, edges |-> s.edges]
  /\ GraphFits(s) /\ IsFunction(s.sources) /\ IsFunction(s.packages)

(* What is not asked about is the same: no change means the same state,    *)
(* nothing is applied that a flag or an answer did not allow, a moved tag  *)
(* needs its own approval, every new repository has a reason, and a        *)
(* detached package whose content would change is a risk that was shown.   *)
AppliesWhatWasAccepted(invocation, answers, old, new, renamed, detached) ==
  LET outcome == Outcome(invocation, answers, old, new, renamed)
      asked == AsksTheUser(invocation)
      moved == {r \in DOMAIN old.sources \cap DOMAIN new.sources :
                  /\ old.sources[r].source = "release" /\ new.sources[r].source = "release"
                  /\ old.sources[r].tag = new.sources[r].tag
                  /\ old.sources[r].commit # new.sources[r].commit}
  IN /\ outcome = "no-op" => old = new
     /\ outcome = "applied" =>
          /\ ~invocation.plan /\ (invocation.yes \/ (asked /\ answers.apply))
          /\ moved # {} => IF asked THEN answers.retarget ELSE invocation.allowRetarget
          /\ NeedsRegistry(invocation)
     /\ \A r \in DOMAIN new.sources \ DOMAIN old.sources : Origin(new, r) # "none"
     /\ \A p \in detached \cap DOMAIN old.packages \cap DOMAIN new.packages :
          old.packages[p] # new.packages[p] => p \in DetachedRisks(old, new, detached)
=============================================================================
