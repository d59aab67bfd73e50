------------------------------ MODULE Decisions ------------------------------
(***************************************************************************)
(* What the pure algorithms decide: a behaviour takes one input, what is   *)
(* there and what is to be done about it, and the invariants say what      *)
(* comes out (ExactTransfer, StateMarker, Acceptance, Candidate,           *)
(* ReleaseRequirements).  The inputs are any whole targets, any states     *)
(* that were resolved, any worlds of sources, any text that was scanned.   *)
(***************************************************************************)
EXTENDS StateMarker, Acceptance, Candidate, ReleaseRequirements

CONSTANTS Targets,           \* whole targets
          UserContents,      \* functions from directories of the user to digests
          States,            \* resolved states
          Invocations, Answers,
          Headers,           \* documents without managed and detached tables
          ManagedTablesRead, DetachedTablesRead,
          Worlds, Requests,            \* sources, and what is required of them
          FetchWorlds, FetchRequests,  \* the same, where some do not answer
          Texts, Versions              \* of requirements, and what they are matched with

IsTableSeq(tables) == tables \in Seq(ToSet(tables))

ASSUME TargetsAssumption == \A t \in Targets : WholeFacts(t)
ASSUME StatesAssumption == \A s \in States : WholeState(s)
ASSUME MarkerAssumption == MarkerId # {} /\ MaxSafeInteger \in Nat
ASSUME TablesAssumption ==
  /\ \A head \in Headers : IsTableSeq(head.requirements) /\ IsTableSeq(head.overrides)
  /\ \A tables \in ManagedTablesRead \cup DetachedTablesRead : IsTableSeq(tables)
ASSUME WorldsAssumption == \A w \in Worlds \cup FetchWorlds : WholeWorld(w.releases, w.refs)
ASSUME RequestsAssumption == \A reqs \in Requests \cup FetchRequests : WholeRequest(reqs)
ASSUME ScannedAssumption ==
  (\A text \in Texts : IsText(text)) /\ (\A v \in Versions : IsVersion(v))

VARIABLE decision

Modes == {"managed", "full"}

(* What imports of these targets give.                                     *)
Exports ==
  {Export(x[1], x[2], x[3]) :
     x \in {x \in Modes \X Targets \X UserContents : x[1] = "full" => FullExportOk(x[2], x[3])}}
Imports == {ImportedFacts(m) : m \in Exports}

Document(head, managed, detached) ==
  [format |-> head.format, id |-> head.id, generation |-> head.generation,
   requirements |-> head.requirements, overrides |-> head.overrides,
   managed |-> managed, detached |-> detached]

----------------------------------------------------------------------------
Init == decision = [topic |-> "none", phase |-> "start"]

Starts == decision.phase = "start"
IsOpen(topic) == decision.topic = topic /\ decision.phase = "open"
Decided(topic) == decision.topic = topic /\ decision.phase = "decided"

(* What is decided about, then the rest of the input.                      *)
Open(topic, of) == decision' = [topic |-> topic, phase |-> "open", of |-> of]
Decide(topic, input) ==
  decision' = [topic |-> topic, phase |-> "decided", of |-> decision.of, input |-> input]

OpenExport == Starts /\ \E facts \in Targets : Open("export", facts)
OpenImport == Starts /\ \E facts \in Imports : Open("import", facts)
OpenMerge == Starts /\ \E facts \in Targets : Open("merge", facts)
OpenAcceptance == Starts /\ \E old \in States : Open("accept", old)
OpenMarker == Starts /\ \E head \in Headers : Open("marker", head)
OpenResolution == Starts /\ \E world \in Worlds : Open("resolve", world)
OpenFetch == Starts /\ \E world \in FetchWorlds : Open("fetch", world)
OpenMatch == Starts /\ \E text \in Texts : Open("match", text)

DecideExport == IsOpen("export") /\
  \E mode \in Modes, content \in UserContents :
    Decide("export", [mode |-> mode, content |-> content])
DecideMerge == IsOpen("merge") /\ \E imported \in Imports : Decide("merge", imported)
DecideAcceptance == IsOpen("accept") /\
  \E new \in States, invocation \in Invocations, answers \in Answers, renamed \in BOOLEAN :
    Decide("accept", [new |-> new, invocation |-> invocation, answers |-> answers,
                      renamed |-> renamed])
DecideMarker == IsOpen("marker") /\
  \E managed \in ManagedTablesRead, detached \in DetachedTablesRead :
    Decide("marker", [managed |-> managed, detached |-> detached])
DecideResolution == IsOpen("resolve") /\
  \E reqs \in Requests :
    AcquireOk(reqs, decision.of.refs, Repository) /\ Decide("resolve", reqs)
DecideFetch == IsOpen("fetch") /\
  \E reqs \in FetchRequests, reachable \in SUBSET Repository :
    Decide("fetch", [reqs |-> reqs, reachable |-> reachable])
DecideMatch == IsOpen("match") /\ \E v \in Versions : Decide("match", v)

Next == \/ OpenExport \/ OpenImport \/ OpenMerge \/ OpenAcceptance \/ OpenMarker
        \/ OpenResolution \/ OpenFetch \/ OpenMatch
        \/ DecideExport \/ DecideMerge \/ DecideAcceptance \/ DecideMarker
        \/ DecideResolution \/ DecideFetch \/ DecideMatch
Spec == Init /\ [][Next]_decision

----------------------------------------------------------------------------
(* Exporting and importing give the same target again, and merging an      *)
(* import takes nothing away (ExactTransfer).                              *)
TransfersKeepFacts ==
  /\ Decided("export") =>
       RoundTrip(decision.input.mode, decision.of, decision.input.content)
  /\ Decided("merge") => MergeOnlyAdds(decision.of, decision.input)

(* The marker of every target, also of one an import or a merge made, can  *)
(* be read, keeps the state, and stays the same when it is written again   *)
(* (StateMarker).                                                          *)
MarkersKeepState ==
  /\ (IsOpen("export") \/ IsOpen("import")) =>
       \A id \in MarkerId : MarkerKeepsState(id, MaxSafeInteger, decision.of)
  /\ (Decided("merge") /\ MergeOk(decision.of, decision.input)) =>
       \A id \in MarkerId :
         MarkerKeepsState(id, MaxSafeInteger, MergedFacts(decision.of, decision.input))
  /\ Decided("marker") =>
       RewritingKeepsMarker(Document(decision.of, decision.input.managed, decision.input.detached))

(* Nothing is applied that was not accepted (Acceptance), whichever        *)
(* packages are detached.                                                  *)
AcceptanceIsAsked ==
  Decided("accept") =>
    AppliesWhatWasAccepted(decision.input.invocation, decision.input.answers, decision.of,
                           decision.input.new, decision.input.renamed,
                           DOMAIN decision.of.packages)

(* What the resolver finds solves the requirements, it finds a solution    *)
(* when there is one, the newest first (Resolver), no source it needs is   *)
(* left unfetched (Candidate), and requirements admit what they say        *)
(* (ReleaseRequirements).                                                  *)
ResolutionIsRight ==
  /\ Decided("resolve") =>
       LET git == GitOf(decision.input, decision.of.refs) IN
       /\ FindsASolution(decision.input, decision.of.releases, git)
       /\ FindsTheNewest(decision.input, decision.of.releases, git)
  /\ Decided("fetch") =>
       PrefetchLosesNothing(decision.input.reqs, decision.of.releases, decision.of.refs,
                            decision.input.reachable)
  /\ Decided("match") => AdmitsTheInterval({decision.of}, decision.input)
=============================================================================
