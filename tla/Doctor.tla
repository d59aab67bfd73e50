------------------------------- MODULE Doctor -------------------------------
(***************************************************************************)
(* What `skiloom doctor` says of a directory (src/src/runtime/doctor/,     *)
(* src/src/domain/target/recovery.ts, runtime/target-state-recovery.ts).   *)
(* It takes no lock and changes nothing, and awaits between its reads: the *)
(* marker, the registry, the store, one projection after another, the      *)
(* foreign entries, and the marker again.  The commands of TargetCopies    *)
(* take their steps in between.                                            *)
(*                                                                         *)
(* Warnings and errors decide the verdict; once there is one, doctor goes  *)
(* on reading only to list others, which the model leaves out, with their  *)
(* wording and the commands they recommend.  What a read asks of the state *)
(* is that of its moment, what it asks of the accepted state is the        *)
(* registry's snapshot.  Directories exist and markers parse (StateMarker);*)
(* probes of host software are left out.                                   *)
(***************************************************************************)
EXTENDS TargetCopies

VARIABLE look   \* the doctor that reads, if one does

doctorVars == <<vars, look>>

NoLook ==
  [step |-> "none",
   path |-> Nothing,
   id |-> Nothing,          \* the target the marker named
   target |-> Nothing,      \* the target of the registry's snapshot
   gen |-> 0,               \* its accepted generation
   state |-> NoState,       \* and state
   todo |-> {},             \* projections not yet verified
   clear |-> FALSE,         \* no foreign entries were found
   since |-> "nothing"]     \* who has written since doctor began

DoctorInit == Init /\ look = NoLook

Reading == look # NoLook
Reads(step) == look.step = step

(* Something is wrong: whatever else doctor reads, it will not say healthy.*)
Unwell == look' = NoLook

(* What doctor makes of a read leaves the system alone.                    *)
Looks == UNCHANGED vars

(* readTargetStateMarkerFile, for the target it names.                     *)
ReadMarker(p) ==
  /\ ~Reading /\ mishaps < MaxMishaps
  /\ look' = [NoLook EXCEPT !.step = "registry", !.path = p, !.id = Marker(p).id]
  /\ Looks

LocationMatches(p, t) == p \in DOMAIN db.location /\ db.location[p] = t

(* readDoctorRegistrySnapshot: the owner of the path, else the target the  *)
(* marker named.                                                           *)
DoctorTarget(p, id) == IF p \in DOMAIN db.location THEN db.location[p] ELSE id

(* A registry of this schema that knows the target, at this path, with no  *)
(* operation pending.                                                      *)
RegistrySound(p, t) ==
  /\ Readable /\ db.schema = 1
  /\ Known(t) /\ t \notin DOMAIN db.pending
  /\ LocationMatches(p, t)

ReadRegistry ==
  LET t == IF Readable THEN DoctorTarget(look.path, look.id) ELSE Nothing IN
  /\ Reads("registry")
  /\ IF RegistrySound(look.path, t)
       THEN look' = [look EXCEPT !.step = "store", !.target = t,
                                 !.gen = db.target[t].gen, !.state = db.target[t].state]
       ELSE Unwell
  /\ Looks

AcceptedPackages(s) == {k \in Package : s[k] # Nothing}

(* inspectDoctorPackages: these entries of the store are missing or broken.*)
ReadStore(broken) ==
  /\ Reads("store")
  /\ IF broken \cap AcceptedPackages(look.state) = {}
       THEN look' = [look EXCEPT !.step = "projections", !.todo = AcceptedPackages(look.state)]
       ELSE Unwell
  /\ Looks

(* verifyManagedProjection.                                                *)
VerifyProjection(k) ==
  /\ Reads("projections") /\ k \in look.todo
  /\ IF dirs[look.path].shown[k] = look.state[k]
       THEN look' = [look EXCEPT !.todo = @ \ {k}]
       ELSE Unwell
  /\ Looks

(* What lies in the directory beside the projections of state s.           *)
ForeignEntries(p, s) == {k \in Package \ AcceptedPackages(s) : dirs[p].shown[k] # Nothing}

(* inspectForeignEntries: these are only listed.                           *)
ReadForeign ==
  /\ Reads("projections") /\ look.todo = {}
  /\ look' = [look EXCEPT !.step = "marker", !.clear = ForeignEntries(look.path, look.state) = {}]
  /\ Looks

(* classifyTargetGeneration of a directory that exists and is exact.       *)
GenerationStatus(marker, generation) ==
  CASE marker = NoMarker -> "missing-marker-repairable"
    [] marker.gen < generation -> "stale-behind"
    [] marker.gen > generation -> "ahead-anomaly"
    [] OTHER -> "current"

(* Mutant: the generation decides alone.                                   *)
DecidedByGeneration(t, marker, generation) ==
  LET status == GenerationStatus(marker, generation) IN
  CASE status = "ahead-anomaly" -> "conflict"
    [] status = "stale-behind" -> "choice-required"
    [] status = "missing-marker-repairable" -> "repair-marker"
    [] OTHER -> "current"

(* decideWithRegistry of an exact directory, without a choice for a stale  *)
(* copy.                                                                   *)
RecoveryDecision(t, marker, generation) ==
  LET status == GenerationStatus(marker, generation) IN
  IF marker # NoMarker /\ marker.id # t THEN "conflict"
  ELSE CASE status = "ahead-anomaly" -> "conflict"
         [] status = "stale-behind" -> "choice-required"
         [] status = "missing-marker-repairable" -> "repair-marker"
         [] OTHER -> "current"

(* inspectTargetRecovery, of the marker now and the registry then.         *)
Decided == RecoveryDecision(look.target, Marker(look.path), look.gen)

(* The last read; addMarkerDiagnostics has nothing to say of a current one.*)
SaysHealthy == Reads("marker") /\ Decided = "current"

ReadMarkerAgain ==
  /\ Reads("marker")
  /\ look' = NoLook
  /\ Looks

DoctorStep ==
  \/ \E p \in Path : ReadMarker(p)
  \/ ReadRegistry
  \/ \E broken \in SUBSET Package : ReadStore(broken)
  \/ \E k \in Package : VerifyProjection(k)
  \/ ReadForeign
  \/ ReadMarkerAgain

(* Commands write while they run; a restore replaces the registry, and     *)
(* between commands users do what they like.                               *)
Noticed ==
  IF ~Reading \/ UNCHANGED <<db, dirs>> THEN look
  ELSE [look EXCEPT !.since =
          IF cmd = Idle \/ cmd.kind = "restore" \/ @ = "others" THEN "others" ELSE "commands"]

(* While doctor reads there is one mishap less, to bound the runs.         *)
OtherStep ==
  /\ Next
  /\ Reading => mishaps' < MaxMishaps
  /\ look' = Noticed

DoctorNext == DoctorStep \/ OtherStep

DoctorSpec == DoctorInit /\ [][DoctorNext]_doctorVars

----------------------------------------------------------------------------
(* A sync of the directory would be let in and find nothing to do, and so  *)
(* would the next change find nothing in its way.                          *)
Settled(p, t) ==
  LET accepted == db.target[t].state
      base == SyncBaseline(p, t)
      shown == dirs[p].shown
  IN /\ TargetIdsAt(p) = {t} /\ CurrentCopy(p)
     /\ PreflightOk(base, accepted, shown) /\ Changes(base, accepted, shown) = {}

(* The registry holds what doctor read there: the same accepted state,     *)
(* nothing pending, the path still the target's.                           *)
StillAsRead ==
  /\ RegistrySound(look.path, look.target)
  /\ db.target[look.target] = [gen |-> look.gen, state |-> look.state]

(* Doctor reads without a lock while other commands run.  When it says     *)
(* healthy, and only commands have written meanwhile, the directory is     *)
(* settled, and shows what was accepted and nothing else if doctor listed  *)
(* no foreign entries; or else the registry itself shows what overtook     *)
(* doctor, a newer generation, a pending row or another owner of the path, *)
(* so that the next look there does not say so: no command comes and goes  *)
(* unseen between the reads.  And in a directory in which a command has    *)
(* just succeeded, and nothing was written since doctor began, it finds    *)
(* nothing wrong but in the store.                                         *)
DoctorIsRight ==
  [][Reading /\ Looks =>
       /\ SaysHealthy /\ look.since # "others" /\ StillAsRead =>
            /\ Settled(look.path, look.target)
            /\ look.clear => dirs[look.path].shown = look.state
       /\ /\ reported # Idle /\ reported.path = look.path
          /\ look.since = "nothing"
          /\ look' = NoLook
          => Reads("store") \/ SaysHealthy]_doctorVars
=============================================================================
