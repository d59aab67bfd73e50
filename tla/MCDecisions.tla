----------------------------- MODULE MCDecisions -----------------------------
(***************************************************************************)
(* Every small input of the pure algorithms (Decisions).                   *)
(*                                                                         *)
(* Packages a and b are in repository r1, c is in r2, d in r3; for         *)
(* transfers the first commit of r1 has a depend on c, the second has a    *)
(* depend on b.                                                            *)
(***************************************************************************)
EXTENDS Decisions

CONSTANTS a, b, c, d, other, r1, r2, r3, main, target
Contents == [x \in Package \X (0..9) |-> x]

Calls == a :> a @@ b :> b @@ c :> c @@ d :> d
Repositories == a :> r1 @@ b :> r1 @@ c :> r2 @@ d :> r3
ByName == r1 :> 1 @@ r2 :> 2 @@ r3 :> 3
Declared == [x \in Package \X {1, 2} |->
               CASE x = <<a, 1>> -> {c} [] x = <<a, 2>> -> {b} [] OTHER -> {}]

(* What is required of r1, and what it is resolved to.                     *)
Req(kind, at, source, want) == [kind |-> kind, at |-> at, source |-> source, want |-> want]
ReleaseRow(version, immutable) ==
  [source |-> "release", version |-> version, tag |-> version, commit |-> version,
   immutable |-> immutable]

R1Sources == {ReleaseRow(v, i) : v \in {1, 2}, i \in {"unknown", "yes"}}
               \cup {[source |-> "git", version |-> main, commit |-> 1]}
R2Source == ReleaseRow(1, "yes")

ReqsOn(source) ==
  LET wants == IF source.source = "git" THEN {main} ELSE {{source.version}, {1, 2}}
      on(kind, at) == {Req(kind, at, source.source, w) : w \in wants}
      any == on("package", a) \cup on("package", b) \cup on("repository", r1)
               \cup {Req("package", c, "release", {1})}
  IN {reqs \in {{x, y} : x, y \in any} : RequirementsAgree(reqs)}

Content(source) == [p \in Package |-> <<p, IF p = c THEN 1 ELSE source.commit>>]
Target(source, reqs, names, detached, mat) ==
  LET all == {e \in Package \X Package : e[2] \in Declared[Content(source)[e[1]]]}
      used == Reachable(all, Roots(reqs, Package))
      edges == {e \in all : e[1] \in used}
      plan == PlanProjections(used, edges, Roots(reqs, used), {n \in names : n[1] \in used})
      gone == detached \cap used
      shown(p) == Planned(plan, p, IF p \in gone THEN "detached" ELSE "managed")
  IN [reqs |-> reqs, edges |-> edges,
      packages |-> [p \in used |-> Content(source)[p]],
      sources |-> [r \in {RepositoryOf[p] : p \in used} \cup {RepositoryAt(q) : q \in reqs}
                     |-> IF r = r2 THEN R2Source ELSE source],
      projections |-> [p \in used |-> [shown(p) EXCEPT !.mat = IF @ = "link" THEN mat ELSE @]],
      baselines |-> [p \in gone |-> Content(source)[p]]]

SmallTargets ==
  UNION {{Target(source, reqs, names, detached, mat) :
            reqs \in ReqsOn(source), names \in {{}, {<<a, other>>}},
            detached \in {{}, {a}, {c}}, mat \in {"link", "copy"}} : source \in R1Sources}

(* Versions and comparators of numbers up to 2 and 1.                      *)
Pre == {<<>>, <<[word |-> FALSE, n |-> 0]>>, <<[word |-> TRUE, n |-> 0]>>,
        <<[word |-> FALSE, n |-> 0], [word |-> FALSE, n |-> 0]>>}
SmallVersions == [at : [1..3 -> 0..2], pre : Pre]
SmallTexts == {t \in [op : Operators \cup {"default"}, at : UNION {[1..n -> 0..1] : n \in 0..3},
                 star : BOOLEAN, pre : Pre] : ComparatorOk(t)}

(* What may be required, and repositories with two or three releases: in   *)
(* r1 package a may depend on c, in r2 package c may depend on b.           *)
Wants == {{1}, {2}, {1, 2}}
Release(v, stable, draft, snapshot) ==
  [version |-> v, rank |-> v, stable |-> stable, draft |-> draft, tag |-> v, commit |-> v,
   immutable |-> "yes", snapshot |-> snapshot]
NoneOr(p) == {<<>>} \cup {p :> w : w \in Wants}
R1Snapshots == {a :> x @@ b :> <<>> : x \in NoneOr(c)} \cup {a :> x : x \in NoneOr(c)}
R2Snapshots == {c :> x : x \in NoneOr(b)} \cup {<<>>}

(* The ref of r2 has what its second release has.                          *)
World(releases) ==
  [releases |-> releases,
   refs |-> r2 :> [source |-> "git", version |-> main, commit |-> 7, tag |-> 0, rank |-> 0,
                   immutable |-> "no",
                   snapshot |-> (CHOOSE x \in releases[r2] : x.version = 2).snapshot]]
SmallWorlds ==
  {World(r1 :> {Release(1, TRUE, FALSE, s1), Release(2, TRUE, FALSE, s2)}
           @@ r2 :> {Release(1, TRUE, FALSE, t1), Release(2, k # "beta", k = "draft", t2)}
           @@ r3 :> {}) :
     s1, s2 \in R1Snapshots, t1, t2 \in R2Snapshots, k \in {"final", "draft", "beta"}}

Asked == {{Req("package", a, "release", w)} : w \in Wants \cup {AnyVersion}}
          \cup {{Req("repository", r1, "release", w)} : w \in {{1}, AnyVersion}}
          \cup {{Req("package", a, "release", {1, 2}), Req("package", c, "release", w)} :
                  w \in {{1}, {2}, AnyVersion}}
          \cup {{Req("package", c, "release", AnyVersion)}, {Req("package", c, "git", main)},
                 {Req("repository", r1, "release", AnyVersion), Req("package", c, "git", main)}}

(* A chain: a in r1 may depend on c in r2, c on d in r3.                   *)
Of(v, snapshot) == Release(v, TRUE, FALSE, snapshot)
Chains ==
  {World(r1 :> {Of(1, a :> s1), Of(2, a :> s2)} @@ r2 :> {Of(1, c :> t1), Of(2, c :> t2)}
           @@ r3 :> {Of(1, d :> <<>>), Of(2, u)}) :
     s1, s2 \in NoneOr(c), t1, t2 \in NoneOr(d), u \in {<<>>, d :> <<>>}}
ChainAsked == {{Req("package", a, "release", AnyVersion)}, {Req("package", a, "release", {1})},
               {Req("repository", r2, "release", AnyVersion)}, {Req("package", c, "git", main)},
               {Req("package", a, "release", AnyVersion), Req("package", c, "git", main)}}

(* Before and after: tags may have moved, and a release may be new.        *)
At(release, commit, immutable) ==
  [release EXCEPT !.commit = commit, !.immutable = immutable]
Times ==
  {r1 :> ({At(Of(1, a :> s), k, i)} \cup newer) @@ r2 :> {At(Of(1, c :> <<>>), l, "yes")}
     @@ r3 :> {} :
     s \in {<<>>, c :> {1, 2}}, k, l \in {1, 9}, i \in {"yes", "unknown"},
     newer \in {{}, {Of(2, a :> <<>>)}}}
TimesAsked == {{Req("package", a, "release", AnyVersion)}, {Req("package", c, "git", main)},
               {Req("package", a, "release", AnyVersion), Req("package", c, "release", {1})}}
TimesRefs == r2 :> [source |-> "git", version |-> main, commit |-> 1, tag |-> 0, rank |-> 0,
                    immutable |-> "no", snapshot |-> c :> <<>>]
SmallStates ==
  {StateOf(x[1], Resolved(x[1], x[2], TimesRefs, Repository).graph) :
     x \in {y \in TimesAsked \X Times : Resolved(y[1], y[2], TimesRefs, Repository).ok}}
Invocation(plan, yes, allow, terminal) ==
  [plan |-> plan, yes |-> yes, allowRetarget |-> allow, terminal |-> terminal]
SmallInvocations ==
  {Invocation(TRUE, FALSE, FALSE, TRUE), Invocation(FALSE, TRUE, FALSE, FALSE),
   Invocation(FALSE, TRUE, TRUE, TRUE), Invocation(FALSE, FALSE, TRUE, FALSE),
   Invocation(FALSE, FALSE, FALSE, TRUE)}
AllAnswers == [retarget : BOOLEAN, apply : BOOLEAN]

SmallContents == {[n \in names |-> "digest"] : names \in {{}, {a, other}, {c}}}

(* Marker files, as they are written and as users may leave them.          *)
View(n, routes) == [name |-> n, routes |-> routes]
Tables == [
  requirements |->
    {Req("package", a, "release", {1}), Req("package", a, "git", main),
     Req("repository", r1, "git", main), Req("package", r1, "release", {1})},
  overrides |-> {OverrideTable(a, other), OverrideTable(a, a), OverrideTable(b, other)},
  managed |->
    {ManagedTable(a, a, "link", 1, View(a, {})), ManagedTable(a, other, "copy", 1, View(other, {})),
     ManagedTable(b, other, "copy", 1, View(b, {<<a, other>>})),
     ManagedTable(b, b, "link", 1, View(b, {<<a, other>>}))},
  detached |-> {DetachedTable(a, 1), DetachedTable(b, 1)}]
Documents ==
  [format : {"V1", "V2"}, id : {target}, generation : {1},
   requirements : BoundedSeq(Tables.requirements, 2), overrides : BoundedSeq(Tables.overrides, 2)]
    \cup [format : {"V1", "V2", "V3", "text"}, id : {target, other},
          generation : -1..(MaxSafeInteger + 1), requirements : {<<>>}, overrides : {<<>>}]
SmallManaged == BoundedSeq(Tables.managed, 2)
SmallDetached == BoundedSeq(Tables.detached, 2)

=============================================================================
