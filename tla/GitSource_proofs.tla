-------------------------- MODULE GitSource_proofs --------------------------
(* Proofs about the acquisition of sources, for any numbers of tags,       *)
(* commits, pages and changes.                                             *)
EXTENDS GitSource, FiniteSetTheorems, SequenceTheorems, TLAPS

Acquisition ==
  [kind: {"release", "git", "exact"}, step: Steps, transport: {"git", "rest"},
   page: 1..(MaxPages + 1), batch: Seq(Tag),
   listed: Seq([tag: Tag, commit: Commit \cup {NoCommit}]), out: Seq(Acquired),
   attempt: 1..MaxAttempts, remote: {"ssh", "https"},
   ref: Tag \cup {NoCommit}, commit: Commit \cup {NoCommit},
   content: Commit \cup {NoCommit}, wanted: Commit \cup {NoCommit}]

SeenTypeOK ==
  seen \in [pointed: [Tag -> SUBSET Commit], throughout: SUBSET Tag, ever: SUBSET Tag,
            removed: BOOLEAN, added: BOOLEAN]

(* While an acquisition runs, what is true upstream has been noted.        *)
SeenIsCurrent ==
  ~Ended /\ acq.kind # "exact" =>
    /\ \A t \in Tag : tagAt[t] # NoCommit => tagAt[t] \in seen.pointed[t]
    /\ PublishedTags \subseteq seen.ever
    /\ seen.throughout \subseteq PublishedTags

(* Whether the ref, or the listed tag, may be said to have pointed at c.   *)
Pointed(t, c) ==
  c \in Commit /\ IF acq.kind = "exact" THEN c = acq.wanted ELSE c \in seen.pointed[t]

Fetching == {"init", "fetch"}
Reads == {"lookup", "evict", "show", "commit", "tree", "blobs", "store", "keep"}

(* How far an acquisition has come shows in its fields.                    *)
StepFits ==
  /\ acq.kind = "exact" => acq.transport = "rest" /\ acq.step \notin {"verify", "list", "tag"}
  /\ acq.step \in GitCommands => acq.transport = "git"
  /\ acq.batch # <<>> <=> acq.step = "tag"
  /\ acq.step \in Fetching \cup Reads => acq.ref \in Tag
  /\ acq.step \in {"verify", "tag"} /\ acq.kind = "git" => acq.ref \in Tag
  /\ acq.step = "verify" => acq.listed = <<>> /\ acq.out = <<>> /\ acq.page = 1
  /\ acq.step \in {"list", "tag"} => acq.out = <<>>
  /\ acq.step = "list" => acq.kind = "release"
  /\ acq.step = "done" => acq.listed = <<>>

(* Every commit that is named was pointed at, and what is read is the      *)
(* content of the commit.                                                  *)
CommitsAreTrue ==
  /\ acq.transport = "rest" =>
       \A i \in DOMAIN acq.listed : Pointed(acq.listed[i].tag, acq.listed[i].commit)
  /\ acq.step \in Reads => Pointed(acq.ref, acq.commit)
  /\ acq.step \in {"store", "keep"} => acq.content = acq.commit
  /\ \A i \in DOMAIN acq.out :
       /\ Pointed(acq.out[i].tag, acq.out[i].commit)
       /\ acq.out[i].content = acq.out[i].commit

----------------------------------------------------------------------------
(* The tags of a listing: those still ahead in the pages, those that wait  *)
(* for their commit, those listed, the one at work, and those kept.        *)
TagsIn(list) == {list[i].tag : i \in DOMAIN list}
EachTagOnce(list) == \A i, j \in DOMAIN list : list[i].tag = list[j].tag => i = j

Offset == (acq.page - 1) * PageSize
Ahead ==
  IF acq.step \in {"verify", "list", "tag"}
    THEN {releases[i].tag : i \in {j \in Published(releases) : j > Offset}} ELSE {}
Waiting == {acq.batch[i] : i \in DOMAIN acq.batch}
Known == TagsIn(acq.listed)
AtWork == IF acq.step \in Fetching \cup Reads THEN {acq.ref} ELSE {}
Kept == TagsIn(acq.out)
Covered == Waiting \cup Known \cup AtWork \cup Kept

OneReleasePerTag ==
  \A i, j \in Published(releases) : releases[i].tag = releases[j].tag => i = j

Distinct ==
  /\ \A i, j \in DOMAIN acq.batch : acq.batch[i] = acq.batch[j] => i = j
  /\ EachTagOnce(acq.listed)
  /\ EachTagOnce(acq.out)
  /\ Ahead \cap Covered = {} /\ Waiting \cap (Known \cup AtWork \cup Kept) = {}
  /\ Known \cap (AtWork \cup Kept) = {} /\ AtWork \cap Kept = {}

(* What a listing of releases has covered, and what is still ahead of it.  *)
ListingFits ==
  acq.kind = "release" /\ acq.step \notin {"idle", "failed"} =>
    /\ Covered \subseteq seen.ever
    /\ ~seen.removed => seen.throughout \subseteq Covered \cup Ahead
    /\ ~seen.added => Distinct

SourceInv ==
  /\ releases \in Seq(Release)
  /\ tagAt \in [Tag -> Commit \cup {NoCommit}]
  /\ cache \in [Commit -> File]
  /\ changes \in 0..MaxChanges
  /\ cancelled \in BOOLEAN
  /\ acq \in Acquisition
  /\ SeenTypeOK /\ SeenIsCurrent /\ StepFits /\ CommitsAreTrue
  /\ OneReleasePerTag /\ ListingFits
----------------------------------------------------------------------------
(* Counting the published releases up to one of them numbers them from one *)
(* without a gap.                                                          *)
LEMMA Numbering ==
  ASSUME NEW P \in SUBSET Nat, IsFiniteSet(P)
  PROVE  LET upTo(i) == Cardinality({j \in P : j <= i}) IN
         /\ Cardinality(P) \in Nat
         /\ \A i \in P : upTo(i) \in 1..Cardinality(P)
         /\ \A i, j \in P : upTo(i) = upTo(j) => i = j
         /\ \A k \in 1..Cardinality(P) : \E i \in P : upTo(i) = k
<1> DEFINE below(i) == {j \in P : j <= i}
           upTo(i) == Cardinality(below(i))
           n == Cardinality(P)
           f == [i \in P |-> upTo(i)]
<1>1. n \in Nat
  BY FS_CardinalityType
<1>2. ASSUME NEW i \in P
      PROVE  upTo(i) \in 1..n
  <2>1. IsFiniteSet(below(i)) /\ upTo(i) <= n
    BY FS_Subset
  <2>2. upTo(i) # 0
    BY <2>1, FS_EmptySet
  <2>3. upTo(i) \in Nat
    BY <2>1, FS_CardinalityType
  <2>. QED BY <1>1, <2>1, <2>2, <2>3
<1>3. ASSUME NEW i \in P, NEW j \in P, i < j
      PROVE  upTo(i) # upTo(j)
  <2>1. below(i) \subseteq below(j) /\ j \in below(j) /\ j \notin below(i)
    <3>1. i \in Nat /\ j \in Nat /\ i < j
      BY <1>3
    <3>2. j \in below(j)
      BY <3>1
    <3>3. j \notin below(i)
      BY <3>1
    <3>4. \A l \in P : l <= i => l <= j
      BY <3>1
    <3>. QED BY <3>2, <3>3, <3>4
  <2>2. IsFiniteSet(below(j))
    BY FS_Subset
  <2>. QED BY <2>1, <2>2, FS_Subset
<1>4. \A i, j \in P : upTo(i) = upTo(j) => i = j
  BY <1>3
<1>5. f \in Injection(P, 1..n)
  BY <1>2, <1>4 DEF Injection, IsInjective
<1>6. IsFiniteSet(1..n) /\ Cardinality(1..n) = n
  BY <1>1, FS_Interval
<1>7. f \in Surjection(P, 1..n)
  BY <1>5, <1>6, FS_Injection
<1>8. \A k \in 1..n : \E i \in P : upTo(i) = k
  BY <1>7 DEF Surjection
<1>. QED BY <1>1, <1>2, <1>4, <1>8

(* The tags of a page are those of its published releases, each once.      *)
LEMMA TagsOfPage ==
  ASSUME NEW page \in Seq(Release)
  PROVE  /\ Tags(page) \in Seq(Tag)
         /\ \A k \in DOMAIN Tags(page) : \E i \in Published(page) : Tags(page)[k] = page[i].tag
         /\ \A i \in Published(page) : \E k \in DOMAIN Tags(page) : Tags(page)[k] = page[i].tag
         /\ (\A i, j \in Published(page) : page[i].tag = page[j].tag => i = j) =>
              \A k, l \in DOMAIN Tags(page) : Tags(page)[k] = Tags(page)[l] => k = l
<1> DEFINE P == Published(page)
           upTo(i) == Cardinality({j \in P : j <= i})
           n == Cardinality(P)
           pos(k) == CHOOSE i \in P : upTo(i) = k
<1>1. P \in SUBSET Nat /\ IsFiniteSet(P)
  <2>1. Len(page) \in Nat /\ DOMAIN page = 1..Len(page)
    OBVIOUS
  <2>2. P \subseteq 1..Len(page)
    BY <2>1 DEF Published
  <2>3. IsFiniteSet(1..Len(page))
    BY <2>1, FS_Interval
  <2>. QED BY <2>1, <2>2, <2>3, FS_Subset
<1>2. /\ n \in Nat
      /\ \A i \in P : upTo(i) \in 1..n
      /\ \A i, j \in P : upTo(i) = upTo(j) => i = j
      /\ \A k \in 1..n : \E i \in P : upTo(i) = k
  BY <1>1, Numbering, Zenon
<1>3. Tags(page) = [k \in 1..n |-> page[pos(k)].tag]
  BY DEF Tags
<1> HIDE DEF upTo, n
<1>4. \A k \in 1..n : pos(k) \in P /\ upTo(pos(k)) = k
  BY <1>2
<1>5. \A i \in P : pos(upTo(i)) = i
  BY <1>2, <1>4
<1> HIDE DEF pos
<1>6. \A i \in P : page[i].tag \in Tag
  <2>1. \A i \in DOMAIN page : page[i] \in Release
    BY ElementOfSeq
  <2>. QED BY <2>1 DEF Published, Release
<1>7. Tags(page) \in Seq(Tag) /\ DOMAIN Tags(page) = 1..n
  BY <1>2, <1>3, <1>4, <1>6
<1>8. \A i \in P : upTo(i) \in DOMAIN Tags(page) /\ Tags(page)[upTo(i)] = page[i].tag
  BY <1>2, <1>3, <1>5, <1>7
<1>9. \A k \in DOMAIN Tags(page) :
        pos(k) \in P /\ upTo(pos(k)) = k /\ Tags(page)[k] = page[pos(k)].tag
  BY <1>3, <1>4, <1>7
<1>. QED BY <1>7, <1>8, <1>9

(* The pages split the list of releases.                                   *)
LEMMA PageOfReleases ==
  ASSUME releases \in Seq(Release), NEW p \in Nat \ {0}
  PROVE  LET offset == (p - 1) * PageSize IN
         /\ offset \in Nat /\ p * PageSize = offset + PageSize
         /\ (p + 1 - 1) * PageSize = p * PageSize
         /\ Page(p) \in Seq(Release)
         /\ \A k \in DOMAIN Page(p) :
              /\ offset + k \in DOMAIN releases /\ k <= PageSize /\ k \in Nat \ {0}
              /\ Page(p)[k] = releases[offset + k]
         /\ \A i \in DOMAIN releases :
              offset < i /\ i <= offset + PageSize => i - offset \in DOMAIN Page(p)
         /\ Page(p) = <<>> => \A i \in DOMAIN releases : i <= offset
<1> DEFINE offset == (p - 1) * PageSize
           last == IF offset + PageSize < Len(releases) THEN offset + PageSize ELSE Len(releases)
<1>1. /\ offset \in Nat /\ p * PageSize = offset + PageSize
      /\ (p + 1 - 1) * PageSize = offset + PageSize
      /\ PageSize \in Nat \ {0} /\ Len(releases) \in Nat
      /\ DOMAIN releases = 1..Len(releases)
  BY SourceAssumption
<1> HIDE DEF offset
<1>2. Page(p) = SubSeq(releases, offset + 1, last)
  BY <1>1 DEF Page, offset
<1>3. last \in Nat /\ \A i \in (offset + 1)..last : i \in 1..Len(releases)
  BY <1>1
<1>6. last <= offset + PageSize /\ last <= Len(releases)
  BY <1>1
<1>10. \A i \in DOMAIN releases : i <= offset + PageSize => i <= last
  BY <1>1
<1> HIDE DEF last
<1>4. /\ Page(p) \in Seq(Release)
      /\ Len(Page(p)) = IF offset + 1 <= last THEN last - offset ELSE 0
      /\ \A i \in 1..(last - offset) : Page(p)[i] = releases[offset + i]
  BY <1>1, <1>2, <1>3, SubSeqProperties
<1>5. \A k \in DOMAIN Page(p) :
        /\ k \in Nat \ {0} /\ k <= last - offset
        /\ Page(p)[k] = releases[offset + k]
  <2>1. DOMAIN Page(p) = 1..Len(Page(p)) /\ Len(Page(p)) \in Nat
    BY <1>4
  <2>2. \A k \in 1..Len(Page(p)) :
          k \in Nat \ {0} /\ k \in 1..(last - offset) /\ k <= last - offset
    BY <1>1, <1>3, <1>4, <2>1
  <2>. QED BY <1>4, <2>1, <2>2
<1>7. \A k \in DOMAIN Page(p) : offset + k \in DOMAIN releases /\ k <= PageSize
  BY <1>1, <1>3, <1>5, <1>6
<1>8. \A i \in DOMAIN releases :
        offset < i /\ i <= offset + PageSize => i - offset \in DOMAIN Page(p)
  <2>1. SUFFICES ASSUME NEW i \in DOMAIN releases, offset < i, i <= offset + PageSize
                 PROVE  i - offset \in DOMAIN Page(p)
    OBVIOUS
  <2>2. i \in Nat /\ i <= last
    BY <1>1, <1>10, <2>1
  <2>3. Len(Page(p)) = last - offset /\ DOMAIN Page(p) = 1..Len(Page(p))
    BY <1>1, <1>3, <1>4, <2>1, <2>2
  <2>4. i - offset \in 1..(last - offset)
    BY <1>1, <1>3, <2>1, <2>2
  <2>. QED BY <2>3, <2>4
<1>9. Page(p) = <<>> => \A i \in DOMAIN releases : i <= offset
  <2>1. SUFFICES ASSUME Page(p) = <<>>, NEW i \in DOMAIN releases, offset < i
                 PROVE  FALSE
    BY <1>1
  <2>2. Len(Page(p)) = 0
    BY <2>1
  <2>3. ~(offset + 1 <= last)
    BY <1>1, <1>3, <1>4, <2>2
  <2>4. i <= last
    BY <1>1, <1>6, <1>7, <1>10, <2>1, <2>3
  <2>. QED BY <1>1, <1>3, <2>1, <2>3, <2>4
<1>. QED BY <1>1, <1>4, <1>5, <1>7, <1>8, <1>9 DEF offset

----------------------------------------------------------------------------
(* The acquisition before the first one has every field of its type.       *)
LEMMA IdleFits == Idle \in Acquisition
<1>1. 1 \in 1..(MaxPages + 1) /\ 1 \in 1..MaxAttempts
  BY SourceAssumption
<1>2. /\ <<>> \in Seq(Tag) /\ <<>> \in Seq(Acquired)
      /\ <<>> \in Seq([tag: Tag, commit: Commit \cup {NoCommit}])
  OBVIOUS
<1>3. "idle" \in Steps
  BY DEF Steps
<1>. QED BY <1>1, <1>2, <1>3 DEF Idle, Acquisition

(* An error forgets everything, so nothing is left to be wrong.            *)
LEMMA FailKeeps ==
  ASSUME SourceInv, Fail
  PROVE  SourceInv'
<1> DEFINE w == [Idle EXCEPT !.step = "failed"]
<1>1. /\ w \in Acquisition /\ w.step = "failed" /\ w.kind = "release" /\ w.transport = "git"
      /\ w.batch = <<>> /\ w.listed = <<>> /\ w.out = <<>>
  <2>1. Idle \in Acquisition /\ "failed" \in Steps
    BY IdleFits DEF Steps
  <2>2. w \in Acquisition /\ w.step = "failed"
    BY <2>1 DEF Acquisition
  <2>. QED BY <2>2 DEF Idle
<1> HIDE DEF w
<1>2. acq' = w /\ cancelled' = FALSE /\ seen' = Nothing /\ UNCHANGED <<world, cache>>
  BY DEF Fail, w
<1>3. SeenTypeOK'
  BY <1>2 DEF SeenTypeOK, Nothing
<1>4. SeenIsCurrent' /\ StepFits'
  BY <1>1, <1>2 DEF SeenIsCurrent, StepFits, Ended, GitCommands, Fetching, Reads
<1>5. CommitsAreTrue'
  BY <1>1, <1>2 DEF CommitsAreTrue, Reads
<1>6. ListingFits' /\ OneReleasePerTag'
  BY <1>1, <1>2 DEF ListingFits, OneReleasePerTag, SourceInv, world, Published
<1>. QED BY <1>1, <1>2, <1>3, <1>4, <1>5, <1>6 DEF SourceInv, world

(* What it takes for a step at the commit at work to keep the invariant.   *)
LEMMA WorkGoesOn ==
  ASSUME SourceInv, UNCHANGED <<world, seen>>, acq' \in Acquisition,
         cache' \in [Commit -> File], cancelled' \in BOOLEAN,
         acq.step \in Fetching \cup Reads, acq'.step \in Fetching \cup Reads,
         acq'.kind = acq.kind, acq'.transport = acq.transport, acq'.page = acq.page,
         acq'.batch = acq.batch, acq'.listed = acq.listed, acq'.out = acq.out,
         acq'.ref = acq.ref, acq'.wanted = acq.wanted,
         acq'.step \in GitCommands => acq.transport = "git",
         acq'.step \in Reads => Pointed(acq.ref, acq'.commit),
         acq'.step \in {"store", "keep"} => acq'.content = acq'.commit
  PROVE  SourceInv'
<1>1. SeenTypeOK' /\ OneReleasePerTag'
  BY DEF SourceInv, SeenTypeOK, OneReleasePerTag, world, Published
<1>2. SeenIsCurrent'
  <2>1. ~Ended /\ PublishedTags' = PublishedTags
    BY DEF Ended, Fetching, Reads, world, PublishedTags, Published
  <2>2. tagAt' = tagAt /\ seen' = seen
    BY DEF world
  <2>. QED BY <2>1, <2>2 DEF SourceInv, SeenIsCurrent
<1>3. StepFits'
  BY DEF SourceInv, StepFits, GitCommands, Fetching, Reads
<1>4. CommitsAreTrue'
  <2>1. \A t, c : Pointed(t, c)' <=> Pointed(t, c)
    BY DEF Pointed
  <2>. QED BY <2>1 DEF SourceInv, CommitsAreTrue, Pointed
<1>5. ListingFits'
  <2>1. Ahead' = Ahead /\ Waiting' = Waiting /\ Known' = Known /\ AtWork' = AtWork /\ Kept' = Kept
    BY DEF Ahead, Waiting, Known, AtWork, Kept, Fetching, Reads
  <2>2. (acq.kind = "release" => ListingFits) /\ acq.step \notin {"idle", "failed"}
    BY DEF SourceInv, Fetching, Reads
  <2>. QED BY <2>1, <2>2 DEF ListingFits, Distinct, Covered
<1>. QED BY <1>1, <1>2, <1>3, <1>4, <1>5 DEF SourceInv, world

(* Another attempt of a request changes nothing but its number.            *)
LEMMA RetryKeeps ==
  ASSUME SourceInv, Retry
  PROVE  SourceInv'
<1> DEFINE w == [acq EXCEPT !.attempt = @ + 1]
<1>1. /\ w \in Acquisition
      /\ w.kind = acq.kind /\ w.step = acq.step /\ w.transport = acq.transport
      /\ w.page = acq.page /\ w.batch = acq.batch /\ w.listed = acq.listed /\ w.out = acq.out
      /\ w.ref = acq.ref /\ w.commit = acq.commit /\ w.content = acq.content
      /\ w.wanted = acq.wanted
  <2>1. acq.attempt + 1 \in 1..MaxAttempts
    BY SourceAssumption DEF SourceInv, Acquisition, Retry, MayRetry, Stopped
  <2>. QED BY <2>1 DEF SourceInv, Acquisition
<1> HIDE DEF w
<1>2. acq' = w /\ UNCHANGED <<world, cache, cancelled, seen>>
  BY DEF Retry, Become, w
<1>3. SeenTypeOK' /\ OneReleasePerTag'
  BY <1>2 DEF SourceInv, SeenTypeOK, OneReleasePerTag, world, Published
<1>4. SeenIsCurrent'
  <2>1. PublishedTags' = PublishedTags /\ tagAt' = tagAt /\ seen' = seen
    BY <1>2 DEF world, PublishedTags, Published
  <2>. QED BY <1>1, <1>2, <2>1 DEF SourceInv, SeenIsCurrent, Ended
<1>5. StepFits'
  BY <1>1, <1>2 DEF SourceInv, StepFits
<1>6. CommitsAreTrue'
  <2>1. \A t, c : Pointed(t, c)' <=> Pointed(t, c)
    BY <1>1, <1>2 DEF Pointed
  <2>. QED BY <1>1, <1>2, <2>1 DEF SourceInv, CommitsAreTrue, Pointed
<1>7. ListingFits'
  <2>1. Ahead' = Ahead /\ Waiting' = Waiting /\ Known' = Known /\ AtWork' = AtWork /\ Kept' = Kept
    BY <1>1, <1>2 DEF Ahead, Waiting, Known, AtWork, Kept, world, Published, Offset
  <2>. QED BY <1>1, <1>2, <2>1 DEF SourceInv, ListingFits, Distinct, Covered
<1>. QED BY <1>1, <1>2, <1>3, <1>4, <1>5, <1>6, <1>7 DEF SourceInv, world

(* A commit is read, from the cache or from upstream, and stored.          *)
LEMMA ReadingKeeps ==
  ASSUME SourceInv,
         \/ ReadCommit \/ ReadTree \/ ReadBlobs \/ GitInit \/ FetchElsewhere \/ Fetch \/ Show
         \/ CacheHit \/ CacheMiss \/ CacheRefused
  PROVE  SourceInv'
<1> DEFINE Same(a) == /\ a.kind = acq.kind /\ a.transport = acq.transport /\ a.page = acq.page
                      /\ a.batch = acq.batch /\ a.listed = acq.listed /\ a.out = acq.out
                      /\ a.ref = acq.ref /\ a.wanted = acq.wanted
           Moves(a, step) == a \in Acquisition /\ Same(a) /\ a.step = step
<1>1. acq \in Acquisition /\ cache \in [Commit -> File] /\ cancelled \in BOOLEAN
  BY DEF SourceInv
<1>2. /\ {"tree", "blobs", "evict", "show", "commit", "store", "keep", "fetch", "lookup"} \subseteq Steps
      /\ 1 \in 1..MaxAttempts
  BY SourceAssumption DEF Steps, Requests, GitCommands
<1>3. ASSUME NEW step \in Steps
      PROVE  /\ Moves([acq EXCEPT !.step = step, !.attempt = 1], step)
             /\ [acq EXCEPT !.step = step, !.attempt = 1].commit = acq.commit
             /\ [acq EXCEPT !.step = step, !.attempt = 1].content = acq.content
  BY <1>1, <1>2 DEF Acquisition
<1>4. acq.step \in Reads => Pointed(acq.ref, acq.commit) /\ acq.commit \in Commit
  BY DEF SourceInv, CommitsAreTrue, Pointed
<1>5. acq.step \in GitCommands => acq.transport = "git"
  BY DEF SourceInv, StepFits
<1>6. ASSUME NEW a, NEW step \in Fetching \cup Reads, Become(a), Moves(a, step),
             acq.step \in Fetching \cup Reads,
             step \in GitCommands => acq.transport = "git",
             step \in Reads => Pointed(acq.ref, a.commit),
             step \in {"store", "keep"} => a.content = a.commit
      PROVE  SourceInv'
  <2>1. acq' = a /\ UNCHANGED <<world, seen>> /\ cache' = cache /\ cancelled' = cancelled
    BY <1>6 DEF Become
  <2>. QED BY <1>1, <1>6, <2>1, WorkGoesOn
<1> HIDE DEF Moves
<1>7. ASSUME NEW step \in Reads, GoTo(step), acq.step \in Reads, step \notin {"store", "keep"},
             step \in GitCommands => acq.transport = "git"
      PROVE  SourceInv'
  BY <1>2, <1>3, <1>4, <1>6, <1>7 DEF GoTo, Fetching, Reads
<1>8. CASE ReadCommit
  BY <1>7, <1>8 DEF ReadCommit, Answered, At, Reads, GitCommands
<1>9. CASE ReadTree
  BY <1>7, <1>9, FailKeeps DEF ReadTree, Answered, At, Reads, GitCommands
<1>10. CASE ReadBlobs
  <2> DEFINE a == [acq EXCEPT !.attempt = 1, !.step = "store", !.content = acq.commit]
  <2>1. acq.step \in Reads
    BY <1>10 DEF ReadBlobs, Answered, At, Reads
  <2>2. Moves(a, "store") /\ a.content = acq.commit /\ a.commit = acq.commit
    BY <1>1, <1>2, <1>4, <2>1 DEF Acquisition, Moves
  <2>3. Become(a)
    BY <1>10 DEF ReadBlobs
  <2> HIDE DEF a
  <2>. QED BY <1>4, <1>6, <2>1, <2>2, <2>3 DEF Reads, GitCommands
<1>11. CASE GitInit
  <2> DEFINE a == [acq EXCEPT !.step = "fetch", !.remote = "ssh"]
  <2>1. Moves(a, "fetch") /\ acq.step = "init" /\ Become(a)
    BY <1>1, <1>2, <1>11 DEF Acquisition, Moves, GitInit, At
  <2> HIDE DEF a
  <2>. QED BY <1>5, <1>6, <2>1 DEF Fetching, Reads, GitCommands
<1>12. CASE FetchElsewhere
  <2> DEFINE a == [acq EXCEPT !.remote = "https"]
  <2>1. Moves(a, "fetch") /\ acq.step = "fetch" /\ Become(a)
    BY <1>1, <1>2, <1>12 DEF Acquisition, Moves, FetchElsewhere, At
  <2> HIDE DEF a
  <2>. QED BY <1>5, <1>6, <2>1 DEF Fetching, Reads, GitCommands
<1>13. CASE Fetch
  <2> DEFINE a == [acq EXCEPT !.step = "lookup", !.commit = tagAt[acq.ref]]
  <2>1. acq.step = "fetch" /\ acq.ref \in Tag /\ tagAt[acq.ref] \in Commit /\ Become(a)
    BY <1>13 DEF Fetch, At, SourceInv, StepFits, Fetching
  <2>2. acq.kind # "exact" /\ tagAt[acq.ref] \in seen.pointed[acq.ref]
    BY <1>5, <1>13, <2>1 DEF SourceInv, StepFits, SeenIsCurrent, GitCommands, Ended, Fetch
  <2>3. Moves(a, "lookup") /\ a.commit = tagAt[acq.ref]
    BY <1>1, <1>2, <2>1 DEF Acquisition, Moves
  <2>4. Pointed(acq.ref, a.commit)
    BY <2>1, <2>2, <2>3 DEF Pointed
  <2> HIDE DEF a
  <2>. QED BY <1>6, <2>1, <2>3, <2>4 DEF Fetching, Reads, GitCommands
<1>14. CASE Show
  <2> DEFINE a == [acq EXCEPT !.step = "store", !.content = acq.commit]
  <2>1. CASE Fail
    BY <2>1, FailKeeps
  <2>2. CASE Become(a)
    <3>1. acq.step \in Reads
      BY <1>14 DEF Show, At, Reads
    <3>2. Moves(a, "store") /\ a.content = acq.commit /\ a.commit = acq.commit
      BY <1>1, <1>2, <1>4, <3>1 DEF Acquisition, Moves
    <3> HIDE DEF a
    <3>. QED BY <1>4, <1>6, <2>2, <3>1, <3>2 DEF Reads, GitCommands
  <2>. QED BY <1>14, <2>1, <2>2 DEF Show
<1>15. CASE CacheHit
  <2> DEFINE a == [acq EXCEPT !.step = "keep", !.content = cache[acq.commit]]
  <2>1. acq.step \in Reads /\ cache[acq.commit] = acq.commit /\ Become(a)
    BY <1>15 DEF CacheHit, At, Reads, Accepts
  <2>2. Moves(a, "keep") /\ a.content = acq.commit /\ a.commit = acq.commit
    BY <1>1, <1>2, <1>4, <2>1 DEF Acquisition, Moves
  <2> HIDE DEF a
  <2>. QED BY <1>4, <1>6, <2>1, <2>2 DEF Reads, GitCommands
<1>16. CASE CacheMiss
  BY <1>7, <1>16 DEF CacheMiss, Reading, At, Reads, GitCommands
<1>17. CASE CacheRefused
  BY <1>7, <1>17 DEF CacheRefused, At, Reads, GitCommands
<1>. QED
  BY <1>8, <1>9, <1>10, <1>11, <1>12, <1>13, <1>14, <1>15, <1>16, <1>17

(* A cache file is removed or written, if that is possible.                *)
LEMMA CachingKeeps ==
  ASSUME SourceInv, Evict \/ Store
  PROVE  SourceInv'
<1>1. acq \in Acquisition /\ cache \in [Commit -> File]
  BY DEF SourceInv
<1>2. acq.step \in Reads /\ Pointed(acq.ref, acq.commit) /\ acq.commit \in Commit
  BY DEF SourceInv, CommitsAreTrue, Pointed, Evict, Store, At, Reads
<1>3. "keep" \in Steps /\ Reading \in Steps \cap Reads
  BY DEF Reading, Steps, Requests, GitCommands, Reads
<1>4. CASE Evict
  <2> DEFINE a == [acq EXCEPT !.step = Reading]
  <2>1. /\ a \in Acquisition /\ a.step = Reading
        /\ a.kind = acq.kind /\ a.transport = acq.transport /\ a.page = acq.page
        /\ a.batch = acq.batch /\ a.listed = acq.listed /\ a.out = acq.out
        /\ a.ref = acq.ref /\ a.wanted = acq.wanted /\ a.commit = acq.commit
    BY <1>1, <1>3 DEF Acquisition
  <2>2. /\ acq' = a /\ UNCHANGED <<world, seen>> /\ cancelled' \in BOOLEAN
        /\ cache' \in [Commit -> File]
    BY <1>1, <1>4 DEF Evict, File, SourceInv
  <2> HIDE DEF a
  <2>3. Reading \notin {"store", "keep"} /\ (Reading \in GitCommands => acq.transport = "git")
    BY DEF Reading, GitCommands
  <2>. QED BY <1>1, <1>2, <1>3, <2>1, <2>2, <2>3, WorkGoesOn
<1>5. CASE Store
  <2> DEFINE a == [acq EXCEPT !.step = "keep"]
  <2>1. /\ a \in Acquisition /\ a.step = "keep"
        /\ a.kind = acq.kind /\ a.transport = acq.transport /\ a.page = acq.page
        /\ a.batch = acq.batch /\ a.listed = acq.listed /\ a.out = acq.out
        /\ a.ref = acq.ref /\ a.wanted = acq.wanted /\ a.commit = acq.commit
        /\ a.content = acq.content
    BY <1>1, <1>3 DEF Acquisition
  <2>2. acq.content = acq.commit
    BY <1>5 DEF Store, At, SourceInv, CommitsAreTrue
  <2>3. /\ acq' = a /\ UNCHANGED <<world, seen>> /\ cancelled' \in BOOLEAN
        /\ cache' \in [Commit -> File]
    BY <1>1, <1>2, <1>5, <2>2 DEF Store, File, SourceInv
  <2> HIDE DEF a
  <2>. QED BY <1>1, <1>2, <2>1, <2>2, <2>3, WorkGoesOn DEF Reads, GitCommands
<1>. QED BY <1>4, <1>5

----------------------------------------------------------------------------
(* What taking the first element of a sequence leaves.                     *)
LEMMA HeadAndTail ==
  ASSUME NEW S, NEW s \in Seq(S), s # <<>>
  PROVE  /\ Head(s) \in S /\ Tail(s) \in Seq(S)
         /\ 1 \in DOMAIN s /\ s[1] = Head(s)
         /\ \A i \in DOMAIN Tail(s) :
              i \in Nat \ {0} /\ i + 1 \in DOMAIN s /\ Tail(s)[i] = s[i + 1]
         /\ \A i \in DOMAIN s : i # 1 => i - 1 \in DOMAIN Tail(s) /\ Tail(s)[i - 1] = s[i]
<1>1. Len(s) \in Nat \ {0} /\ DOMAIN s = 1..Len(s)
  BY EmptySeq
<1>2. Tail(s) \in Seq(S) /\ Len(Tail(s)) = Len(s) - 1 /\ Head(s) \in S /\ Head(s) = s[1]
  BY HeadTailProperties
<1>3. DOMAIN Tail(s) = 1..(Len(s) - 1) /\ \A i \in 1..(Len(s) - 1) : Tail(s)[i] = s[i + 1]
  BY <1>1, <1>2, HeadTailProperties
<1>. QED BY <1>1, <1>2, <1>3

(* What joining two sequences gives.                                       *)
LEMMA Joined ==
  ASSUME NEW S, NEW s \in Seq(S), NEW u \in Seq(S)
  PROVE  /\ s \o u \in Seq(S)
         /\ \A i \in DOMAIN s : i \in DOMAIN (s \o u) /\ (s \o u)[i] = s[i]
         /\ \A i \in DOMAIN u :
              Len(s) + i \in DOMAIN (s \o u) /\ (s \o u)[Len(s) + i] = u[i]
         /\ \A i \in DOMAIN (s \o u) :
              \/ i \in DOMAIN s
              \/ i - Len(s) \in DOMAIN u /\ i \in Nat /\ i > Len(s)
         /\ Len(s) \in Nat /\ Len(u) \in Nat /\ DOMAIN s = 1..Len(s) /\ DOMAIN u = 1..Len(u)
<1>1. /\ s \o u \in Seq(S) /\ Len(s \o u) = Len(s) + Len(u)
      /\ \A i \in 1..(Len(s) + Len(u)) :
           (s \o u)[i] = IF i <= Len(s) THEN s[i] ELSE u[i - Len(s)]
  BY ConcatProperties
<1>2. /\ Len(s) \in Nat /\ Len(u) \in Nat /\ DOMAIN s = 1..Len(s) /\ DOMAIN u = 1..Len(u)
      /\ DOMAIN (s \o u) = 1..(Len(s) + Len(u))
  BY <1>1
<1>3. \A i \in DOMAIN s : i \in DOMAIN (s \o u) /\ (s \o u)[i] = s[i]
  BY <1>1, <1>2
<1>4. \A i \in DOMAIN u : Len(s) + i \in DOMAIN (s \o u) /\ (s \o u)[Len(s) + i] = u[i]
  <2>1. SUFFICES ASSUME NEW i \in 1..Len(u)
                 PROVE  /\ Len(s) + i \in 1..(Len(s) + Len(u)) /\ (s \o u)[Len(s) + i] = u[i]
    BY <1>2
  <2>2. Len(s) + i \in 1..(Len(s) + Len(u)) /\ ~(Len(s) + i <= Len(s)) /\ (Len(s) + i) - Len(s) = i
    BY <1>2
  <2>. QED BY <1>1, <2>2
<1>. QED BY <1>1, <1>2, <1>3, <1>4

(* The elements of joined sequences are those of both.                     *)
LEMMA JoinedTags ==
  ASSUME NEW S, NEW s \in Seq(S), NEW u \in Seq(S)
  PROVE  /\ TagsIn(s \o u) = TagsIn(s) \cup TagsIn(u)
         /\ EachTagOnce(s) /\ EachTagOnce(u) /\ TagsIn(s) \cap TagsIn(u) = {} =>
              EachTagOnce(s \o u)
<1> USE DEF TagsIn, EachTagOnce
<1> DEFINE v == s \o u
<1>1. /\ \A i \in DOMAIN s : i \in DOMAIN v /\ v[i] = s[i]
      /\ \A i \in DOMAIN u : Len(s) + i \in DOMAIN v /\ v[Len(s) + i] = u[i]
      /\ \A i \in DOMAIN v :
           i \in DOMAIN s \/ (i - Len(s) \in DOMAIN u /\ i \in Nat /\ i > Len(s))
      /\ Len(s) \in Nat
  BY Joined
<1>2. \A i \in DOMAIN v :
        \/ i \in DOMAIN s /\ v[i] = s[i]
        \/ i - Len(s) \in DOMAIN u /\ i \in Nat /\ v[i] = u[i - Len(s)]
  <2>1. SUFFICES ASSUME NEW i \in DOMAIN v, i - Len(s) \in DOMAIN u, i \in Nat
                 PROVE  v[i] = u[i - Len(s)]
    BY <1>1
  <2>2. Len(s) + (i - Len(s)) = i
    BY <1>1, <2>1
  <2>. QED BY <1>1, <2>1, <2>2
<1> HIDE DEF v
<1>3. TagsIn(v) = TagsIn(s) \cup TagsIn(u)
  BY <1>1, <1>2
<1>4. ASSUME EachTagOnce(s),
             EachTagOnce(u),
             TagsIn(s) \cap TagsIn(u) = {},
             NEW i \in DOMAIN v, NEW j \in DOMAIN v, v[i].tag = v[j].tag
      PROVE  i = j
  <2>1. CASE i \in DOMAIN s /\ v[i] = s[i] /\ j \in DOMAIN s /\ v[j] = s[j]
    BY <1>4, <2>1
  <2>2. CASE i - Len(s) \in DOMAIN u /\ j - Len(s) \in DOMAIN u
             /\ v[i] = u[i - Len(s)] /\ v[j] = u[j - Len(s)] /\ i \in Nat /\ j \in Nat
    <3>1. i - Len(s) = j - Len(s)
      BY <1>4, <2>2
    <3>. QED BY <1>1, <2>2, <3>1
  <2>3. ASSUME NEW k \in DOMAIN s, NEW l \in DOMAIN u
        PROVE  s[k].tag # u[l].tag
    <3>1. s[k].tag \in TagsIn(s)
      OBVIOUS
    <3>2. u[l].tag \in TagsIn(u)
      OBVIOUS
    <3>. QED BY <1>4, <3>1, <3>2, Zenon
  <2>. QED BY <1>2, <1>4, <2>1, <2>2, <2>3
<1>. QED BY <1>3, <1>4 DEF v

(* The tags of one more element, and of the first and the others.          *)
LEMMA OneMoreTag ==
  ASSUME NEW S, NEW s \in Seq(S), NEW x \in S
  PROVE  /\ Append(s, x) \in Seq(S)
         /\ \A i \in DOMAIN Append(s, x) :
              Append(s, x)[i] = x \/ (i \in DOMAIN s /\ Append(s, x)[i] = s[i])
         /\ TagsIn(Append(s, x)) = TagsIn(s) \cup {x.tag}
         /\ EachTagOnce(s) /\ x.tag \notin TagsIn(s) => EachTagOnce(Append(s, x))
<1> USE DEF TagsIn, EachTagOnce
<1> DEFINE v == Append(s, x)
<1>1. /\ v \in Seq(S) /\ Len(s) \in Nat /\ DOMAIN s = 1..Len(s)
      /\ DOMAIN v = 1..(Len(s) + 1) /\ v[Len(s) + 1] = x
      /\ \A i \in 1..Len(s) : v[i] = s[i]
  BY AppendProperties
<1> HIDE DEF v
<1>2. \A i \in DOMAIN v : \/ i = Len(s) + 1 /\ v[i] = x
                          \/ i \in DOMAIN s /\ v[i] = s[i]
  BY <1>1
<1>3. DOMAIN s \subseteq DOMAIN v /\ Len(s) + 1 \in DOMAIN v
  BY <1>1
<1>4. TagsIn(v) = TagsIn(s) \cup {x.tag}
  BY <1>1, <1>2, <1>3
<1>5. ASSUME EachTagOnce(s),
             x.tag \notin TagsIn(s)
      PROVE  EachTagOnce(v)
  <2>1. \A i \in DOMAIN s : s[i].tag # x.tag
    BY <1>5
  <2>. QED BY <1>2, <1>5, <2>1
<1>. QED BY <1>1, <1>2, <1>4, <1>5 DEF v

(* Taking the first entry off a list takes off its tag, and only that one. *)
LEMMA FirstTagAndOthers ==
  ASSUME NEW S, NEW s \in Seq(S), s # <<>>
  PROVE  /\ TagsIn(s) = {Head(s).tag} \cup TagsIn(Tail(s))
         /\ EachTagOnce(s) => EachTagOnce(Tail(s)) /\ Head(s).tag \notin TagsIn(Tail(s))
<1> USE DEF TagsIn, EachTagOnce
<1> DEFINE u == Tail(s)
<1>1. /\ 1 \in DOMAIN s /\ s[1] = Head(s)
      /\ \A i \in DOMAIN u : i \in Nat \ {0} /\ i + 1 \in DOMAIN s /\ u[i] = s[i + 1]
      /\ \A i \in DOMAIN s : i # 1 => i - 1 \in DOMAIN u /\ u[i - 1] = s[i]
  BY HeadAndTail
<1> HIDE DEF u
<1>2. TagsIn(s) = {Head(s).tag} \cup TagsIn(u)
  BY <1>1
<1>3. ASSUME EachTagOnce(s)
      PROVE  /\ EachTagOnce(u)
             /\ Head(s).tag \notin TagsIn(u)
  <2>1. ASSUME NEW i \in DOMAIN u, NEW j \in DOMAIN u, u[i].tag = u[j].tag
        PROVE  i = j
    <3>1. i + 1 = j + 1 /\ i \in Nat /\ j \in Nat
      BY <1>1, <1>3, <2>1
    <3>. QED BY <3>1
  <2>2. ASSUME NEW i \in DOMAIN u, u[i].tag = Head(s).tag
        PROVE  FALSE
    <3>1. i + 1 = 1 /\ i \in Nat \ {0}
      BY <1>1, <1>3, <2>2
    <3>. QED BY <3>1
  <2>. QED BY <2>1, <2>2
<1>. QED BY <1>2, <1>3 DEF u

(* The same of a sequence of tags.                                         *)
LEMMA FirstAndOthers ==
  ASSUME NEW S, NEW s \in Seq(S), s # <<>>
  PROVE  /\ {s[i] : i \in DOMAIN s} = {Head(s)} \cup {Tail(s)[i] : i \in DOMAIN Tail(s)}
         /\ (\A i, j \in DOMAIN s : s[i] = s[j] => i = j) =>
              /\ \A i, j \in DOMAIN Tail(s) : Tail(s)[i] = Tail(s)[j] => i = j
              /\ Head(s) \notin {Tail(s)[i] : i \in DOMAIN Tail(s)}
<1> DEFINE u == Tail(s)
<1>1. /\ 1 \in DOMAIN s /\ s[1] = Head(s)
      /\ \A i \in DOMAIN u : i \in Nat \ {0} /\ i + 1 \in DOMAIN s /\ u[i] = s[i + 1]
      /\ \A i \in DOMAIN s : i # 1 => i - 1 \in DOMAIN u /\ u[i - 1] = s[i]
  BY HeadAndTail
<1> HIDE DEF u
<1>2. {s[i] : i \in DOMAIN s} = {Head(s)} \cup {u[i] : i \in DOMAIN u}
  BY <1>1
<1>3. ASSUME \A i, j \in DOMAIN s : s[i] = s[j] => i = j
      PROVE  /\ \A i, j \in DOMAIN u : u[i] = u[j] => i = j
             /\ Head(s) \notin {u[i] : i \in DOMAIN u}
  <2>1. ASSUME NEW i \in DOMAIN u, NEW j \in DOMAIN u, u[i] = u[j]
        PROVE  i = j
    <3>1. i + 1 = j + 1 /\ i \in Nat /\ j \in Nat
      BY <1>1, <1>3, <2>1
    <3>. QED BY <3>1
  <2>2. ASSUME NEW i \in DOMAIN u, u[i] = Head(s)
        PROVE  FALSE
    <3>1. i + 1 = 1 /\ i \in Nat \ {0}
      BY <1>1, <1>3, <2>2
    <3>. QED BY <3>1
  <2>. QED BY <2>1, <2>2
<1>. QED BY <1>2, <1>3 DEF u

(* Reading a page takes its tags from those that are ahead.                *)
LEMMA PageTags ==
  ASSUME SourceInv, acq.step = "list"
  PROVE  LET tags == Tags(Page(acq.page))
             ofPage == {tags[k] : k \in DOMAIN tags}
             after == {releases[i].tag :
                         i \in {j \in Published(releases) : j > acq.page * PageSize}}
         IN /\ tags \in Seq(Tag)
            /\ Ahead = ofPage \cup after /\ ofPage \cap after = {}
            /\ \A k, l \in DOMAIN tags : tags[k] = tags[l] => k = l
            /\ Page(acq.page) = <<>> => after = {} /\ ofPage = {} /\ tags = <<>>
            /\ acq.page \in Nat \ {0}
<1> DEFINE page == Page(acq.page)
           tags == Tags(page)
           ofPage == {tags[k] : k \in DOMAIN tags}
           last == acq.page * PageSize
           after == {releases[i].tag : i \in {j \in Published(releases) : j > last}}
<1>1. /\ acq.page \in Nat \ {0} /\ releases \in Seq(Release)
      /\ \A i, j \in Published(releases) : releases[i].tag = releases[j].tag => i = j
  BY SourceAssumption DEF SourceInv, Acquisition, OneReleasePerTag
<1>2. /\ Offset \in Nat /\ last = Offset + PageSize
      /\ page \in Seq(Release)
      /\ \A k \in DOMAIN page :
           /\ Offset + k \in DOMAIN releases /\ k <= PageSize /\ k \in Nat \ {0}
           /\ page[k] = releases[Offset + k]
      /\ \A i \in DOMAIN releases :
           Offset < i /\ i <= Offset + PageSize => i - Offset \in DOMAIN page
      /\ page = <<>> => \A i \in DOMAIN releases : i <= Offset
  BY <1>1, PageOfReleases DEF Offset
<1> HIDE DEF page, last
<1>3. /\ tags \in Seq(Tag)
      /\ \A k \in DOMAIN tags : \E i \in Published(page) : tags[k] = page[i].tag
      /\ \A i \in Published(page) : \E k \in DOMAIN tags : tags[k] = page[i].tag
      /\ (\A i, j \in Published(page) : page[i].tag = page[j].tag => i = j) =>
           \A k, l \in DOMAIN tags : tags[k] = tags[l] => k = l
  BY <1>2, TagsOfPage
<1> HIDE DEF tags
<1> DEFINE here == {j \in Published(releases) : Offset < j /\ j <= last}
<1>4. \A k \in Published(page) :
        Offset + k \in here /\ page[k].tag = releases[Offset + k].tag /\ k \in Nat
  <2>1. SUFFICES ASSUME NEW k \in Published(page)
                 PROVE  /\ Offset + k \in here
                        /\ page[k].tag = releases[Offset + k].tag /\ k \in Nat
    OBVIOUS
  <2>2. k \in DOMAIN page /\ ~page[k].draft
    BY DEF Published
  <2>3. Offset + k \in Published(releases) /\ page[k] = releases[Offset + k]
    BY <1>2, <2>2 DEF Published
  <2>4. Offset < Offset + k /\ Offset + k <= last /\ k \in Nat
    BY <1>2, <2>2, SourceAssumption
  <2>. QED BY <2>3, <2>4
<1>5. \A i \in here : i \in Nat /\ i - Offset \in Published(page)
                      /\ page[i - Offset].tag = releases[i].tag
  <2>1. SUFFICES ASSUME NEW i \in here
                 PROVE  i \in Nat /\ i - Offset \in Published(page)
                        /\ page[i - Offset].tag = releases[i].tag
    OBVIOUS
  <2>2. i \in DOMAIN releases /\ ~releases[i].draft /\ i \in Nat
    BY <1>1 DEF Published
  <2>3. i - Offset \in DOMAIN page /\ Offset + (i - Offset) = i
    BY <1>2, <2>2
  <2>. QED BY <1>2, <2>2, <2>3 DEF Published
<1>6. ofPage = {releases[i].tag : i \in here}
  <2>1. ASSUME NEW k \in DOMAIN tags
        PROVE  \E i \in here : tags[k] = releases[i].tag
    <3>1. PICK i \in Published(page) : tags[k] = page[i].tag
      BY <1>3
    <3>2. Offset + i \in here /\ tags[k] = releases[Offset + i].tag
      BY <1>4, <3>1
    <3>. QED BY <3>2
  <2>2. \A i \in here : \E k \in DOMAIN tags : tags[k] = releases[i].tag
    BY <1>3, <1>5
  <2>. QED BY <2>1, <2>2
<1>7. \A i \in Published(releases) : i \in Nat
  BY <1>1 DEF Published
<1>8. Ahead = ofPage \cup after
  <2>1. Ahead = {releases[i].tag : i \in {j \in Published(releases) : j > Offset}}
    BY DEF Ahead
  <2>2. {j \in Published(releases) : j > Offset} =
          here \cup {j \in Published(releases) : j > last}
    BY <1>2, <1>7, SourceAssumption
  <2>. QED BY <1>6, <2>1, <2>2
<1>9. ofPage \cap after = {}
  <2>1. SUFFICES ASSUME NEW i \in here, NEW j \in Published(releases), j > last,
                        releases[i].tag = releases[j].tag
                 PROVE  FALSE
    BY <1>6
  <2>2. i = j
    BY <1>1, <2>1
  <2>. QED BY <1>2, <1>7, <2>1, <2>2
<1>10. \A k, l \in DOMAIN tags : tags[k] = tags[l] => k = l
  <2>1. ASSUME NEW i \in Published(page), NEW j \in Published(page), page[i].tag = page[j].tag
        PROVE  i = j
    <3>1. Offset + i = Offset + j /\ i \in Nat /\ j \in Nat
      BY <1>1, <1>4, <2>1
    <3>. QED BY <1>2, <3>1
  <2>. QED BY <1>3, <2>1
<1>11. page = <<>> => after = {} /\ ofPage = {} /\ tags = <<>>
  <2>1. SUFFICES ASSUME page = <<>>
                 PROVE  after = {} /\ ofPage = {} /\ tags = <<>>
    OBVIOUS
  <2>2. \A i \in Published(releases) : ~(i > Offset)
    BY <1>2, <1>7, <2>1 DEF Published
  <2>3. after = {} /\ here = {}
    BY <1>2, <1>7, <2>2, SourceAssumption
  <2>4. ofPage = {}
    BY <1>6, <2>3
  <2>5. DOMAIN tags = {} /\ DOMAIN tags = 1..Len(tags) /\ Len(tags) \in Nat
    BY <1>3, <2>4
  <2>6. Len(tags) = 0
    BY <2>5
  <2>. QED BY <1>3, <2>3, <2>4, <2>6, EmptySeq
<1>. QED BY <1>1, <1>3, <1>8, <1>9, <1>10, <1>11 DEF tags, page, last

(* What is still ahead of a listing is published.                          *)
LEMMA AheadIsPublished ==
  Ahead \subseteq PublishedTags
BY DEF Ahead, PublishedTags

(* What it takes for any other step of an acquisition.                     *)
LEMMA ListingGoesOn ==
  ASSUME SourceInv, Become(acq'), acq' \in Acquisition, ~Ended,
         acq'.kind = acq.kind, StepFits', CommitsAreTrue',
         acq.kind = "release" =>
           /\ Covered' \subseteq Covered \cup Ahead
           /\ Covered \cup Ahead \subseteq Covered' \cup Ahead' \/ PublishedTags \subseteq Ahead'
           /\ Distinct => Distinct'
  PROVE  SourceInv'
<1>1. UNCHANGED <<releases, tagAt, changes, cache, cancelled, seen>>
  BY DEF Become, world
<1>2. SeenTypeOK' /\ OneReleasePerTag' /\ PublishedTags' = PublishedTags
  BY <1>1 DEF SourceInv, SeenTypeOK, OneReleasePerTag, PublishedTags, Published
<1>3. SeenIsCurrent'
  BY <1>1, <1>2 DEF SourceInv, SeenIsCurrent
<1>4. ListingFits'
  <2>1. SUFFICES ASSUME acq.kind = "release"
                 PROVE  /\ Covered' \subseteq seen.ever
                        /\ ~seen.removed => seen.throughout \subseteq Covered' \cup Ahead'
                        /\ ~seen.added => Distinct'
    BY <1>1 DEF ListingFits
  <2>2. /\ Covered \subseteq seen.ever
        /\ ~seen.removed => seen.throughout \subseteq Covered \cup Ahead
        /\ ~seen.added => Distinct
    BY <2>1 DEF SourceInv, ListingFits, Ended
  <2>3. PublishedTags \subseteq seen.ever /\ seen.throughout \subseteq PublishedTags
    BY <2>1 DEF SourceInv, SeenIsCurrent
  <2>. QED BY <2>1, <2>2, <2>3, AheadIsPublished
<1>. QED BY <1>1, <1>2, <1>3, <1>4 DEF SourceInv

(* The repository exists.                                                  *)
LEMMA VerifyKeeps ==
  ASSUME SourceInv, Verify
  PROVE  SourceInv'
<1> DEFINE next == IF acq.kind = "release" THEN "list" ELSE "tag"
           batch == IF acq.kind = "release" THEN <<>> ELSE <<acq.ref>>
           a == [acq EXCEPT !.attempt = 1, !.step = next, !.batch = batch]
<1>1. acq \in Acquisition /\ StepFits /\ CommitsAreTrue /\ acq.step = "verify"
  BY DEF SourceInv, Verify, Answered, At
<1>2. acq.kind \in {"release", "git"} /\ acq.batch = <<>>
  BY <1>1 DEF StepFits, Acquisition
<1>3. batch \in Seq(Tag) /\ next \in Steps /\ 1 \in 1..MaxAttempts
  BY <1>1, <1>2, SourceAssumption DEF StepFits, Steps, Requests
<1>4. batch # <<>> <=> next = "tag"
  BY <1>2, EmptySeq
<1>5. next \in {"list", "tag"} /\ (next = "list" <=> acq.kind = "release")
  OBVIOUS
<1>6. acq.kind = "release" => batch = acq.batch
  BY <1>2
<1> HIDE DEF next, batch
<1>7. /\ a \in Acquisition /\ a.step = next /\ a.batch = batch
      /\ a.kind = acq.kind /\ a.transport = acq.transport /\ a.page = acq.page
      /\ a.listed = acq.listed /\ a.out = acq.out /\ a.ref = acq.ref /\ a.wanted = acq.wanted
  BY <1>1, <1>3 DEF Acquisition
<1>8. Become(a)
  BY DEF Verify, next, batch
<1> HIDE DEF a
<1>9. acq' = a /\ UNCHANGED <<releases, seen>>
  BY <1>8 DEF Become, world
<1>10. StepFits'
  BY <1>1, <1>2, <1>4, <1>5, <1>7, <1>9 DEF StepFits, GitCommands, Fetching, Reads
<1>11. CommitsAreTrue'
  <2>1. \A t, c : Pointed(t, c)' <=> Pointed(t, c)
    BY <1>7, <1>9 DEF Pointed
  <2>. QED BY <1>1, <1>5, <1>7, <1>9, <2>1 DEF CommitsAreTrue, Reads, Pointed
<1>12. ASSUME acq.kind = "release"
       PROVE  /\ Covered' = Covered /\ Ahead' = Ahead
              /\ Distinct => Distinct'
  <2>1. Ahead' = Ahead /\ Waiting' = Waiting /\ Known' = Known /\ AtWork' = AtWork /\ Kept' = Kept
    BY <1>1, <1>5, <1>6, <1>7, <1>9, <1>12
       DEF Ahead, Waiting, Known, AtWork, Kept, Fetching, Reads, Offset
  <2>. QED BY <1>6, <1>7, <1>9, <1>12, <2>1 DEF Distinct, Covered
<1>. QED BY <1>1, <1>7, <1>8, <1>9, <1>10, <1>11, <1>12, ListingGoesOn DEF Ended

(* A page of the listing, for the system git.                              *)
LEMMA ListTagsKeeps ==
  ASSUME SourceInv, ListTags
  PROVE  SourceInv'
<1> DEFINE page == Page(acq.page)
           tags == Tags(page)
           ofPage == {tags[k] : k \in DOMAIN tags}
           after == {releases[i].tag :
                       i \in {j \in Published(releases) : j > acq.page * PageSize}}
           new == [i \in DOMAIN tags |-> Listed(tags[i], NoCommit)]
           next == IF page = <<>> THEN "next" ELSE "list"
           number == IF page = <<>> THEN acq.page ELSE acq.page + 1
           a == [acq EXCEPT !.attempt = 1, !.step = next, !.page = number,
                            !.listed = acq.listed \o new]
           Entry == [tag: Tag, commit: Commit \cup {NoCommit}]
<1>1. /\ acq \in Acquisition /\ StepFits /\ CommitsAreTrue /\ acq.step = "list"
      /\ acq.transport = "git" /\ acq.page <= MaxPages
  BY DEF SourceInv, ListTags, Answered, At
<1>2. acq.kind = "release" /\ acq.batch = <<>> /\ acq.out = <<>>
  BY <1>1 DEF StepFits
<1>3. /\ tags \in Seq(Tag)
      /\ Ahead = ofPage \cup after /\ ofPage \cap after = {}
      /\ \A k, l \in DOMAIN tags : tags[k] = tags[l] => k = l
      /\ page = <<>> => after = {} /\ ofPage = {} /\ tags = <<>>
      /\ acq.page \in Nat \ {0}
  BY <1>1, PageTags
<1>4. number \in 1..(MaxPages + 1) /\ next \in Steps /\ 1 \in 1..MaxAttempts
  BY <1>1, <1>3, SourceAssumption DEF Steps, Requests
<1>5. /\ new \in Seq(Entry) /\ DOMAIN new = DOMAIN tags
      /\ \A i \in DOMAIN new : new[i].tag = tags[i]
  <2>1. DOMAIN tags = 1..Len(tags) /\ Len(tags) \in Nat
    BY <1>3
  <2>2. \A i \in DOMAIN tags : tags[i] \in Tag
    BY <1>3, ElementOfSeq
  <2>. QED BY <2>1, <2>2 DEF Listed
<1>6. Become(a)
  BY DEF ListTags
<1>7. page # <<>> => after = {releases[i].tag :
                       i \in {j \in Published(releases) : j > (number - 1) * PageSize}}
  BY <1>3
<1>8. /\ next \in {"next", "list"}
      /\ next = "next" <=> page = <<>>
  OBVIOUS
<1> HIDE DEF next, number, tags, new, page
<1>9. acq.listed \in Seq(Entry) /\ acq.listed \o new \in Seq(Entry)
  BY <1>1, <1>5, ConcatProperties DEF Acquisition
<1>10. /\ a \in Acquisition /\ a.step = next /\ a.page = number /\ a.listed = acq.listed \o new
       /\ a.kind = acq.kind /\ a.transport = acq.transport /\ a.batch = acq.batch
       /\ a.out = acq.out /\ a.ref = acq.ref /\ a.wanted = acq.wanted
  BY <1>1, <1>4, <1>9 DEF Acquisition
<1> HIDE DEF a
<1>11. acq' = a /\ UNCHANGED <<releases, seen>>
  BY <1>6 DEF Become, world
<1>12. StepFits'
  BY <1>1, <1>2, <1>8, <1>10, <1>11 DEF StepFits, GitCommands, Fetching, Reads
<1>13. CommitsAreTrue'
  BY <1>1, <1>2, <1>8, <1>10, <1>11 DEF CommitsAreTrue, Reads
<1>14. /\ Waiting = {} /\ AtWork = {} /\ Kept = {}
       /\ Waiting' = {} /\ AtWork' = {} /\ Kept' = {}
  BY <1>1, <1>2, <1>8, <1>10, <1>11 DEF Waiting, AtWork, Kept, TagsIn, Fetching, Reads
<1>15. TagsIn(new) = ofPage
  BY <1>5 DEF TagsIn
<1>16. /\ Known' = Known \cup ofPage
       /\ EachTagOnce(acq.listed) /\ EachTagOnce(new) /\ Known \cap ofPage = {} =>
            EachTagOnce(acq'.listed)
  <2> DEFINE both == acq.listed \o new
  <2>1. /\ TagsIn(both) = TagsIn(acq.listed) \cup TagsIn(new)
        /\ EachTagOnce(acq.listed) /\ EachTagOnce(new)
             /\ TagsIn(acq.listed) \cap TagsIn(new) = {} => EachTagOnce(both)
    <3> HIDE DEF Entry
    <3>. QED BY <1>5, <1>9, JoinedTags
  <2>2. acq'.listed = both
    BY <1>10, <1>11
  <2> HIDE DEF both, ofPage
  <2>3. Known' = Known \cup ofPage
    BY <1>15, <2>1, <2>2 DEF Known
  <2>. QED BY <1>15, <2>1, <2>2, <2>3 DEF Known
<1>17. Ahead' = after
  <2>1. CASE page = <<>>
    BY <1>3, <1>8, <1>10, <1>11, <2>1 DEF Ahead
  <2>2. CASE page # <<>>
    BY <1>7, <1>8, <1>10, <1>11, <2>2 DEF Ahead, Offset, Published
  <2>. QED BY <2>1, <2>2
<1> HIDE DEF ofPage, after
<1>18. ASSUME Distinct
       PROVE  Distinct'
  <2>1. Known \cap ofPage = {} /\ Known \cap after = {}
    BY <1>3, <1>18 DEF Distinct, Covered
  <2>2. EachTagOnce(acq'.listed)
    <3>1. EachTagOnce(new)
      BY <1>3, <1>5 DEF EachTagOnce
    <3>. QED BY <1>16, <1>18, <2>1, <3>1 DEF Distinct
  <2>3. acq'.batch = <<>> /\ acq'.out = <<>>
    BY <1>2, <1>10, <1>11
  <2>. QED BY <1>3, <1>14, <1>16, <1>17, <2>1, <2>2, <2>3 DEF Distinct, Covered, EachTagOnce
<1>19. Covered' \subseteq Covered \cup Ahead /\ Covered \cup Ahead \subseteq Covered' \cup Ahead'
  BY <1>3, <1>14, <1>16, <1>17 DEF Covered
<1>. QED BY <1>1, <1>6, <1>10, <1>11, <1>12, <1>13, <1>18, <1>19, ListingGoesOn DEF Ended

(* A page of the listing, for the REST API.                                *)
LEMMA ListFactsKeeps ==
  ASSUME SourceInv, ListFacts
  PROVE  SourceInv'
<1> DEFINE page == Page(acq.page)
           tags == Tags(page)
           ofPage == {tags[k] : k \in DOMAIN tags}
           after == {releases[i].tag :
                       i \in {j \in Published(releases) : j > acq.page * PageSize}}
           next == IF page = <<>> THEN "next" ELSE IF tags = <<>> THEN "list" ELSE "tag"
           number == IF page = <<>> THEN acq.page ELSE acq.page + 1
           a == [acq EXCEPT !.attempt = 1, !.step = next, !.page = number, !.batch = tags]
<1>1. /\ acq \in Acquisition /\ StepFits /\ CommitsAreTrue /\ acq.step = "list"
      /\ acq.transport = "rest" /\ acq.page <= MaxPages
  BY DEF SourceInv, ListFacts, Answered, At
<1>2. acq.kind = "release" /\ acq.batch = <<>> /\ acq.out = <<>>
  BY <1>1 DEF StepFits
<1>3. /\ tags \in Seq(Tag)
      /\ Ahead = ofPage \cup after /\ ofPage \cap after = {}
      /\ \A k, l \in DOMAIN tags : tags[k] = tags[l] => k = l
      /\ page = <<>> => after = {} /\ ofPage = {} /\ tags = <<>>
      /\ acq.page \in Nat \ {0}
  BY <1>1, PageTags
<1>4. /\ next \in {"next", "list", "tag"}
      /\ next = "next" <=> page = <<>>
      /\ tags # <<>> <=> next = "tag"
  <2>1. page = <<>> => tags = <<>>
    BY <1>3
  <2> HIDE DEF page, tags
  <2>2. CASE page = <<>>
    BY <2>1, <2>2
  <2>3. CASE page # <<>> /\ tags = <<>>
    BY <2>3
  <2>4. CASE page # <<>> /\ tags # <<>>
    BY <2>4
  <2>. QED BY <2>2, <2>3, <2>4
<1>5. number \in 1..(MaxPages + 1) /\ next \in Steps /\ 1 \in 1..MaxAttempts
  BY <1>1, <1>3, <1>4, SourceAssumption DEF Steps, Requests
<1>6. Become(a)
  BY DEF ListFacts
<1>7. page # <<>> => after = {releases[i].tag :
                       i \in {j \in Published(releases) : j > (number - 1) * PageSize}}
  BY <1>3
<1> HIDE DEF next, number, tags, page
<1>10. /\ a \in Acquisition /\ a.step = next /\ a.page = number /\ a.batch = tags
       /\ a.kind = acq.kind /\ a.transport = acq.transport /\ a.listed = acq.listed
       /\ a.out = acq.out /\ a.ref = acq.ref /\ a.wanted = acq.wanted
  BY <1>1, <1>3, <1>5 DEF Acquisition
<1> HIDE DEF a
<1>11. acq' = a /\ UNCHANGED <<releases, seen>>
  BY <1>6 DEF Become, world
<1>12. StepFits'
  BY <1>1, <1>2, <1>4, <1>10, <1>11 DEF StepFits, GitCommands, Fetching, Reads
<1>13. CommitsAreTrue'
  <2>1. \A t, c : Pointed(t, c)' <=> Pointed(t, c)
    BY <1>10, <1>11 DEF Pointed
  <2>2. acq'.listed = acq.listed /\ acq'.out = <<>> /\ acq'.step \notin Reads \cup {"store", "keep"}
    BY <1>2, <1>4, <1>10, <1>11 DEF Reads
  <2>. QED BY <1>1, <2>1, <2>2 DEF CommitsAreTrue, Reads
<1>14. /\ Waiting = {} /\ AtWork = {} /\ Kept = {}
       /\ Waiting' = ofPage /\ AtWork' = {} /\ Kept' = {} /\ Known' = Known
  BY <1>1, <1>2, <1>4, <1>10, <1>11 DEF Waiting, AtWork, Kept, Known, TagsIn, Fetching, Reads
<1>15. Ahead' = after
  <2>1. CASE page = <<>>
    BY <1>3, <1>4, <1>10, <1>11, <2>1 DEF Ahead
  <2>2. CASE page # <<>>
    BY <1>4, <1>7, <1>10, <1>11, <2>2 DEF Ahead, Offset, Published
  <2>. QED BY <2>1, <2>2
<1> HIDE DEF ofPage, after
<1>16. ASSUME Distinct
       PROVE  Distinct'
  <2>1. Known \cap ofPage = {} /\ Known \cap after = {}
    BY <1>3, <1>16 DEF Distinct, Covered
  <2>2. EachTagOnce(acq'.listed)
    BY <1>10, <1>11, <1>16 DEF Distinct
  <2>3. acq'.batch = tags /\ acq'.out = <<>>
    BY <1>2, <1>10, <1>11
  <2>. QED BY <1>3, <1>14, <1>15, <2>1, <2>2, <2>3 DEF Distinct, Covered, EachTagOnce
<1>17. Covered' \subseteq Covered \cup Ahead /\ Covered \cup Ahead \subseteq Covered' \cup Ahead'
  BY <1>3, <1>14, <1>15 DEF Covered
<1>. QED BY <1>1, <1>6, <1>10, <1>11, <1>12, <1>13, <1>16, <1>17, ListingGoesOn DEF Ended

(* The commit of the next tag that waits.                                  *)
LEMMA ResolveTagKeeps ==
  ASSUME SourceInv, ResolveTag
  PROVE  SourceInv'
<1> DEFINE tag == Head(acq.batch)
           rest == Tail(acq.batch)
           new == Listed(tag, tagAt[tag])
           next == IF rest # <<>> THEN "tag" ELSE IF acq.kind = "release" THEN "list" ELSE "next"
           listed == Append(acq.listed, new)
           a == [acq EXCEPT !.attempt = 1, !.step = next, !.batch = rest, !.listed = listed]
           Entry == [tag: Tag, commit: Commit \cup {NoCommit}]
<1>1. /\ acq \in Acquisition /\ StepFits /\ CommitsAreTrue /\ acq.step = "tag"
      /\ tagAt \in [Tag -> Commit \cup {NoCommit}] /\ tagAt[tag] # NoCommit /\ Become(a)
  BY DEF SourceInv, ResolveTag, Answered, At
<1>2. acq.batch # <<>> /\ acq.kind # "exact" /\ acq.out = <<>> /\ acq.batch \in Seq(Tag)
  BY <1>1 DEF StepFits, Acquisition
<1>3. tag \in Tag /\ rest \in Seq(Tag)
  BY <1>2, HeadAndTail
<1>4. /\ Waiting = {tag} \cup {rest[i] : i \in DOMAIN rest}
      /\ (\A i, j \in DOMAIN acq.batch : acq.batch[i] = acq.batch[j] => i = j) =>
           /\ \A i, j \in DOMAIN rest : rest[i] = rest[j] => i = j
           /\ tag \notin {rest[i] : i \in DOMAIN rest}
  BY <1>2, FirstAndOthers DEF Waiting
<1>5. tagAt[tag] \in Commit /\ tagAt[tag] \in seen.pointed[tag]
  BY <1>1, <1>2, <1>3 DEF SourceInv, SeenIsCurrent, Ended
<1>6. new \in Entry /\ new.tag = tag /\ new.commit = tagAt[tag]
  BY <1>3, <1>5 DEF Listed
<1>7. next \in {"tag", "list", "next"} /\ (next = "tag" <=> rest # <<>>)
      /\ (next = "list" => acq.kind = "release")
      /\ (acq.kind = "release" => next # "next")
  OBVIOUS
<1> HIDE DEF tag, rest, new, next
<1>8. /\ acq.listed \in Seq(Entry) /\ listed \in Seq(Entry)
      /\ \A i \in DOMAIN listed :
           listed[i] = new \/ (i \in DOMAIN acq.listed /\ listed[i] = acq.listed[i])
      /\ TagsIn(listed) = TagsIn(acq.listed) \cup {new.tag}
      /\ EachTagOnce(acq.listed) /\ new.tag \notin TagsIn(acq.listed) => EachTagOnce(listed)
  <2>1. acq.listed \in Seq(Entry)
    BY <1>1 DEF Acquisition
  <2> HIDE DEF Entry, a
  <2>2. new \in Entry
    BY <1>6
  <2>. QED BY <2>1, <2>2, OneMoreTag
<1>9. next \in Steps /\ 1 \in 1..MaxAttempts
  BY <1>7, SourceAssumption DEF Steps, Requests
<1> HIDE DEF listed
<1>10. /\ a \in Acquisition /\ a.step = next /\ a.batch = rest /\ a.listed = listed
       /\ a.kind = acq.kind /\ a.transport = acq.transport /\ a.page = acq.page
       /\ a.out = acq.out /\ a.ref = acq.ref /\ a.wanted = acq.wanted
  BY <1>1, <1>3, <1>8, <1>9 DEF Acquisition
<1> HIDE DEF a
<1>11. acq' = a /\ UNCHANGED <<releases, seen>>
  BY <1>1 DEF Become, world
<1>12. StepFits'
  BY <1>1, <1>2, <1>7, <1>10, <1>11 DEF StepFits, GitCommands, Fetching, Reads
<1>13. CommitsAreTrue'
  <2>1. \A t, c : Pointed(t, c)' <=> Pointed(t, c)
    BY <1>10, <1>11 DEF Pointed
  <2>2. acq'.listed = listed /\ acq'.out = <<>> /\ acq'.step \notin Reads \cup {"store", "keep"}
    BY <1>2, <1>7, <1>10, <1>11 DEF Reads
  <2>3. Pointed(new.tag, new.commit)
    BY <1>2, <1>5, <1>6 DEF Pointed
  <2>4. acq.transport = "rest" =>
          \A i \in DOMAIN listed : Pointed(listed[i].tag, listed[i].commit)
    BY <1>1, <1>8, <2>3 DEF CommitsAreTrue
  <2>. QED BY <1>10, <1>11, <2>1, <2>2, <2>4 DEF CommitsAreTrue, Reads
<1>14. ASSUME acq.kind = "release"
       PROVE  /\ Covered' = Covered /\ Ahead' = Ahead
              /\ Distinct => Distinct'
  <2>1. Waiting' = {rest[i] : i \in DOMAIN rest} /\ Known' = Known \cup {tag}
    <3>1. acq'.batch = rest /\ acq'.listed = listed
      BY <1>10, <1>11
    <3>. QED BY <1>6, <1>8, <3>1 DEF Waiting, Known
  <2>2. Ahead' = Ahead /\ AtWork = {} /\ AtWork' = {} /\ Kept = {} /\ Kept' = {}
    BY <1>1, <1>2, <1>7, <1>10, <1>11, <1>14
       DEF Ahead, AtWork, Kept, TagsIn, Fetching, Reads, Offset
  <2>3. Covered' = Covered
    BY <1>4, <2>1, <2>2 DEF Covered
  <2>4. ASSUME Distinct
        PROVE  Distinct'
    <3>1. tag \notin Known /\ Known \cap Waiting = {} /\ tag \notin Waiting'
      BY <1>4, <2>1, <2>4 DEF Distinct
    <3>2. EachTagOnce(listed)
      BY <1>6, <1>8, <2>4, <3>1 DEF Distinct, Known
    <3>3. acq'.batch = rest /\ acq'.listed = listed /\ acq'.out = <<>>
      BY <1>2, <1>10, <1>11
    <3>4. \A i, j \in DOMAIN acq'.batch : acq'.batch[i] = acq'.batch[j] => i = j
      BY <1>4, <2>4, <3>3 DEF Distinct
    <3>5. Waiting' \cap (Known' \cup AtWork' \cup Kept') = {}
      BY <1>4, <2>1, <2>2, <3>1
    <3>6. Ahead' \cap Covered' = {}
      BY <2>2, <2>3, <2>4 DEF Distinct
    <3>. QED BY <2>2, <3>2, <3>3, <3>4, <3>5, <3>6 DEF Distinct, EachTagOnce
  <2>. QED BY <2>2, <2>3, <2>4
<1>. QED BY <1>1, <1>10, <1>11, <1>12, <1>13, <1>14, ListingGoesOn DEF Ended

(* Git cannot be used, and all starts anew with the REST API.              *)
LEMMA GitFailsKeeps ==
  ASSUME SourceInv, GitFails
  PROVE  SourceInv'
<1> DEFINE next == IF acq.kind = "release" THEN "list" ELSE "verify"
           a == FellBack(acq)
<1>1. /\ acq \in Acquisition /\ StepFits /\ CommitsAreTrue
      /\ acq.step \in GitCommands
  BY DEF SourceInv, GitFails
<1>2. SUFFICES ASSUME Become(a)
               PROVE  SourceInv'
  BY FailKeeps DEF GitFails
<1>3. acq.kind \in {"release", "git"} /\ acq.ref \in Tag /\ acq.batch = <<>>
  BY <1>1 DEF StepFits, Acquisition, GitCommands, Fetching, Reads
<1>4. /\ next \in Steps \cap {"list", "verify"} /\ 1 \in 1..MaxAttempts /\ 1 \in 1..(MaxPages + 1)
      /\ next = "list" <=> acq.kind = "release"
  BY SourceAssumption DEF Steps, Requests
<1>5. /\ <<>> \in Seq(Acquired) /\ <<>> \in Seq([tag: Tag, commit: Commit \cup {NoCommit}])
      /\ "rest" \in {"git", "rest"}
  OBVIOUS
<1> HIDE DEF next
<1>6. a = [acq EXCEPT !.transport = "rest", !.step = next,
                      !.listed = <<>>, !.out = <<>>, !.page = 1, !.attempt = 1]
  BY DEF FellBack, next
<1>7. /\ a \in Acquisition /\ a.step = next /\ a.transport = "rest" /\ a.listed = <<>>
      /\ a.out = <<>> /\ a.page = 1 /\ a.kind = acq.kind /\ a.batch = <<>> /\ a.ref = acq.ref
  <2>1. a \in Acquisition
    <3> DEFINE Names == Seq(Tag)
               Listing == Seq([tag: Tag, commit: Commit \cup {NoCommit}])
               Output == Seq(Acquired)
    <3>1. Acquisition =
            [kind: {"release", "git", "exact"}, step: Steps, transport: {"git", "rest"},
             page: 1..(MaxPages + 1), batch: Names, listed: Listing, out: Output,
             attempt: 1..MaxAttempts, remote: {"ssh", "https"},
             ref: Tag \cup {NoCommit}, commit: Commit \cup {NoCommit},
             content: Commit \cup {NoCommit}, wanted: Commit \cup {NoCommit}]
      BY DEF Acquisition
    <3>2. <<>> \in Listing /\ <<>> \in Output
      BY <1>5
    <3> HIDE DEF Names, Listing, Output
    <3>3. a = [kind |-> acq.kind, step |-> next, transport |-> "rest", page |-> 1,
               batch |-> acq.batch, listed |-> <<>>, out |-> <<>>, attempt |-> 1,
               remote |-> acq.remote, ref |-> acq.ref, commit |-> acq.commit,
               content |-> acq.content, wanted |-> acq.wanted]
      BY <1>1, <1>6, <3>1
    <3>4. /\ acq.kind \in {"release", "git", "exact"} /\ acq.batch \in Names
          /\ acq.remote \in {"ssh", "https"} /\ acq.ref \in Tag \cup {NoCommit}
          /\ acq.commit \in Commit \cup {NoCommit} /\ acq.content \in Commit \cup {NoCommit}
          /\ acq.wanted \in Commit \cup {NoCommit}
      BY <1>1, <3>1
    <3>. QED BY <1>4, <3>1, <3>2, <3>3, <3>4
  <2>2. /\ a.step = next /\ a.transport = "rest" /\ a.listed = <<>>
        /\ a.out = <<>> /\ a.page = 1 /\ a.kind = acq.kind /\ a.ref = acq.ref
        /\ a.batch = acq.batch
    BY <1>1, <1>6 DEF Acquisition
  <2>. QED BY <1>3, <2>1, <2>2
<1> HIDE DEF a
<1>8. acq' = a /\ UNCHANGED <<releases, seen>>
  BY <1>2 DEF Become, world
<1>9. StepFits'
  BY <1>3, <1>4, <1>7, <1>8 DEF StepFits, GitCommands, Fetching, Reads
<1>10. CommitsAreTrue'
  BY <1>4, <1>7, <1>8 DEF CommitsAreTrue, Reads
<1>11. /\ Waiting' = {} /\ Known' = {} /\ AtWork' = {} /\ Kept' = {}
  BY <1>4, <1>7, <1>8 DEF Waiting, Known, AtWork, Kept, TagsIn, Fetching, Reads
<1>12. Ahead' = PublishedTags
  <2>1. Offset' = 0
    BY <1>7, <1>8, SourceAssumption DEF Offset
  <2>2. \A j \in Published(releases) : j > 0
    BY DEF SourceInv, Published
  <2>3. {j \in Published(releases') : j > Offset'} = Published(releases)
    BY <1>8, <2>1, <2>2
  <2>. QED BY <1>4, <1>7, <1>8, <2>3 DEF Ahead, PublishedTags
<1>13. Distinct' /\ Covered' = {}
  BY <1>7, <1>8, <1>11 DEF Distinct, EachTagOnce, Covered
<1>. QED BY <1>1, <1>2, <1>7, <1>8, <1>9, <1>10, <1>12, <1>13, ListingGoesOn
        DEF Ended, GitCommands

(* The next commit to acquire.                                             *)
LEMMA TakeNextKeeps ==
  ASSUME SourceInv, TakeNext
  PROVE  SourceInv'
<1> DEFINE Entry == [tag: Tag, commit: Commit \cup {NoCommit}]
           first == Head(acq.listed)
           rest == Tail(acq.listed)
           next == IF acq.transport = "git" THEN "init" ELSE "lookup"
           a == [acq EXCEPT !.listed = rest, !.ref = first.tag, !.commit = first.commit,
                            !.step = next]
           b == [acq EXCEPT !.step = "done", !.attempt = 1]
<1>1. /\ acq \in Acquisition /\ StepFits /\ CommitsAreTrue /\ acq.step = "next"
      /\ acq.listed \in Seq(Entry)
  BY DEF SourceInv, TakeNext, At, Acquisition
<1>2. acq.batch = <<>>
  BY <1>1 DEF StepFits
<1>3. Ahead = {} /\ AtWork = {} /\ Waiting = {}
  BY <1>1, <1>2 DEF Ahead, AtWork, Waiting, Fetching, Reads
<1>4. CASE acq.listed = <<>>
  <2>1. Become(b)
    BY <1>4 DEF TakeNext, GoTo
  <2>2. "done" \in Steps /\ 1 \in 1..MaxAttempts
    BY SourceAssumption DEF Steps
  <2>3. /\ b \in Acquisition /\ b.step = "done" /\ b.kind = acq.kind
        /\ b.transport = acq.transport /\ b.batch = acq.batch /\ b.listed = acq.listed
        /\ b.out = acq.out /\ b.wanted = acq.wanted
    BY <1>1, <2>2 DEF Acquisition
  <2> HIDE DEF b
  <2>4. acq' = b /\ seen' = seen
    BY <2>1 DEF Become
  <2>5. StepFits'
    BY <1>1, <1>2, <1>4, <2>3, <2>4 DEF StepFits, GitCommands, Fetching, Reads
  <2>6. CommitsAreTrue'
    <3>1. \A t, c : Pointed(t, c)' <=> Pointed(t, c)
      BY <2>3, <2>4 DEF Pointed
    <3>. QED BY <1>1, <2>3, <2>4, <3>1 DEF CommitsAreTrue, Reads
  <2>7. /\ Waiting' = Waiting /\ Known' = Known /\ AtWork' = AtWork /\ Kept' = Kept
        /\ Ahead' = Ahead
    BY <1>3, <2>3, <2>4 DEF Ahead, Waiting, Known, AtWork, Kept, Fetching, Reads
  <2>8. Covered' = Covered /\ (Distinct => Distinct')
    BY <2>3, <2>4, <2>7 DEF Distinct, Covered
  <2>. QED BY <1>1, <2>1, <2>3, <2>4, <2>5, <2>6, <2>7, <2>8, ListingGoesOn DEF Ended
<1>5. CASE acq.listed # <<>>
  <2>1. Become(a)
    BY <1>5 DEF TakeNext
  <2>2. /\ first \in Entry /\ rest \in Seq(Entry)
        /\ 1 \in DOMAIN acq.listed /\ acq.listed[1] = first
        /\ \A i \in DOMAIN rest : i + 1 \in DOMAIN acq.listed /\ rest[i] = acq.listed[i + 1]
    <3> HIDE DEF Entry
    <3>. QED BY <1>1, <1>5, HeadAndTail
  <2>3. /\ Known = {first.tag} \cup TagsIn(rest)
        /\ EachTagOnce(acq.listed) => EachTagOnce(rest) /\ first.tag \notin TagsIn(rest)
    <3> HIDE DEF Entry
    <3>. QED BY <1>1, <1>5, FirstTagAndOthers DEF Known
  <2>4. acq.transport = "rest" => Pointed(first.tag, first.commit)
    BY <1>1, <2>2 DEF CommitsAreTrue
  <2>5. first.tag \in Tag /\ first.commit \in Commit \cup {NoCommit}
    BY <2>2
  <2>6. /\ next \in Steps \cap {"init", "lookup"}
        /\ next = "init" <=> acq.transport = "git"
    BY DEF Steps, GitCommands
  <2> HIDE DEF first, rest, next
  <2>7. /\ a \in Acquisition /\ a.step = next /\ a.kind = acq.kind
        /\ a.transport = acq.transport /\ a.batch = acq.batch /\ a.listed = rest
        /\ a.out = acq.out /\ a.wanted = acq.wanted
        /\ a.ref = first.tag /\ a.commit = first.commit
    BY <1>1, <2>2, <2>5, <2>6 DEF Acquisition
  <2> HIDE DEF a
  <2>8. acq' = a /\ seen' = seen
    BY <2>1 DEF Become
  <2>9. StepFits'
    BY <1>1, <1>2, <2>5, <2>6, <2>7, <2>8 DEF StepFits, GitCommands, Fetching, Reads
  <2>10. CommitsAreTrue'
    <3>1. \A t, c : Pointed(t, c)' <=> Pointed(t, c)
      BY <2>7, <2>8 DEF Pointed
    <3>2. acq.transport = "rest" => \A i \in DOMAIN rest : Pointed(rest[i].tag, rest[i].commit)
      BY <1>1, <2>2 DEF CommitsAreTrue
    <3>3. acq.transport \in {"git", "rest"}
      BY <1>1 DEF Acquisition
    <3>. QED BY <1>1, <2>4, <2>6, <2>7, <2>8, <3>1, <3>2, <3>3 DEF CommitsAreTrue, Reads
  <2>11. /\ Waiting' = {} /\ Known' = TagsIn(rest) /\ AtWork' = {first.tag} /\ Kept' = Kept
         /\ Ahead' = {}
    BY <1>2, <2>6, <2>7, <2>8 DEF Ahead, Waiting, Known, AtWork, Kept, Fetching, Reads
  <2>12. Covered' = Covered
    BY <1>3, <2>3, <2>11 DEF Covered
  <2>13. Distinct => Distinct'
    <3>1. acq'.batch = <<>> /\ acq'.listed = rest /\ acq'.out = acq.out
      BY <1>2, <2>7, <2>8
    <3>. QED BY <1>3, <2>3, <2>11, <3>1 DEF Distinct, EachTagOnce
  <2>. QED BY <1>1, <1>3, <2>1, <2>7, <2>8, <2>9, <2>10, <2>12, <2>13, ListingGoesOn DEF Ended
<1>. QED BY <1>4, <1>5

(* What was read is kept; that it differs from what was accepted cannot    *)
(* happen.                                                                 *)
LEMMA KeepKeeps ==
  ASSUME SourceInv, Keep
  PROVE  SourceInv'
<1> DEFINE new == Found(acq)
           out == Append(acq.out, new)
           a == [acq EXCEPT !.step = "next", !.out = out, !.commit = NoCommit, !.content = NoCommit]
<1>1. /\ acq \in Acquisition /\ StepFits /\ CommitsAreTrue /\ acq.step = "keep"
      /\ acq.out \in Seq(Acquired)
  BY DEF SourceInv, Keep, At, Acquisition
<1>2. SUFFICES ASSUME Become(a)
               PROVE  SourceInv'
  BY FailKeeps DEF Keep
<1>3. acq.batch = <<>> /\ acq.ref \in Tag /\ Pointed(acq.ref, acq.commit) /\ acq.content = acq.commit
  BY <1>1 DEF StepFits, CommitsAreTrue, Fetching, Reads
<1>4. /\ new \in Acquired /\ new.tag = acq.ref /\ new.commit = acq.commit
      /\ new.content = acq.commit
  BY <1>3 DEF Found, Acquired, Pointed
<1> HIDE DEF new
<1>5. /\ out \in Seq(Acquired)
      /\ \A i \in DOMAIN out : out[i] = new \/ (i \in DOMAIN acq.out /\ out[i] = acq.out[i])
      /\ TagsIn(out) = TagsIn(acq.out) \cup {new.tag}
      /\ EachTagOnce(acq.out) /\ new.tag \notin TagsIn(acq.out) => EachTagOnce(out)
  BY <1>1, <1>4, OneMoreTag
<1> HIDE DEF out
<1>6. "next" \in Steps
  BY DEF Steps
<1>7. /\ a \in Acquisition /\ a.step = "next" /\ a.kind = acq.kind
      /\ a.transport = acq.transport /\ a.batch = acq.batch /\ a.listed = acq.listed
      /\ a.out = out /\ a.wanted = acq.wanted
  BY <1>1, <1>5, <1>6 DEF Acquisition
<1> HIDE DEF a
<1>8. acq' = a /\ seen' = seen
  BY <1>2 DEF Become
<1>9. StepFits'
  BY <1>1, <1>3, <1>7, <1>8 DEF StepFits, GitCommands, Fetching, Reads
<1>10. CommitsAreTrue'
  <2>1. \A t, c : Pointed(t, c)' <=> Pointed(t, c)
    BY <1>7, <1>8 DEF Pointed
  <2>2. \A i \in DOMAIN out : Pointed(out[i].tag, out[i].commit) /\ out[i].content = out[i].commit
    BY <1>1, <1>3, <1>4, <1>5 DEF CommitsAreTrue
  <2>. QED BY <1>1, <1>7, <1>8, <2>1, <2>2 DEF CommitsAreTrue, Reads
<1>11. /\ Waiting = {} /\ AtWork = {acq.ref} /\ Ahead = {}
       /\ Waiting' = {} /\ Known' = Known /\ AtWork' = {} /\ Kept' = Kept \cup {acq.ref}
       /\ Ahead' = {}
  BY <1>1, <1>3, <1>4, <1>5, <1>7, <1>8
     DEF Ahead, Waiting, Known, AtWork, Kept, Fetching, Reads
<1>12. Covered' = Covered
  BY <1>11 DEF Covered
<1>13. Distinct => Distinct'
  <2>1. acq'.batch = <<>> /\ acq'.listed = acq.listed /\ acq'.out = out
    BY <1>3, <1>7, <1>8
  <2>2. Distinct => EachTagOnce(out)
    BY <1>4, <1>5, <1>11 DEF Distinct, Kept
  <2>. QED BY <1>11, <2>1, <2>2 DEF Distinct, EachTagOnce
<1>. QED BY <1>1, <1>2, <1>7, <1>8, <1>9, <1>10, <1>11, <1>12, <1>13, ListingGoesOn DEF Ended

----------------------------------------------------------------------------
(* The elements of a sequence are of its type.                             *)
LEMMA ElementsOf ==
  ASSUME NEW S, NEW s \in Seq(S)
  PROVE  \A i \in DOMAIN s : s[i] \in S
BY ElementOfSeq

(* What is noted when an acquisition begins.                               *)
LEMMA NowFits ==
  ASSUME SourceInv
  PROVE  /\ Now \in [pointed: [Tag -> SUBSET Commit], throughout: SUBSET Tag, ever: SUBSET Tag,
                     removed: BOOLEAN, added: BOOLEAN]
         /\ Nothing \in [pointed: [Tag -> SUBSET Commit], throughout: SUBSET Tag,
                         ever: SUBSET Tag, removed: BOOLEAN, added: BOOLEAN]
         /\ \A t \in Tag : tagAt[t] # NoCommit => tagAt[t] \in Now.pointed[t]
         /\ PublishedTags \subseteq Now.ever /\ Now.throughout \subseteq PublishedTags
<1>1. /\ tagAt \in [Tag -> Commit \cup {NoCommit}] /\ releases \in Seq(Release)
      /\ NoCommit \notin Commit
  BY SourceAssumption DEF SourceInv
<1>2. PublishedTags \subseteq Tag
  <2>1. \A i \in DOMAIN releases : releases[i] \in Release
    BY <1>1, ElementOfSeq
  <2>. QED BY <2>1 DEF PublishedTags, Published, Release
<1>. QED BY <1>1, <1>2 DEF Now, Nothing

(* An acquisition begins at its first step, with nothing found yet.        *)
LEMMA BeginKeeps ==
  ASSUME SourceInv, Begin
  PROVE  SourceInv'
<1> DEFINE Entry == [tag: Tag, commit: Commit \cup {NoCommit}]
<1>1. PICK a : Start(a)
  BY DEF Begin, StartRelease, StartGit, StartExact
<1>2. /\ acq' = a /\ seen' = IF a.kind = "exact" THEN Nothing ELSE Now
      /\ UNCHANGED <<releases, tagAt, changes, cache>> /\ cancelled' = FALSE
  BY <1>1 DEF Start, world
<1>3. {"verify", "next"} \subseteq Steps /\ NoCommit \notin Commit /\ <<>> \in Seq(Tag)
  BY SourceAssumption DEF Steps, Requests
<1>4. OneReleasePerTag' /\ SeenTypeOK' /\ PublishedTags' = PublishedTags
  BY <1>2, NowFits DEF SourceInv, OneReleasePerTag, SeenTypeOK, PublishedTags, Published
<1>5. SeenIsCurrent'
  BY <1>2, <1>4, NowFits DEF SeenIsCurrent
<1>6. CASE StartRelease
  <2> DEFINE r == [Idle EXCEPT !.kind = "release", !.step = "verify"]
  <2>1. Start(r)
    BY <1>6 DEF StartRelease
  <2>2. /\ r \in Acquisition /\ r.step = "verify" /\ r.kind = "release" /\ r.transport = "git"
        /\ r.batch = <<>> /\ r.listed = <<>> /\ r.out = <<>> /\ r.page = 1
    <3>1. r \in Acquisition /\ r.step = "verify" /\ r.kind = "release"
      BY <1>3, IdleFits DEF Acquisition
    <3>. QED BY <3>1 DEF Idle
  <2> HIDE DEF r
  <2>3. acq' = r /\ seen' = Now
    BY <2>1, <2>2 DEF Start
  <2>4. StepFits'
    BY <2>2, <2>3 DEF StepFits, GitCommands, Fetching, Reads
  <2>5. CommitsAreTrue'
    BY <2>2, <2>3 DEF CommitsAreTrue, Reads
  <2>6. /\ Waiting' = {} /\ Known' = {} /\ AtWork' = {} /\ Kept' = {}
    BY <2>2, <2>3 DEF Waiting, Known, AtWork, Kept, TagsIn, Fetching, Reads
  <2>7. Ahead' = PublishedTags
    <3>1. Offset' = 0
      BY <2>2, <2>3, SourceAssumption DEF Offset
    <3>2. \A j \in Published(releases) : j > 0
      BY DEF SourceInv, Published
    <3>3. {j \in Published(releases') : j > Offset'} = Published(releases)
      BY <1>2, <3>1, <3>2
    <3>. QED BY <1>2, <2>2, <2>3, <3>3 DEF Ahead, PublishedTags
  <2>8. ListingFits'
    BY <2>2, <2>3, <2>6, <2>7, NowFits DEF ListingFits, Covered, Distinct, EachTagOnce
  <2>. QED BY <1>2, <1>4, <1>5, <2>2, <2>3, <2>4, <2>5, <2>8 DEF SourceInv
<1>7. ASSUME NEW t \in Tag, StartGit(t)
      PROVE  SourceInv'
  <2> DEFINE listed == <<Listed(t, NoCommit)>>
             r == [Idle EXCEPT !.kind = "git", !.step = "next", !.ref = t, !.listed = listed]
  <2>1. Start(r)
    BY <1>7 DEF StartGit
  <2>2. listed \in Seq(Entry)
    BY DEF Listed
  <2> HIDE DEF listed
  <2>3. /\ r \in Acquisition /\ r.step = "next" /\ r.kind = "git" /\ r.transport = "git"
        /\ r.batch = <<>> /\ r.out = <<>> /\ r.ref = t
    <3>1. /\ r \in Acquisition /\ r.step = "next" /\ r.kind = "git" /\ r.ref = t
          /\ r.transport = Idle.transport /\ r.batch = Idle.batch /\ r.out = Idle.out
      BY <1>3, <2>2, IdleFits DEF Acquisition
    <3>. QED BY <3>1 DEF Idle
  <2> HIDE DEF r
  <2>4. acq' = r /\ seen' = Now
    BY <2>1, <2>3 DEF Start
  <2>5. StepFits' /\ CommitsAreTrue' /\ ListingFits'
    BY <2>3, <2>4
       DEF StepFits, CommitsAreTrue, ListingFits, GitCommands, Fetching, Reads
  <2>. QED BY <1>2, <1>4, <1>5, <2>3, <2>4, <2>5 DEF SourceInv
<1>8. ASSUME NEW i \in DOMAIN acq.out, StartExact(i)
      PROVE  SourceInv'
  <2> DEFINE x == acq.out[i]
             first == Listed(x.tag, x.commit)
             listed == <<first>>
             r == [Idle EXCEPT !.kind = "exact", !.step = "next", !.transport = "rest",
                               !.wanted = x.content, !.listed = listed]
  <2>1. Start(r)
    BY <1>8 DEF StartExact
  <2>2. x \in Acquired /\ x.content = x.commit
    <3>1. acq.out \in Seq(Acquired)
      BY DEF SourceInv, Acquisition
    <3>. QED BY <3>1, ElementOfSeq DEF SourceInv, CommitsAreTrue
  <2>3. /\ x.tag \in Tag /\ x.commit \in Commit /\ x.content = x.commit
    BY <2>2 DEF Acquired
  <2>4. listed \in Seq(Entry) /\ \A j \in DOMAIN listed : listed[j].commit = x.commit
    BY <2>3 DEF Listed
  <2> HIDE DEF x, listed
  <2>5. /\ r \in Acquisition /\ r.step = "next" /\ r.kind = "exact" /\ r.transport = "rest"
        /\ r.batch = <<>> /\ r.out = <<>> /\ r.wanted = x.content /\ r.listed = listed
    <3>1. /\ r \in Acquisition /\ r.step = "next" /\ r.kind = "exact" /\ r.wanted = x.content
          /\ r.listed = listed
          /\ r.transport = "rest" /\ r.batch = Idle.batch /\ r.out = Idle.out
      BY <1>3, <2>3, <2>4, IdleFits DEF Acquisition
    <3>. QED BY <3>1 DEF Idle
  <2> HIDE DEF r
  <2>6. acq' = r
    BY <2>1 DEF Start
  <2>7. StepFits' /\ CommitsAreTrue' /\ ListingFits'
    <3>1. \A t, c : Pointed(t, c)' <=> c \in Commit /\ c = x.commit
      BY <2>3, <2>5, <2>6 DEF Pointed
    <3>2. CommitsAreTrue'
      BY <2>3, <2>4, <2>5, <2>6, <3>1 DEF CommitsAreTrue, Reads
    <3>3. StepFits'
      BY <2>5, <2>6 DEF StepFits, GitCommands, Fetching, Reads
    <3>. QED BY <2>5, <2>6, <3>2, <3>3 DEF ListingFits
  <2>. QED BY <1>2, <1>4, <1>5, <2>5, <2>6, <2>7 DEF SourceInv
<1>. QED BY <1>6, <1>7, <1>8 DEF Begin

(* A number of releases has been read.                                     *)
LEMMA OffsetFits ==
  ASSUME SourceInv
  PROVE  Offset \in Nat
<1>1. acq.page - 1 \in Nat /\ PageSize \in Nat
  BY SourceAssumption DEF SourceInv, Acquisition
<1>. QED BY <1>1 DEF Offset

(* What it takes for others not to disturb an acquisition.                 *)
LEMMA OthersDisturbNothing ==
  ASSUME SourceInv, acq' = acq,
         releases' \in Seq(Release), OneReleasePerTag',
         tagAt' \in [Tag -> Commit \cup {NoCommit}], cache' \in [Commit -> File],
         changes' \in 0..MaxChanges, cancelled' \in BOOLEAN,
         SeenTypeOK', SeenIsCurrent',
         \A t \in Tag : seen.pointed[t] \subseteq seen'.pointed[t],
         Ended => seen' = seen,
         ~Ended => seen.ever \subseteq seen'.ever,
         ~Ended /\ ~seen'.removed =>
           ~seen.removed /\ seen'.throughout \subseteq seen.throughout /\ Ahead \subseteq Ahead',
         ~Ended /\ ~seen'.added => ~seen.added /\ Ahead' \subseteq Ahead
  PROVE  SourceInv'
<1>1. StepFits'
  BY DEF SourceInv, StepFits
<1>2. CommitsAreTrue'
  <2>1. \A t \in Tag : \A c : Pointed(t, c) => Pointed(t, c)'
    BY DEF Pointed
  <2>2. \A i \in DOMAIN acq.listed : acq.listed[i].tag \in Tag
    <3> DEFINE Entry == [tag: Tag, commit: Commit \cup {NoCommit}]
    <3>1. acq.listed \in Seq(Entry)
      BY DEF SourceInv, Acquisition
    <3>2. \A i \in DOMAIN acq.listed : acq.listed[i] \in Entry
      BY <3>1, ElementsOf
    <3>. QED BY <3>2
  <2>3. \A i \in DOMAIN acq.out : acq.out[i].tag \in Tag
    <3>1. acq.out \in Seq(Acquired)
      BY DEF SourceInv, Acquisition
    <3>2. \A i \in DOMAIN acq.out : acq.out[i] \in Acquired
      BY <3>1, ElementsOf
    <3>. QED BY <3>2 DEF Acquired
  <2>4. acq.step \in Reads => acq.ref \in Tag
    BY DEF SourceInv, StepFits
  <2>5. CommitsAreTrue
    BY DEF SourceInv
  <2>. QED BY <2>1, <2>2, <2>3, <2>4, <2>5 DEF CommitsAreTrue
<1>3. ListingFits'
  <2>1. SUFFICES ASSUME acq.kind = "release", acq.step \notin {"idle", "failed"}
                 PROVE  /\ Covered' \subseteq seen'.ever
                        /\ ~seen'.removed => seen'.throughout \subseteq Covered' \cup Ahead'
                        /\ ~seen'.added => Distinct'
    BY DEF ListingFits
  <2>2. /\ Covered \subseteq seen.ever
        /\ ~seen.removed => seen.throughout \subseteq Covered \cup Ahead
        /\ ~seen.added => Distinct
    BY <2>1 DEF SourceInv, ListingFits
  <2>3. /\ Waiting' = Waiting /\ Known' = Known /\ AtWork' = AtWork /\ Kept' = Kept
        /\ Covered' = Covered
    BY DEF Waiting, Known, AtWork, Kept, Covered
  <2>4. Ended => Ahead' = {} /\ Ahead = {}
    BY DEF Ahead, Ended
  <2>5. Distinct /\ Ahead' \subseteq Ahead => Distinct'
    BY <2>3 DEF Distinct
  <2>6. CASE Ended
    BY <2>2, <2>3, <2>4, <2>5, <2>6
  <2>7. CASE ~Ended
    BY <2>2, <2>3, <2>5, <2>7
  <2>. QED BY <2>6, <2>7
<1>. QED BY <1>1, <1>2, <1>3 DEF SourceInv

(* A release is published, which moves all others one place down.          *)
LEMMA PublishKeeps ==
  ASSUME SourceInv, NEW t \in Tag, NEW c \in Commit, Publish(t, c)
  PROVE  SourceInv'
<1> DEFINE first == <<[tag |-> t, draft |-> FALSE]>>
           n == Len(releases)
           w == [seen EXCEPT !.added = TRUE, !.ever = @ \cup {t},
                             !.pointed[t] = @ \cup {tagAt'[t]}]
<1>1. /\ releases \in Seq(Release) /\ first \in Seq(Release) /\ n \in Nat
      /\ tagAt \in [Tag -> Commit \cup {NoCommit}] /\ changes \in 0..MaxChanges
      /\ NoCommit \notin Commit
  BY SourceAssumption DEF SourceInv, Release
<1>2. /\ acq' = acq /\ cancelled' = cancelled /\ cache' = cache
      /\ releases' = first \o releases
      /\ \A i \in DOMAIN releases : releases[i].tag # t
      /\ tagAt' = [tagAt EXCEPT ![t] = IF @ = NoCommit THEN c ELSE @]
      /\ seen' = IF Ended \/ acq.kind = "exact" THEN seen ELSE w
  BY DEF Publish, Happens, Sees
<1>3. changes' \in 0..MaxChanges
  BY <1>1, SourceAssumption DEF Publish, Happens
<1>4. tagAt' \in [Tag -> Commit \cup {NoCommit}] /\ tagAt'[t] \in Commit
      /\ \A u \in Tag : u # t => tagAt'[u] = tagAt[u]
  BY <1>1, <1>2
<1>5. /\ releases' \in Seq(Release)
      /\ DOMAIN releases' = 1..(n + 1) /\ DOMAIN releases = 1..n
      /\ releases'[1] = [tag |-> t, draft |-> FALSE]
      /\ \A i \in 1..n : releases'[i + 1] = releases[i]
  BY <1>1, <1>2
<1> HIDE DEF first, n
<1>6. \A i \in Published(releases') :
        \/ i = 1 /\ releases'[i].tag = t
        \/ i \in Nat /\ i - 1 \in Published(releases) /\ releases'[i] = releases[i - 1]
  <2>1. SUFFICES ASSUME NEW i \in Published(releases'), i # 1
                 PROVE  i \in Nat /\ i - 1 \in Published(releases) /\ releases'[i] = releases[i - 1]
    BY <1>5
  <2>2. i \in 1..(n + 1) /\ ~releases'[i].draft
    BY <1>5 DEF Published
  <2>3. i - 1 \in 1..n /\ (i - 1) + 1 = i
    BY <1>1, <2>1, <2>2 DEF n
  <2>. QED BY <1>5, <2>2, <2>3 DEF Published
<1>7. \A i \in Published(releases) :
        i \in Nat /\ i + 1 \in Published(releases') /\ releases'[i + 1] = releases[i]
  <2>1. \A i \in 1..n : i \in Nat /\ i + 1 \in 1..(n + 1)
    BY <1>1 DEF n
  <2>. QED BY <1>5, <2>1 DEF Published
<1>8. PublishedTags' = PublishedTags \cup {t}
  <2>1. 1 \in Published(releases')
    BY <1>1, <1>5 DEF Published, n
  <2>. QED BY <1>5, <1>6, <1>7, <2>1 DEF PublishedTags
<1>9. OneReleasePerTag'
  <2>1. SUFFICES ASSUME NEW i \in Published(releases'), NEW j \in Published(releases'),
                        releases'[i].tag = releases'[j].tag
                 PROVE  i = j
    BY DEF OneReleasePerTag
  <2>2. ASSUME NEW k \in Published(releases'), k # 1
        PROVE  releases'[k].tag # t
    BY <1>2, <1>6, <2>2 DEF Published
  <2>3. CASE i = 1 \/ j = 1
    BY <1>5, <2>1, <2>2, <2>3
  <2>4. CASE i # 1 /\ j # 1
    <3>1. i - 1 = j - 1 /\ i \in Nat /\ j \in Nat
      BY <1>6, <2>1, <2>4 DEF SourceInv, OneReleasePerTag
    <3>. QED BY <3>1
  <2>. QED BY <2>3, <2>4
<1>10. Ahead \subseteq Ahead'
  <2>1. Offset' = Offset /\ Offset \in Nat
    BY <1>2, OffsetFits DEF Offset
  <2>2. \A i \in Published(releases) : i > Offset => i + 1 > Offset
    BY <1>7, <2>1
  <2>3. CASE acq.step \in {"verify", "list", "tag"}
    <3>1. SUFFICES ASSUME NEW i \in Published(releases), i > Offset
                   PROVE  releases[i].tag \in Ahead'
      BY <2>3 DEF Ahead
    <3>2. /\ i + 1 \in {j \in Published(releases') : j > Offset'}
          /\ releases'[i + 1].tag = releases[i].tag
      BY <1>7, <2>1, <2>2, <3>1
    <3>3. Ahead' = {releases'[k].tag : k \in {j \in Published(releases') : j > Offset'}}
      BY <1>2, <2>3 DEF Ahead
    <3>. QED BY <3>2, <3>3
  <2>. QED BY <2>3 DEF Ahead
<1>11. SeenTypeOK
  BY DEF SourceInv
<1>12. /\ w \in [pointed: [Tag -> SUBSET Commit], throughout: SUBSET Tag, ever: SUBSET Tag,
                 removed: BOOLEAN, added: BOOLEAN]
       /\ w.added = TRUE /\ w.ever = seen.ever \cup {t} /\ w.throughout = seen.throughout
       /\ w.removed = seen.removed
       /\ w.pointed = [seen.pointed EXCEPT ![t] = @ \cup {tagAt'[t]}]
  BY <1>4, <1>11 DEF SeenTypeOK
<1> HIDE DEF w
<1>13. /\ w.pointed[t] = seen.pointed[t] \cup {tagAt'[t]}
       /\ \A u \in Tag : u # t => w.pointed[u] = seen.pointed[u]
  BY <1>11, <1>12 DEF SeenTypeOK
<1>14. SeenTypeOK' /\ \A u \in Tag : seen.pointed[u] \subseteq seen'.pointed[u]
  BY <1>2, <1>11, <1>12, <1>13 DEF SeenTypeOK
<1>15. SeenIsCurrent'
  <2>1. SUFFICES ASSUME ~Ended, acq.kind # "exact"
                 PROVE  /\ \A u \in Tag : tagAt'[u] # NoCommit => tagAt'[u] \in seen'.pointed[u]
                        /\ PublishedTags' \subseteq seen'.ever
                        /\ seen'.throughout \subseteq PublishedTags'
    BY <1>2 DEF SeenIsCurrent, Ended
  <2>2. /\ \A u \in Tag : tagAt[u] # NoCommit => tagAt[u] \in seen.pointed[u]
        /\ PublishedTags \subseteq seen.ever /\ seen.throughout \subseteq PublishedTags
    BY <2>1 DEF SourceInv, SeenIsCurrent
  <2>. QED BY <1>2, <1>4, <1>8, <1>12, <1>13, <2>1, <2>2
<1>16. /\ ~Ended => seen.ever \subseteq seen'.ever
       /\ seen'.removed = seen.removed /\ seen'.throughout = seen.throughout
       /\ ~Ended /\ acq.kind # "exact" => seen'.added
       /\ Ended \/ acq.kind = "exact" => seen' = seen
  BY <1>2, <1>12
<1>17. acq.kind = "exact" => Ahead = {} /\ Ahead' = {}
  BY <1>2 DEF SourceInv, StepFits, Ahead
<1>18. cache' \in [Commit -> File] /\ cancelled' \in BOOLEAN
  BY <1>2 DEF SourceInv
<1>19. /\ Ended => seen' = seen
       /\ ~Ended => seen.ever \subseteq seen'.ever
       /\ ~Ended /\ ~seen'.removed =>
            ~seen.removed /\ seen'.throughout \subseteq seen.throughout /\ Ahead \subseteq Ahead'
       /\ ~Ended /\ ~seen'.added => ~seen.added /\ Ahead' \subseteq Ahead
  BY <1>10, <1>16, <1>17
<1>. QED BY <1>2, <1>3, <1>4, <1>5, <1>9, <1>14, <1>15, <1>18, <1>19, OthersDisturbNothing

(* A release is withdrawn, which moves those after it one place up.        *)
LEMMA WithdrawKeeps ==
  ASSUME SourceInv, NEW d \in DOMAIN releases, Withdraw(d)
  PROVE  SourceInv'
<1> DEFINE n == Len(releases)
           gone == releases[d].tag
           before == SubSeq(releases, 1, d - 1)
           behind == SubSeq(releases, d + 1, n)
           w == [seen EXCEPT !.removed = TRUE, !.throughout = @ \ {gone}]
<1>1. /\ releases \in Seq(Release) /\ n \in Nat /\ DOMAIN releases = 1..n
      /\ d \in Nat \ {0} /\ d <= n
      /\ tagAt \in [Tag -> Commit \cup {NoCommit}] /\ changes \in 0..MaxChanges
  BY DEF SourceInv
<1>2. /\ acq' = acq /\ cancelled' = cancelled /\ cache' = cache /\ tagAt' = tagAt
      /\ releases' = before \o behind
      /\ seen' = IF Ended \/ acq.kind = "exact" THEN seen ELSE w
  BY DEF Withdraw, Happens, Sees
<1>3. changes' \in 0..MaxChanges
  <2>1. changes < MaxChanges /\ changes' = changes + 1
    BY DEF Withdraw, Happens
  <2>. QED BY <1>1, <2>1, SourceAssumption
<1> HIDE DEF n
<1>4. /\ before \in Seq(Release) /\ Len(before) = d - 1
      /\ \A i \in 1..(d - 1) : before[i] = releases[i]
  <2>1. d - 1 \in Nat /\ 1 \in Nat /\ \A i \in 1..(d - 1) : i \in 1..n
    BY <1>1
  <2>. QED BY <1>1, <2>1, SubSeqProperties DEF n
<1>5. /\ behind \in Seq(Release) /\ Len(behind) = n - d
      /\ \A i \in 1..(n - d) : behind[i] = releases[d + i]
  <2>1. /\ d + 1 \in Nat /\ n \in Nat /\ \A i \in (d + 1)..n : i \in 1..n
    BY <1>1
  <2>2. /\ behind \in Seq(Release) /\ Len(behind) = IF d + 1 <= n THEN n - (d + 1) + 1 ELSE 0
        /\ \A i \in 1..(n - (d + 1) + 1) : behind[i] = releases[(d + 1) + i - 1]
    BY <1>1, <2>1, SubSeqProperties DEF n
  <2>3. /\ (n - (d + 1)) + 1 = n - d /\ \A i \in 1..(n - d) : ((d + 1) + i) - 1 = d + i
        /\ (IF d + 1 <= n THEN (n - (d + 1)) + 1 ELSE 0) = n - d
    BY <1>1
  <2>4. ASSUME NEW i \in 1..(n - d)
        PROVE  behind[i] = releases[d + i]
    BY <2>2, <2>3
  <2>. QED BY <2>2, <2>3, <2>4
<1> HIDE DEF before, behind
<1>6. /\ releases' \in Seq(Release) /\ DOMAIN releases' = 1..(n - 1)
      /\ \A i \in 1..(n - 1) : releases'[i] = IF i < d THEN releases[i] ELSE releases[i + 1]
  <2>1. /\ releases' \in Seq(Release) /\ Len(releases') = (d - 1) + (n - d)
        /\ \A i \in 1..((d - 1) + (n - d)) :
             releases'[i] = IF i <= d - 1 THEN before[i] ELSE behind[i - (d - 1)]
    <3>1. Len(before) + Len(behind) = (d - 1) + (n - d)
      BY <1>4, <1>5
    <3>2. /\ before \o behind \in Seq(Release)
          /\ Len(before \o behind) = Len(before) + Len(behind)
          /\ \A i \in 1..(Len(before) + Len(behind)) :
               (before \o behind)[i] = IF i <= Len(before) THEN before[i]
                                       ELSE behind[i - Len(before)]
      BY <1>4, <1>5, ConcatProperties
    <3>. QED BY <1>2, <1>4, <3>1, <3>2
  <2>2. (d - 1) + (n - d) = n - 1
    BY <1>1
  <2>3. ASSUME NEW i \in 1..(n - 1)
        PROVE  releases'[i] = IF i < d THEN releases[i] ELSE releases[i + 1]
    <3>1. CASE i < d
      <4>1. i <= d - 1 /\ i \in 1..(d - 1)
        BY <1>1, <3>1
      <4>. QED BY <1>4, <2>1, <2>2, <3>1, <4>1
    <3>2. CASE ~(i < d)
      <4>1. ~(i <= d - 1) /\ i - (d - 1) \in 1..(n - d) /\ d + (i - (d - 1)) = i + 1
        BY <1>1, <3>2
      <4>. QED BY <1>5, <2>1, <2>2, <3>2, <4>1
    <3>. QED BY <3>1, <3>2
  <2>4. DOMAIN releases' = 1..(n - 1)
    BY <2>1, <2>2
  <2>. QED BY <2>1, <2>3, <2>4
<1> DEFINE old(i) == IF i < d THEN i ELSE i + 1
<1>7. \A i \in Published(releases') :
        /\ i \in Nat /\ old(i) \in Published(releases) /\ releases'[i] = releases[old(i)]
        /\ old(i) # d /\ old(i) >= i
  <2>1. \A i \in 1..(n - 1) : i \in Nat /\ old(i) \in 1..n /\ old(i) # d /\ old(i) >= i
    BY <1>1
  <2>. QED BY <1>1, <1>6, <2>1 DEF Published
<1>8. \A i, j \in Published(releases') : old(i) = old(j) => i = j
  BY <1>1, <1>7
<1>9. \A i \in Published(releases) : i # d => \E j \in Published(releases') : releases'[j] = releases[i]
  <2>1. SUFFICES ASSUME NEW i \in Published(releases), i # d
                 PROVE  \E j \in Published(releases') : releases'[j] = releases[i]
    OBVIOUS
  <2> DEFINE j == IF i < d THEN i ELSE i - 1
  <2>2. i \in 1..n /\ ~releases[i].draft
    BY <1>1 DEF Published
  <2>3. j \in 1..(n - 1) /\ old(j) = i
    BY <1>1, <2>1, <2>2
  <2>4. releases'[j] = releases[i]
    BY <1>6, <2>3
  <2>. QED BY <1>6, <2>2, <2>3, <2>4 DEF Published
<1> HIDE DEF old
<1>10. PublishedTags' \subseteq PublishedTags /\ PublishedTags \ {gone} \subseteq PublishedTags'
  BY <1>7, <1>9 DEF PublishedTags
<1>11. OneReleasePerTag'
  BY <1>7, <1>8 DEF SourceInv, OneReleasePerTag
<1>12. Ahead' \subseteq Ahead
  <2>1. Offset' = Offset /\ Offset \in Nat
    BY <1>2, OffsetFits DEF Offset
  <2>2. CASE acq.step \in {"verify", "list", "tag"}
    <3>1. Ahead' = {releases'[k].tag : k \in {j \in Published(releases') : j > Offset'}}
      BY <1>2, <2>2 DEF Ahead
    <3>2. SUFFICES ASSUME NEW i \in Published(releases'), i > Offset
                   PROVE  releases'[i].tag \in Ahead
      BY <2>1, <3>1
    <3>3. old(i) \in Nat
      BY <1>1, <1>7 DEF Published
    <3>4. old(i) > Offset
      BY <1>7, <2>1, <3>2, <3>3
    <3>. QED BY <1>7, <2>2, <3>4 DEF Ahead
  <2>. QED BY <1>2, <2>2 DEF Ahead
<1>13. SeenTypeOK
  BY DEF SourceInv
<1>14. /\ w \in [pointed: [Tag -> SUBSET Commit], throughout: SUBSET Tag, ever: SUBSET Tag,
                 removed: BOOLEAN, added: BOOLEAN]
       /\ w.added = seen.added /\ w.ever = seen.ever /\ w.throughout = seen.throughout \ {gone}
       /\ w.removed = TRUE /\ w.pointed = seen.pointed
  BY <1>13 DEF SeenTypeOK
<1> HIDE DEF w
<1>15. SeenTypeOK' /\ seen'.pointed = seen.pointed
  BY <1>2, <1>13, <1>14 DEF SeenTypeOK
<1>16. SeenIsCurrent'
  BY <1>2, <1>10, <1>14 DEF SourceInv, SeenIsCurrent, Ended
<1>17. /\ seen.ever \subseteq seen'.ever /\ seen'.added = seen.added
       /\ ~Ended /\ acq.kind # "exact" => seen'.removed
       /\ Ended \/ acq.kind = "exact" => seen' = seen
  BY <1>2, <1>14
<1>18. acq.kind = "exact" => Ahead = {} /\ Ahead' = {}
  BY <1>2 DEF SourceInv, StepFits, Ahead
<1>19. cache' \in [Commit -> File] /\ cancelled' \in BOOLEAN
       /\ tagAt' \in [Tag -> Commit \cup {NoCommit}]
  BY <1>1, <1>2 DEF SourceInv
<1>. QED BY <1>2, <1>3, <1>6, <1>11, <1>12, <1>15, <1>16, <1>17, <1>18, <1>19,
            OthersDisturbNothing

(* A tag is moved, or removed, which changes no release.                   *)
LEMMA MoveTagKeeps ==
  ASSUME SourceInv, NEW t \in Tag, NEW c \in Commit \cup {NoCommit}, MoveTag(t, c)
  PROVE  SourceInv'
<1> DEFINE w == [seen EXCEPT !.pointed[t] = @ \cup ({c} \ {NoCommit})]
<1>1. /\ tagAt \in [Tag -> Commit \cup {NoCommit}] /\ changes \in 0..MaxChanges
      /\ NoCommit \notin Commit
  BY SourceAssumption DEF SourceInv
<1>2. /\ acq' = acq /\ cancelled' = cancelled /\ cache' = cache /\ releases' = releases
      /\ tagAt' = [tagAt EXCEPT ![t] = c]
      /\ seen' = IF Ended \/ acq.kind = "exact" THEN seen ELSE w
  BY DEF MoveTag, Happens, Sees
<1>3. changes' \in 0..MaxChanges
  BY <1>1, SourceAssumption DEF MoveTag, Happens
<1>4. /\ tagAt' \in [Tag -> Commit \cup {NoCommit}] /\ tagAt'[t] = c
      /\ \A u \in Tag : u # t => tagAt'[u] = tagAt[u]
  BY <1>1, <1>2
<1>5. SeenTypeOK
  BY DEF SourceInv
<1>6. /\ w \in [pointed: [Tag -> SUBSET Commit], throughout: SUBSET Tag, ever: SUBSET Tag,
                 removed: BOOLEAN, added: BOOLEAN]
      /\ w.added = seen.added /\ w.ever = seen.ever /\ w.throughout = seen.throughout
      /\ w.removed = seen.removed
      /\ w.pointed = [seen.pointed EXCEPT ![t] = @ \cup ({c} \ {NoCommit})]
  BY <1>5 DEF SeenTypeOK
<1> HIDE DEF w
<1>7. /\ w.pointed[t] = seen.pointed[t] \cup ({c} \ {NoCommit})
      /\ \A u \in Tag : u # t => w.pointed[u] = seen.pointed[u]
  BY <1>5, <1>6 DEF SeenTypeOK
<1>8. SeenTypeOK' /\ \A u \in Tag : seen.pointed[u] \subseteq seen'.pointed[u]
  BY <1>2, <1>5, <1>6, <1>7 DEF SeenTypeOK
<1>9. PublishedTags' = PublishedTags /\ OneReleasePerTag' /\ Ahead' = Ahead
  BY <1>2 DEF PublishedTags, Published, SourceInv, OneReleasePerTag, Ahead, Offset
<1>10. SeenIsCurrent'
  <2>1. SUFFICES ASSUME ~Ended, acq.kind # "exact"
                 PROVE  /\ \A u \in Tag : tagAt'[u] # NoCommit => tagAt'[u] \in seen'.pointed[u]
                        /\ PublishedTags' \subseteq seen'.ever
                        /\ seen'.throughout \subseteq PublishedTags'
    BY <1>2 DEF SeenIsCurrent, Ended
  <2>2. /\ \A u \in Tag : tagAt[u] # NoCommit => tagAt[u] \in seen.pointed[u]
        /\ PublishedTags \subseteq seen.ever /\ seen.throughout \subseteq PublishedTags
    BY <2>1 DEF SourceInv, SeenIsCurrent
  <2>. QED BY <1>2, <1>4, <1>6, <1>7, <1>9, <2>1, <2>2
<1>11. /\ seen'.ever = seen.ever /\ seen'.removed = seen.removed
       /\ seen'.throughout = seen.throughout /\ seen'.added = seen.added
       /\ Ended => seen' = seen
  BY <1>2, <1>6
<1>12. cache' \in [Commit -> File] /\ cancelled' \in BOOLEAN /\ releases' \in Seq(Release)
  BY <1>2 DEF SourceInv
<1>. QED BY <1>2, <1>3, <1>4, <1>8, <1>9, <1>10, <1>11, <1>12, OthersDisturbNothing

(* A file of the cache is changed, or the caller cancels.                  *)
LEMMA TouchKeeps ==
  ASSUME SourceInv,
         (\E c \in Commit, file \in File : TouchCache(c, file)) \/ Cancel
  PROVE  SourceInv'
<1>1. /\ acq' = acq /\ releases' = releases /\ tagAt' = tagAt /\ seen' = seen
  BY DEF TouchCache, Cancel, Happens, world
<1>2. cache' \in [Commit -> File] /\ cancelled' \in BOOLEAN
  BY DEF TouchCache, Cancel, Happens, SourceInv
<1>3. changes' \in 0..MaxChanges
  BY SourceAssumption DEF TouchCache, Cancel, Happens, SourceInv, world
<1>4. SeenTypeOK' /\ OneReleasePerTag' /\ PublishedTags' = PublishedTags /\ Ahead' = Ahead
  BY <1>1 DEF SourceInv, SeenTypeOK, OneReleasePerTag, PublishedTags, Published, Ahead, Offset
<1>5. SeenIsCurrent'
  BY <1>1, <1>4 DEF SourceInv, SeenIsCurrent, Ended
<1>6. releases' \in Seq(Release) /\ tagAt' \in [Tag -> Commit \cup {NoCommit}]
  BY <1>1 DEF SourceInv
<1>. QED BY <1>1, <1>2, <1>3, <1>4, <1>5, <1>6, OthersDisturbNothing

----------------------------------------------------------------------------
(* The invariant holds before the first acquisition.                       *)
LEMMA InitFits == Init => SourceInv
<1>1. SUFFICES ASSUME Init
               PROVE  SourceInv
  OBVIOUS
<1>2. /\ releases \in Seq(Release) /\ changes \in 0..MaxChanges /\ cancelled \in BOOLEAN
      /\ OneReleasePerTag
  <2>1. releases \in FirstReleases /\ changes = 0 /\ cancelled = FALSE
    BY <1>1 DEF Init
  <2>2. releases \in Seq(Release) /\ OneReleasePerTag
    BY <2>1, ReleasesAssumption DEF OneReleasePerTag
  <2>3. changes \in 0..MaxChanges
    BY <2>1, SourceAssumption
  <2>4. cancelled \in BOOLEAN
    BY <2>1
  <2>. QED BY <2>2, <2>3, <2>4
<1>3. tagAt \in [Tag -> Commit \cup {NoCommit}] /\ cache \in [Commit -> File]
  BY <1>1 DEF Init, File
<1>4. acq \in Acquisition /\ SeenTypeOK
  BY <1>1, IdleFits DEF Init, SeenTypeOK, Nothing
<1>5. SeenIsCurrent /\ StepFits /\ CommitsAreTrue /\ ListingFits
  BY <1>1 DEF Init, Idle, SeenIsCurrent, StepFits, CommitsAreTrue, ListingFits, Ended,
              GitCommands, Fetching, Reads
<1>. QED BY <1>2, <1>3, <1>4, <1>5 DEF SourceInv

(* No step, of the acquisition or of others, breaks the invariant.         *)
LEMMA SourceInvStep == SourceInv /\ [Next]_vars => SourceInv'
<1>1. SUFFICES ASSUME SourceInv, [Next]_vars
               PROVE  SourceInv'
  OBVIOUS
<1>2. CASE Request
  BY <1>1, <1>2, RetryKeeps, FailKeeps, VerifyKeeps, ListTagsKeeps, ListFactsKeeps,
     ResolveTagKeeps, ReadingKeeps DEF Request, GiveUp, TooManyPages
<1>3. CASE Git
  BY <1>1, <1>3, GitFailsKeeps, ReadingKeeps DEF Git
<1>4. CASE Caching
  BY <1>1, <1>4, ReadingKeeps, CachingKeeps DEF Caching
<1>5. CASE TakeNext \/ Keep
  BY <1>1, <1>5, TakeNextKeeps, KeepKeeps
<1>6. CASE Begin
  BY <1>1, <1>6, BeginKeeps
<1>7. CASE Others
  BY <1>1, <1>7, PublishKeeps, WithdrawKeeps, MoveTagKeeps, TouchKeeps DEF Others
<1>8. CASE UNCHANGED vars
  <2>1. /\ acq' = acq /\ releases' = releases /\ tagAt' = tagAt /\ seen' = seen
        /\ cache' = cache /\ cancelled' = cancelled /\ changes' = changes
    BY <1>8 DEF vars, world
  <2>2. PublishedTags' = PublishedTags /\ Ahead' = Ahead /\ OneReleasePerTag'
    BY <1>1, <2>1 DEF PublishedTags, Published, Ahead, Offset, SourceInv, OneReleasePerTag
  <2>3. SeenTypeOK' /\ SeenIsCurrent'
    BY <1>1, <2>1, <2>2 DEF SourceInv, SeenTypeOK, SeenIsCurrent, Ended
  <2>4. /\ releases' \in Seq(Release) /\ tagAt' \in [Tag -> Commit \cup {NoCommit}]
        /\ cache' \in [Commit -> File] /\ changes' \in 0..MaxChanges /\ cancelled' \in BOOLEAN
    BY <1>1, <2>1 DEF SourceInv
  <2>. QED BY <1>1, <2>1, <2>2, <2>3, <2>4, OthersDisturbNothing
<1>. QED BY <1>1, <1>2, <1>3, <1>4, <1>5, <1>6, <1>7, <1>8 DEF Next, Step

(* The invariant holds however upstream, the cache and the network behave. *)
THEOREM SourceInvariant == Spec => []SourceInv
BY InitFits, SourceInvStep, PTL DEF Spec

(* What an acquisition returns is the content of the commit it names, the  *)
(* ref pointed there meanwhile, and a second acquisition never differs.    *)
THEOREM SourceStaysTrue == Spec => []SourceIsTrue
<1>1. SourceInv => SourceIsTrue
  <2>1. SUFFICES ASSUME SourceInv
                 PROVE  SourceIsTrue
    OBVIOUS
  <2>2. TypeOK
    BY <2>1 DEF SourceInv, Acquisition, TypeOK
  <2>3. ASSUME At("done"), NEW i \in DOMAIN acq.out
        PROVE  /\ acq.out[i].content = acq.out[i].commit
               /\ acq.kind # "exact" => acq.out[i].commit \in seen.pointed[acq.out[i].tag]
    BY <2>1, <2>3 DEF SourceInv, CommitsAreTrue, Pointed
  <2>4. ~(At("keep") /\ Differs)
    BY <2>1 DEF SourceInv, CommitsAreTrue, Pointed, At, Differs, Reads
  <2>. QED BY <2>2, <2>3, <2>4 DEF SourceIsTrue
<1>. QED BY <1>1, SourceInvariant, PTL

(* A listing misses a release only if one was withdrawn meanwhile, lists   *)
(* one twice only if one was published meanwhile, and invents none.        *)
THEOREM ListingStaysComplete == Spec => []ListingIsComplete
<1>1. SourceInv => ListingIsComplete
  <2>1. SUFFICES ASSUME SourceInv, acq.step = "done", acq.kind = "release"
                 PROVE  /\ Kept \subseteq seen.ever
                        /\ ~seen.removed => seen.throughout \subseteq Kept
                        /\ ~seen.added => Len(acq.out) = Cardinality(Kept)
    BY DEF ListingIsComplete, At, Kept, TagsIn
  <2>2. Covered = Kept /\ Ahead = {}
    <3>1. acq.listed = <<>> /\ acq.batch = <<>>
      BY <2>1 DEF SourceInv, StepFits
    <3>. QED BY <2>1, <3>1 DEF Covered, Waiting, Known, AtWork, TagsIn, Ahead, Fetching, Reads
  <2>3. /\ Covered \subseteq seen.ever
        /\ ~seen.removed => seen.throughout \subseteq Covered \cup Ahead
        /\ ~seen.added => EachTagOnce(acq.out)
    BY <2>1 DEF SourceInv, ListingFits, Distinct
  <2>4. ASSUME EachTagOnce(acq.out)
        PROVE  Len(acq.out) = Cardinality(Kept)
    <3> DEFINE n == Len(acq.out)
               f == [i \in 1..n |-> acq.out[i].tag]
    <3>1. n \in Nat /\ DOMAIN acq.out = 1..n
      <4>1. acq.out \in Seq(Acquired)
        BY <2>1 DEF SourceInv, Acquisition
      <4>. QED BY <4>1
    <3>2. f \in Bijection(1..n, Kept)
      <4>1. f \in [1..n -> Kept]
        BY <3>1 DEF Kept, TagsIn
      <4>2. \A i, j \in 1..n : f[i] = f[j] => i = j
        BY <2>4, <3>1 DEF EachTagOnce
      <4>3. \A t \in Kept : \E i \in 1..n : f[i] = t
        BY <3>1 DEF Kept, TagsIn
      <4> HIDE DEF f, n
      <4>. QED BY <4>1, <4>2, <4>3 DEF Bijection, Injection, Surjection, IsInjective
    <3>3. IsFiniteSet(1..n) /\ Cardinality(1..n) = n
      BY <3>1, FS_Interval
    <3>4. ExistsBijection(1..n, Kept)
      BY <3>2 DEF ExistsBijection
    <3>. QED BY <3>3, <3>4, FS_Bijection
  <2>. QED BY <2>2, <2>3, <2>4
<1>. QED BY <1>1, SourceInvariant, PTL
=============================================================================
