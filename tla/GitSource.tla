----------------------------- MODULE GitSource -----------------------------
(***************************************************************************)
(* Acquisition of sources from GitHub (src/src/runtime/source/github): the *)
(* releases of a repository or the commit of a ref, first with the system  *)
(* git over ssh and https, then with the REST API; and, once the user has  *)
(* accepted a candidate, its exact commit for a second time.  Meanwhile    *)
(* releases come and go upstream, tags move, requests fail, the caller     *)
(* aborts the signal it gave, and others write, damage or delete files of  *)
(* the source cache.  The cache is in use, as it is by the command line.   *)
(*                                                                         *)
(* The content of a commit is the commit.  One step stands for the loop    *)
(* over the blobs of a tree.  How an attempt fails matters only as far as  *)
(* the code may try again: any attempt can fail.                           *)
(***************************************************************************)
EXTENDS Naturals, Sequences, FiniteSets

CONSTANTS Tag, Commit,
          Unusable,      \* commits with a tree entry that is not a file or link
          NoCommit, NoDocument,
          Damaged,       \* a file that is no document with a right seal
          FirstReleases, \* the lists of releases there may be at first
          PageSize, MaxPages,   \* RELEASE_PAGE_SIZE, MAX_RELEASE_PAGES
          MaxAttempts,          \* DEFAULT_MAX_ATTEMPTS
          MaxChanges            \* bound on what others do while we look

ASSUME SourceAssumption ==
  /\ Unusable \subseteq Commit
  /\ {NoCommit, NoDocument, Damaged} \cap Commit = {}
  /\ PageSize \in Nat \ {0} /\ MaxPages \in Nat /\ MaxAttempts \in Nat \ {0}
  /\ MaxChanges \in Nat

Release == [tag: Tag, draft: BOOLEAN]

Published(list) == {i \in DOMAIN list : ~list[i].draft}

(* A tag has one published release at most.                                *)
ASSUME ReleasesAssumption ==
  \A list \in FirstReleases :
    /\ list \in Seq(Release)
    /\ \A i, j \in Published(list) : list[i].tag = list[j].tag => i = j

VARIABLES releases,   \* upstream: the releases, newest first
          tagAt,      \* upstream: the commit of each ref
          cache,      \* the file of each commit in the source cache
          changes,
          cancelled,
          acq,        \* the acquisition
          seen        \* what was true upstream at some time since it began

world == <<releases, tagAt, changes>>
vars == <<world, cache, cancelled, acq, seen>>

----------------------------------------------------------------------------
(* A document with a right seal holds the commit it names; a file may have *)
(* the name of another.                                                    *)
File == Commit \cup {Damaged, NoDocument}

Requests == {"verify", "list", "tag", "commit", "tree", "blobs"}
GitCommands == {"init", "fetch", "show"}
Steps == Requests \cup GitCommands \cup
         {"idle", "next", "lookup", "evict", "store", "keep", "done", "failed"}

Idle == [kind |-> "release", step |-> "idle", transport |-> "git", page |-> 1,
         batch |-> <<>>, listed |-> <<>>, out |-> <<>>, attempt |-> 1,
         remote |-> "ssh", ref |-> NoCommit, commit |-> NoCommit,
         content |-> NoCommit, wanted |-> NoCommit]

Ended == acq.step \in {"idle", "done", "failed"}
At(step) == acq.step = step

Nothing == [pointed |-> [t \in Tag |-> {}], throughout |-> {}, ever |-> {},
            removed |-> FALSE, added |-> FALSE]

Become(a) == acq' = a /\ UNCHANGED <<world, cache, cancelled, seen>>
GoTo(step) == Become([acq EXCEPT !.step = step, !.attempt = 1])

(* An error is returned: what was found is forgotten.                      *)
Fail ==
  /\ acq' = [Idle EXCEPT !.step = "failed"]
  /\ cancelled' = FALSE
  /\ seen' = Nothing
  /\ UNCHANGED <<world, cache>>

----------------------------------------------------------------------------
(* Requests of the REST API.                                               *)

(* withoutCacheRoot: what is read of a commit for the cache is asked for   *)
(* without the caller's signal, and goes on after a cancellation.          *)
Unsignalled == {"commit", "tree", "blobs"}
Stopped == cancelled /\ acq.step \notin Unsignalled

(* createGitHubJsonFetchTransport: timeouts, broken connections and some   *)
(* statuses are tried again, unless the request was cancelled.             *)
MayRetry == acq.attempt < MaxAttempts /\ ~Stopped

Retry ==
  /\ acq.step \in Requests
  /\ MayRetry
  /\ Become([acq EXCEPT !.attempt = @ + 1])

(* A final status, an answer that is not what was asked for, the last      *)
(* attempt, a cancellation: the acquisition has failed.                    *)
GiveUp == acq.step \in Requests /\ Fail

Answered(step) == At(step) /\ ~Stopped

(* verifyGitHubRepository.                                                 *)
Verify ==
  /\ Answered("verify")
  /\ Become([acq EXCEPT !.attempt = 1,
                        !.step = IF acq.kind = "release" THEN "list" ELSE "tag",
                        !.batch = IF acq.kind = "release" THEN <<>> ELSE <<acq.ref>>])

Page(p) ==
  LET from == (p - 1) * PageSize + 1
      to == p * PageSize
  IN SubSeq(releases, from, IF to < Len(releases) THEN to ELSE Len(releases))

PublishedTags == {releases[i].tag : i \in Published(releases)}

(* The tags of a page in its order, without the drafts.                    *)
Tags(page) ==
  LET upTo(i) == Cardinality({j \in Published(page) : j <= i})
  IN [k \in 1..Cardinality(Published(page)) |->
        page[CHOOSE i \in Published(page) : upTo(i) = k].tag]

Listed(tag, commit) == [tag |-> tag, commit |-> commit]

(* acquirePublishedGitHubReleaseMetadata, for the system git: one page.    *)
ListTags ==
  /\ Answered("list") /\ acq.transport = "git" /\ acq.page <= MaxPages
  /\ LET page == Page(acq.page)
         tags == Tags(page)
     IN Become([acq EXCEPT !.attempt = 1,
                           !.step = IF page = <<>> THEN "next" ELSE "list",
                           !.page = IF page = <<>> THEN @ ELSE @ + 1,
                           !.listed = @ \o [i \in DOMAIN tags |-> Listed(tags[i], NoCommit)]])

(* acquirePublishedGitHubReleaseFacts: one page, its tags are resolved     *)
(* before the next one is read.                                            *)
ListFacts ==
  /\ Answered("list") /\ acq.transport = "rest" /\ acq.page <= MaxPages
  /\ LET page == Page(acq.page)
     IN Become([acq EXCEPT !.attempt = 1,
                           !.step = IF page = <<>> THEN "next"
                                    ELSE IF Tags(page) = <<>> THEN "list" ELSE "tag",
                           !.page = IF page = <<>> THEN @ ELSE @ + 1,
                           !.batch = Tags(page)])

TooManyPages == At("list") /\ acq.page > MaxPages /\ Fail

(* resolveGitHubExactCommit, for the next tag of a page or for the ref.    *)
ResolveTag ==
  /\ Answered("tag")
  /\ LET tag == Head(acq.batch)
         rest == Tail(acq.batch)
     IN /\ tagAt[tag] # NoCommit
        /\ Become([acq EXCEPT !.attempt = 1,
                              !.step = IF rest # <<>> THEN "tag"
                                       ELSE IF acq.kind = "release" THEN "list" ELSE "next",
                              !.batch = rest,
                              !.listed = Append(@, Listed(tag, tagAt[tag]))])

(* readCommitTreeSha, readRecursiveTree and readBlob for every file.       *)
ReadCommit == Answered("commit") /\ GoTo("tree")
ReadTree ==
  /\ Answered("tree")
  /\ IF acq.commit \in Unusable THEN Fail ELSE GoTo("blobs")
ReadBlobs ==
  /\ Answered("blobs")
  /\ Become([acq EXCEPT !.attempt = 1, !.step = "store", !.content = acq.commit])

----------------------------------------------------------------------------
(* The system git.                                                         *)

(* Mutant: what was found so far is kept.                                  *)
FellBackKeeping(a) ==
  [a EXCEPT !.transport = "rest", !.step = IF a.kind = "release" THEN "list" ELSE "verify",
            !.listed = <<>>, !.page = 1, !.attempt = 1]

(* Mutant: git is tried once more.                                         *)
FellBackToGit(a) ==
  [a EXCEPT !.step = IF a.kind = "release" THEN "list" ELSE "init",
            !.listed = <<>>, !.out = <<>>, !.page = 1, !.attempt = 1]

(* When git cannot be used everything starts anew with the REST API.       *)
FellBack(a) ==
  [a EXCEPT !.transport = "rest", !.step = IF a.kind = "release" THEN "list" ELSE "verify",
            !.listed = <<>>, !.out = <<>>, !.page = 1, !.attempt = 1]

(* GitHubSystemGitUnavailable, unless its reason is that it was aborted.   *)
GitFails ==
  /\ acq.step \in GitCommands
  /\ \/ Become(FellBack(acq))
     \/ cancelled /\ Fail

GitInit == At("init") /\ ~cancelled /\ Become([acq EXCEPT !.step = "fetch", !.remote = "ssh"])

(* gitHubSystemGitRemoteCandidates: https when ssh gives no access.        *)
FetchElsewhere ==
  /\ At("fetch") /\ ~cancelled /\ acq.remote = "ssh"
  /\ Become([acq EXCEPT !.remote = "https"])

(* git fetch and git rev-parse FETCH_HEAD.                                 *)
Fetch ==
  /\ At("fetch") /\ ~cancelled
  /\ tagAt[acq.ref] # NoCommit
  /\ Become([acq EXCEPT !.step = "lookup", !.commit = tagAt[acq.ref]])

(* git ls-tree and git cat-file; an entry of another kind is an error of   *)
(* the source, not of git.                                                 *)
Show ==
  /\ At("show") /\ ~cancelled
  /\ IF acq.commit \in Unusable THEN Fail
     ELSE Become([acq EXCEPT !.step = "store", !.content = acq.commit])

----------------------------------------------------------------------------
(* The source cache.                                                       *)

(* Mutant: any document with a right seal will do.                         *)
AcceptsSealed(file, commit) == file \in Commit

(* parseCacheDocument.                                                     *)
Accepts(file, commit) == file = commit

Reading == IF acq.transport = "git" THEN "show" ELSE "commit"

(* readCachedSnapshot.                                                     *)
CacheHit ==
  /\ At("lookup")
  /\ Accepts(cache[acq.commit], acq.commit)
  /\ Become([acq EXCEPT !.step = "keep", !.content = cache[acq.commit]])

(* There is no document, or it cannot be read.                             *)
CacheMiss == At("lookup") /\ GoTo(Reading)

CacheRefused ==
  /\ At("lookup")
  /\ cache[acq.commit] # NoDocument /\ ~Accepts(cache[acq.commit], acq.commit)
  /\ GoTo("evict")

(* removeBestEffort: of whatever is there by now, if it can be removed.    *)
Evict ==
  /\ At("evict")
  /\ cache' \in {cache, [cache EXCEPT ![acq.commit] = NoDocument]}
  /\ acq' = [acq EXCEPT !.step = Reading]
  /\ UNCHANGED <<world, cancelled, seen>>

(* writeCachedSnapshotBestEffort: one rename, or nothing.                  *)
Store ==
  /\ At("store")
  /\ cache' \in {cache, [cache EXCEPT ![acq.commit] = acq.content]}
  /\ acq' = [acq EXCEPT !.step = "keep"]
  /\ UNCHANGED <<world, cancelled, seen>>

----------------------------------------------------------------------------
(* The acquisitions.                                                       *)

Now == [pointed |-> [t \in Tag |-> {tagAt[t]} \ {NoCommit}],
        throughout |-> PublishedTags, ever |-> PublishedTags,
        removed |-> FALSE, added |-> FALSE]

Start(a) ==
  /\ acq' = a
  /\ seen' = IF a.kind = "exact" THEN Nothing ELSE Now
  /\ cancelled' = FALSE
  /\ UNCHANGED <<world, cache>>

(* acquireGitHubReleaseRepositorySource.                                   *)
StartRelease ==
  /\ Ended
  /\ Start([Idle EXCEPT !.kind = "release", !.step = "verify"])

(* acquireGitHubGitBinding.                                                *)
StartGit(t) ==
  /\ Ended
  /\ Start([Idle EXCEPT !.kind = "git", !.step = "next", !.ref = t,
                        !.listed = <<Listed(t, NoCommit)>>])

(* acquireLifecycleCandidatePackageSnapshots: for one of the commits that  *)
(* were found, with the REST API only.                                     *)
StartExact(i) ==
  /\ At("done") /\ acq.kind # "exact"
  /\ Start([Idle EXCEPT !.kind = "exact", !.step = "next", !.transport = "rest",
                        !.wanted = acq.out[i].content,
                        !.listed = <<Listed(acq.out[i].tag, acq.out[i].commit)>>])

(* The next commit to acquire, or the end.                                 *)
TakeNext ==
  /\ At("next")
  /\ IF acq.listed = <<>> THEN GoTo("done")
     ELSE Become([acq EXCEPT !.listed = Tail(@),
                             !.ref = Head(acq.listed).tag,
                             !.commit = Head(acq.listed).commit,
                             !.step = IF acq.transport = "git" THEN "init" ELSE "lookup"])

Found(a) == [tag |-> a.ref, commit |-> a.commit, content |-> a.content]

(* The second time the content must be what was accepted.                  *)
Differs == acq.kind = "exact" /\ acq.content # acq.wanted

Keep ==
  /\ At("keep")
  /\ IF Differs THEN Fail
     ELSE Become([acq EXCEPT !.step = "next", !.out = Append(@, Found(acq)),
                             !.commit = NoCommit, !.content = NoCommit])

----------------------------------------------------------------------------
(* What others do meanwhile.                                               *)

Happens == changes < MaxChanges /\ changes' = changes + 1 /\ UNCHANGED <<acq, cancelled>>

Sees(new) == seen' = IF Ended \/ acq.kind = "exact" THEN seen ELSE new

Publish(t, c) ==
  /\ Happens
  /\ \A i \in DOMAIN releases : releases[i].tag # t
  /\ releases' = <<[tag |-> t, draft |-> FALSE]>> \o releases
  /\ tagAt' = [tagAt EXCEPT ![t] = IF @ = NoCommit THEN c ELSE @]
  /\ Sees([seen EXCEPT !.added = TRUE, !.ever = @ \cup {t},
                      !.pointed[t] = @ \cup {tagAt'[t]}])
  /\ UNCHANGED cache

Withdraw(i) ==
  /\ Happens
  /\ releases' = SubSeq(releases, 1, i - 1) \o SubSeq(releases, i + 1, Len(releases))
  /\ Sees([seen EXCEPT !.removed = TRUE, !.throughout = @ \ {releases[i].tag}])
  /\ UNCHANGED <<tagAt, cache>>

MoveTag(t, c) ==
  /\ Happens
  /\ tagAt[t] # c
  /\ tagAt' = [tagAt EXCEPT ![t] = c]
  /\ Sees([seen EXCEPT !.pointed[t] = @ \cup ({c} \ {NoCommit})])
  /\ UNCHANGED <<releases, cache>>

(* Another process wrote the file, the user deleted or damaged it, or      *)
(* copied it to the name of another commit.                                *)
TouchCache(c, file) ==
  /\ Happens
  /\ file # cache[c]
  /\ cache' = [cache EXCEPT ![c] = file]
  /\ UNCHANGED <<releases, tagAt, seen>>

Cancel ==
  /\ ~Ended /\ ~cancelled
  /\ cancelled' = TRUE
  /\ UNCHANGED <<world, cache, acq, seen>>

Init ==
  /\ releases \in FirstReleases
  /\ \E c \in Commit :
       tagAt = [t \in Tag |-> IF \E i \in DOMAIN releases : releases[i].tag = t
                                THEN c ELSE NoCommit]
  /\ cache = [c \in Commit |-> NoDocument]
  /\ changes = 0
  /\ cancelled = FALSE
  /\ acq = Idle
  /\ seen = Nothing

Request == \/ Retry \/ GiveUp \/ Verify \/ ListTags \/ ListFacts \/ TooManyPages
           \/ ResolveTag \/ ReadCommit \/ ReadTree \/ ReadBlobs
Git == GitFails \/ GitInit \/ FetchElsewhere \/ Fetch \/ Show
Caching == CacheHit \/ CacheMiss \/ CacheRefused \/ Evict \/ Store
Step == Request \/ Git \/ Caching \/ TakeNext \/ Keep

Begin ==
  \/ StartRelease
  \/ \E t \in Tag : StartGit(t)
  \/ \E i \in DOMAIN acq.out : StartExact(i)

Others ==
  \/ \E t \in Tag, c \in Commit : Publish(t, c)
  \/ \E i \in DOMAIN releases : Withdraw(i)
  \/ \E t \in Tag, c \in Commit \cup {NoCommit} : MoveTag(t, c)
  \/ \E c \in Commit, file \in File : TouchCache(c, file)
  \/ Cancel

Next == Step \/ Begin \/ Others

Spec == Init /\ [][Next]_vars

(* An acquisition that runs goes on: every request has a timeout.  The     *)
(* code gives none to a git command: that git gives up is assumed.         *)
FairSpec == Spec /\ WF_vars(Step)

----------------------------------------------------------------------------
Acquired == [tag: Tag, commit: Commit, content: Commit]

TypeOK ==
  /\ releases \in Seq(Release)
  /\ tagAt \in [Tag -> Commit \cup {NoCommit}]
  /\ cache \in [Commit -> File]
  /\ changes \in 0..MaxChanges
  /\ cancelled \in BOOLEAN
  /\ acq.step \in Steps
  /\ acq.page \in 1..(MaxPages + 1) /\ acq.attempt \in 1..MaxAttempts
  /\ acq.batch \in Seq(Tag)
  /\ acq.listed \in Seq([tag: Tag, commit: Commit \cup {NoCommit}])
  /\ acq.out \in Seq(Acquired)

(* What an acquisition returns is the content of the commit it names, and  *)
(* the tag or ref pointed at that commit at some time since it began,      *)
(* whatever is in the cache and whichever transport it came by; hence the  *)
(* second acquisition of an accepted commit never finds other content      *)
(* (snapshotMismatch, apply.ts:177).                                       *)
SourceIsTrue ==
  /\ TypeOK
  /\ At("done") => \A i \in DOMAIN acq.out :
       /\ acq.out[i].content = acq.out[i].commit
       /\ acq.kind # "exact" => acq.out[i].commit \in seen.pointed[acq.out[i].tag]
  /\ ~(At("keep") /\ Differs)

(* A listing of releases that changes between two of its pages: a release  *)
(* is missed only if another was withdrawn meanwhile, and appears twice    *)
(* (which the resolver takes for an ambiguous version) only if another was *)
(* published meanwhile; and nothing else appears, even if git failed half  *)
(* way and the listing was made again.                                     *)
ListingIsComplete ==
  At("done") /\ acq.kind = "release" =>
    LET tags == {acq.out[i].tag : i \in DOMAIN acq.out} IN
    /\ tags \subseteq seen.ever
    /\ ~seen.removed => seen.throughout \subseteq tags
    /\ ~seen.added => Len(acq.out) = Cardinality(tags)

(* Every acquisition ends, however often its attempts fail, git gives way  *)
(* to the REST API half way or pages keep coming; and so does one that was *)
(* cancelled while requests are out that do not hear of it.                *)
AcquisitionEnds == ~Ended ~> Ended
=============================================================================
