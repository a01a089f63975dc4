------------------------ MODULE PackageRepository ------------------------
(***************************************************************************)
(* The APT and RPM repositories of one release channel, as the workflow     *)
(* linux-repository.yml builds and publishes them with                      *)
(* publish_linux_repository.py and build_linux_repository.py.               *)
(*                                                                          *)
(* A run downloads the newest completed release, indexes its packages and   *)
(* signs the indexes: an ISSUE.  Every run signs again, so two issues of    *)
(* one build differ in every signed file.  The publishing job copies the    *)
(* issue's files one by one to a public bucket, may fail after any of them, *)
(* and may be re-run later from its retained artifact, when newer issues    *)
(* have been published.  The workflow's concurrency group lets one run      *)
(* publish at a time.  On the internal channel a finished publication       *)
(* prunes the packages of old builds.                                       *)
(*                                                                          *)
(* An object of the bucket is named by its kind, its architecture and, when *)
(* the name holds one, its build or the issue whose digest it carries.      *)
(* Architectures are numbered in the order of their RPM names; 0 stands for *)
(* an object of both.  What a file says is what the properties need of it:  *)
(* the build it names, or the issue that signed it.                         *)
(***************************************************************************)
EXTENDS Naturals, Sequences, FiniteSets

CONSTANTS
  Archs,          \* the architectures, numbered from 1
  Builds,         \* the build numbers releases may have
  KeptBuilds,     \* KEPT_INTERNAL_BUILDS
  MaxIssues,      \* bound: runs that sign the indexes again
  MaxFailures     \* bound: publications and prunes that fail

ASSUME ArchsAssumption == Archs \subseteq Nat \ {0} /\ Archs # {}
ASSUME BuildsAssumption == Builds \subseteq Nat \ {0}
ASSUME BoundsAssumption ==
  KeptBuilds \in Nat /\ MaxIssues \in Nat /\ MaxFailures \in Nat

VARIABLES
  completed,   \* builds whose public release holds its Linux manifest
  issued,      \* the build of each issue signed so far
  bucket,      \* the public objects: what each name delivers
  todo,        \* objects the running publication has still to look at
  publishing,  \* the issue being published, 0 when none
  pruning,     \* whether the publication that just finished prunes next
  failures     \* failures so far (bounded by MaxFailures)

vars == <<completed, issued, bucket, todo, publishing, pruning, failures>>

-----------------------------------------------------------------------------
(* Names and files.                                                         *)

Object(kind, arch, id) == [kind |-> kind, arch |-> arch, id |-> id]

Deb(a, b)      == Object("Deb", a, b)        \* pool/<channel>/.../<build>.deb
Rpm(a, b)      == Object("Rpm", a, b)        \* Packages/...-<build>.rpm
ByHash(a, b)   == Object("ByHash", a, b)     \* by-hash/SHA256/<digest>
Repodata(a, i) == Object("Repodata", a, i)   \* repodata/<digest>-primary.xml.gz
Packages(a)    == Object("Packages", a, 0)
Repomd(a)      == Object("Repomd", a, 0)
RepomdAsc(a)   == Object("RepomdAsc", a, 0)
Release        == Object("Release", 0, 0)
ReleaseGpg     == Object("ReleaseGpg", 0, 0)
InRelease      == Object("InRelease", 0, 0)

\* An APT index depends on the package alone, so its digest does too.
AptObjects(b) ==
  {Deb(a, b) : a \in Archs} \cup {ByHash(a, b) : a \in Archs}
    \cup {Packages(a) : a \in Archs} \cup {Release, ReleaseGpg, InRelease}

\* createrepo_c stamps its indexes: their digests are the issue's own.
RpmObjects(b, i) ==
  {Rpm(a, b) : a \in Archs} \cup {Repodata(a, i) : a \in Archs}
    \cup {Repomd(a) : a \in Archs} \cup {RepomdAsc(a) : a \in Archs}

\* What each file of issue i of build b says: index files name the build's
\* packages, entry points and their signatures carry the issue.
SaysBuild == {"Deb", "Rpm", "ByHash", "Packages", "Repodata"}

Content(o, i, b) == IF o.kind \in SaysBuild THEN b ELSE i

Tree(i, b) == [o \in AptObjects(b) \cup RpmObjects(b, i) |-> Content(o, i, b)]

\* The independent check of a tree before it is published: the two forms of
\* the APT entry point agree and are signed, every index is there under its
\* digest, every package an index names is there, and nothing else is.
Verified(tree) ==
  LET names == DOMAIN tree
      b(a) == tree[Packages(a)]
      i(a) == tree[Repomd(a)]
  IN /\ {Release, ReleaseGpg, InRelease} \subseteq names
     /\ tree[InRelease] = tree[Release] /\ tree[ReleaseGpg] = tree[Release]
     /\ \A a \in Archs :
          /\ {Packages(a), Repomd(a), RepomdAsc(a)} \subseteq names
          /\ {ByHash(a, b(a)), Deb(a, b(a))} \subseteq names
          /\ tree[ByHash(a, b(a))] = b(a)
          /\ tree[RepomdAsc(a)] = i(a)
          /\ {Repodata(a, i(a)), Rpm(a, b(a))} \subseteq names
          /\ tree[Repodata(a, i(a))] = b(a)
     /\ names = {Release, ReleaseGpg, InRelease} \cup
          UNION {{Packages(a), Repomd(a), RepomdAsc(a), ByHash(a, b(a)),
                  Deb(a, b(a)), Repodata(a, i(a)), Rpm(a, b(a))} : a \in Archs}

\* Fault: the ranks of the ordinary files and the indexes' entry points swapped.
EntryPointsEarly(o) ==
  CASE o.kind = "InRelease" -> 5
    [] o.kind \in {"ReleaseGpg", "RepomdAsc"} -> 4
    [] o.kind \in {"Release", "Repomd"} -> 1
    [] o.kind = "Packages" -> 2
    [] OTHER -> 3

\* Fault: InRelease has the rank of the other signatures.
InReleaseAmongSignatures(o) ==
  CASE o.kind \in {"InRelease", "ReleaseGpg", "RepomdAsc"} -> 4
    [] o.kind \in {"Release", "Repomd"} -> 3
    [] o.kind = "Packages" -> 2
    [] OTHER -> 1

PublicationOrder(o) ==
  CASE o.kind = "InRelease" -> 5
    [] o.kind \in {"ReleaseGpg", "RepomdAsc"} -> 4
    [] o.kind \in {"Release", "Repomd"} -> 3
    [] o.kind = "Packages" -> 2
    [] OTHER -> 1

\* The place of a name among those of one publication order: apt/dists, then
\* apt/pool, then each RPM architecture with Packages before repodata.
NamePlace(o) ==
  CASE o.kind = "InRelease" -> 0
    [] o.kind = "Release" -> 1
    [] o.kind = "ReleaseGpg" -> 2
    [] o.kind \in {"ByHash", "Packages"} -> 2 + o.arch
    [] o.kind = "Deb" -> 10 + o.arch
    [] o.kind = "Rpm" -> 20 + 2 * o.arch
    [] OTHER -> 21 + 2 * o.arch

Before(o, p) ==
  \/ PublicationOrder(o) < PublicationOrder(p)
  \/ PublicationOrder(o) = PublicationOrder(p) /\ NamePlace(o) < NamePlace(p)

Immutable(o) == PublicationOrder(o) = 1

-----------------------------------------------------------------------------
(* The bucket.                                                              *)

Public(o) == o \in DOMAIN bucket
Put(o, says) ==
  bucket' = [p \in DOMAIN bucket \cup {o} |-> IF p = o THEN says ELSE bucket[p]]

\* The version an RPM entry point's revision names; 0 when it is not public.
Revision(a) == IF Public(Repomd(a)) THEN issued[bucket[Repomd(a)]] ELSE 0
\* The build APT clients see; 0 before the first publication.
AptBuild == IF Public(InRelease) THEN issued[bucket[InRelease]] ELSE 0

Init ==
  /\ completed = {} /\ issued = <<>>
  /\ bucket = [o \in {} |-> 0]
  /\ todo = {} /\ publishing = 0 /\ pruning = FALSE
  /\ failures = 0

Idle == publishing = 0 /\ ~pruning

-----------------------------------------------------------------------------
(* Actions.                                                                 *)

\* The release jobs upload a build's manifest, last (ReleaseAssets).  Builds
\* complete in any order: a job that failed is re-run when newer ones passed.
CompleteRelease(b) ==
  /\ b \notin completed
  /\ completed' = completed \cup {b}
  /\ UNCHANGED <<issued, bucket, todo, publishing, pruning, failures>>

NewestRelease(b) == b \in completed /\ \A c \in completed : c <= b

\* A run signs an issue of the newest completed release.  Past the bound it
\* signs only a build no issue carries yet.
Build(b) ==
  /\ Idle
  /\ NewestRelease(b)
  /\ Len(issued) >= MaxIssues => b \notin {issued[i] : i \in DOMAIN issued}
  /\ issued' = Append(issued, b)
  /\ UNCHANGED <<completed, bucket, todo, publishing, pruning, failures>>

Publish(i) ==
  /\ publishing' = i
  /\ todo' = DOMAIN Tree(i, issued[i])
  /\ UNCHANGED <<completed, issued, bucket, pruning, failures>>

\* Fault: refuses only when every architecture is newer.
StartBehindOne(i) ==
  /\ Idle
  /\ i \in DOMAIN issued
  /\ Verified(Tree(i, issued[i]))
  /\ \E a \in Archs : issued[i] >= Revision(a)
  /\ Publish(i)

\* Fault: a re-run of the version that is public is refused too.
StartOnlyAhead(i) ==
  /\ Idle
  /\ i \in DOMAIN issued
  /\ Verified(Tree(i, issued[i]))
  /\ \A a \in Archs : issued[i] > Revision(a)
  /\ Publish(i)

\* The publishing job of issue i: its own run's, or a later re-run of it.
\* It refuses to go behind an RPM revision that is already public.
StartPublish(i) ==
  /\ Idle
  /\ i \in DOMAIN issued
  /\ Verified(Tree(i, issued[i]))
  /\ \A a \in Archs : issued[i] >= Revision(a)
  /\ Publish(i)

\* What the running publication would deliver under name o.
Says(o) == Content(o, publishing, issued[publishing])

NextObject(o) == o \in todo /\ \A p \in todo \ {o} : Before(o, p)

Unchanged(o) == Public(o) /\ bucket[o] = Says(o)

\* An object that is public already is left alone.
SkipObject(o) ==
  /\ publishing # 0 /\ NextObject(o)
  /\ Unchanged(o)
  /\ todo' = todo \ {o}
  /\ UNCHANGED <<completed, issued, bucket, publishing, pruning, failures>>

\* An immutable name is written once (--if-generation-match=0); one that
\* holds other bytes stops the publication.
MayWrite(o) == ~Unchanged(o) /\ (Immutable(o) => ~Public(o))

PublishObject(o) ==
  /\ publishing # 0 /\ NextObject(o)
  /\ MayWrite(o)
  /\ Put(o, Says(o))
  /\ todo' = todo \ {o}
  /\ UNCHANGED <<completed, issued, publishing, pruning, failures>>

\* The copy fails or times out, having written the object or not, or the
\* anonymous bytes differ, or the runner is lost: the job ends there.
FailPublish(o, written) ==
  /\ publishing # 0 /\ NextObject(o)
  /\ failures < MaxFailures
  /\ failures' = failures + 1
  /\ IF written THEN MayWrite(o) /\ Put(o, Says(o)) ELSE UNCHANGED bucket
  /\ publishing' = 0 /\ todo' = {}
  /\ UNCHANGED <<completed, issued, pruning>>

FinishPublish ==
  /\ publishing # 0 /\ todo = {}
  /\ publishing' = 0 /\ pruning' = TRUE
  /\ UNCHANGED <<completed, issued, bucket, todo, failures>>

\* The packages of one directory that newer ones of it leave behind.
Newer(o) == {p \in DOMAIN bucket : p.kind = o.kind /\ p.arch = o.arch /\ p.id > o.id}
Stale ==
  {o \in DOMAIN bucket : /\ o.kind \in {"Deb", "Rpm"}
                         /\ Cardinality(Newer(o)) >= KeptBuilds}

Remove(gone) == bucket' = [o \in DOMAIN bucket \ gone |-> bucket[o]]

PruneInternalPackages ==
  /\ pruning
  /\ Remove(Stale)
  /\ pruning' = FALSE
  /\ UNCHANGED <<completed, issued, todo, publishing, failures>>

\* The step may fail, having removed any of them; the workflow goes on.
FailPrune(gone) ==
  /\ pruning
  /\ failures < MaxFailures
  /\ failures' = failures + 1
  /\ gone \subseteq Stale
  /\ Remove(gone)
  /\ pruning' = FALSE
  /\ UNCHANGED <<completed, issued, todo, publishing>>

Next ==
  \/ \E b \in Builds : CompleteRelease(b)
  \/ \E b \in Builds : Build(b)
  \/ \E i \in DOMAIN issued : StartPublish(i)
  \/ \E o \in todo : SkipObject(o)
  \/ \E o \in todo : PublishObject(o)
  \/ \E o \in todo, written \in BOOLEAN : FailPublish(o, written)
  \/ FinishPublish
  \/ PruneInternalPackages
  \/ \E gone \in SUBSET Stale : FailPrune(gone)

Spec == Init /\ [][Next]_vars

-----------------------------------------------------------------------------
(* The weekly schedule starts runs for ever, a queued run gets the           *)
(* concurrency group when it is free, and a job that does not fail goes on.  *)
(* Past MaxIssues a scheduled run is represented by its last issue.          *)
Fairness ==
  /\ \A b \in Builds : SF_vars(Build(b))
  /\ SF_vars(StartPublish(Len(issued)))
  /\ WF_vars(\E o \in todo : SkipObject(o) \/ PublishObject(o))
  /\ WF_vars(FinishPublish)
  /\ WF_vars(PruneInternalPackages)

FairSpec == Spec /\ Fairness

-----------------------------------------------------------------------------
(* Properties.                                                              *)

\* Every variable has its type.  An entry point is an issue that was signed.
TypeOK ==
  /\ completed \subseteq Builds
  /\ issued \in Seq(Builds)
  /\ \A o \in DOMAIN bucket :
       /\ o = Object(o.kind, o.arch, o.id)
       /\ bucket[o] \in Nat
       /\ o.kind \notin SaysBuild => bucket[o] \in DOMAIN issued
  /\ publishing \in {0} \cup DOMAIN issued
  /\ todo \subseteq (IF publishing = 0 THEN {} ELSE DOMAIN Tree(publishing, issued[publishing]))
  /\ pruning \in BOOLEAN /\ (pruning => publishing = 0)
  /\ failures \in 0..MaxFailures

\* APT never serves a newer build than an RPM architecture does.  publish()
\* compares with the RPM revisions only; this is why that protects APT too.
AptBehindRpm == \A a \in Archs : AptBuild <= Revision(a)

\* No run, first or re-run, newer or older, after any failure of another,
\* takes the build APT or an RPM architecture serves back to an older one.
NeverRollsBack ==
  [][/\ AptBuild' >= AptBuild
     /\ \A a \in Archs : Revision(a)' >= Revision(a)]_vars

\* "InRelease completed last": when InRelease moves to an issue, every entry
\* point, signature and index of both families is already that issue's own,
\* whatever mixture earlier failed runs had left.
InReleaseCommits ==
  [][Public(InRelease)' /\ (Public(InRelease) => bucket'[InRelease] # bucket[InRelease]) =>
       LET i == bucket'[InRelease]
           tree == Tree(i, issued[i])
       IN \A o \in DOMAIN tree \ {InRelease} : Public(o) /\ bucket[o] = tree[o]]_vars

\* Every index a public entry point names is public: a client that follows
\* InRelease or repomd.xml, also in the middle of a run or after a failed
\* one, finds the index under its digest with what it is to say.
IndexesResolve ==
  /\ Public(InRelease) => \A a \in Archs :
       Public(ByHash(a, AptBuild)) /\ bucket[ByHash(a, AptBuild)] = AptBuild
  /\ \A a \in Archs : Public(Repomd(a)) =>
       LET index == Repodata(a, bucket[Repomd(a)])
       IN Public(index) /\ bucket[index] = Revision(a)

\* Once a build's release is complete, APT and both RPM architectures come to
\* serve it or a newer one, however many runs failed or were re-run between.
ReleasesReachClients ==
  \A b \in Builds :
    b \in completed ~> AptBuild >= b /\ \A a \in Archs : Revision(a) >= b
=============================================================================
