-------------------------- MODULE RepositoryProofs -------------------------
(***************************************************************************)
(* Proofs about the package repositories, for any architectures, builds,    *)
(* issues and failures: a publication never takes clients back, InRelease   *)
(* commits a whole issue, and every index a client is sent to is there.     *)
(*                                                                          *)
(* The strengthening follows a running publication: it was admitted above   *)
(* every RPM revision, and what is no longer in its todo is public and its  *)
(* own.  The publication order then makes InRelease the last object, and    *)
(* an index precede the repomd.xml that names it.                           *)
(***************************************************************************)
EXTENDS PackageRepository, TLAPS

\* The publication under way is not behind any RPM revision.
NotBehind ==
  publishing # 0 => \A a \in Archs : Revision(a) <= issued[publishing]

\* What it has dealt with is public as it says.
DealtWith ==
  publishing # 0 =>
    \A o \in DOMAIN Tree(publishing, issued[publishing]) \ todo :
      Public(o) /\ bucket[o] = Says(o)

RepositoryInv ==
  /\ TypeOK
  /\ NotBehind
  /\ DealtWith
  /\ AptBehindRpm
  /\ IndexesResolve

-----------------------------------------------------------------------------
(* Names, trees and their order.                                             *)

\* The objects of a tree that the proofs speak of.
LEMMA TreeHolds ==
  ASSUME NEW i, NEW b
  PROVE  /\ InRelease \in DOMAIN Tree(i, b)
         /\ \A a \in Archs : {Repomd(a), Repodata(a, i), ByHash(a, b)} \subseteq DOMAIN Tree(i, b)
  BY DEF Tree, AptObjects, RpmObjects

\* What any object of a tree is.
LEMMA TreeMembers ==
  ASSUME NEW i, NEW b, NEW o \in DOMAIN Tree(i, b)
  PROVE  /\ o = Object(o.kind, o.arch, o.id)
         /\ o.kind \in {"Deb", "Rpm", "ByHash", "Repodata", "Packages", "Repomd",
                        "RepomdAsc", "Release", "ReleaseGpg", "InRelease"}
         /\ o.kind = "InRelease" => o = InRelease
         /\ o.kind = "Repomd" => o = Repomd(o.arch) /\ o.arch \in Archs
         /\ o.kind = "ByHash" => o.id = b
         /\ o.kind = "Repodata" => o.id = i
  <1>1. o \in AptObjects(b) \cup RpmObjects(b, i)
    BY DEF Tree
  <1>2. CASE o \in AptObjects(b)
    BY <1>2 DEF AptObjects, Object, Deb, ByHash, Packages, Release, ReleaseGpg, InRelease
  <1>3. CASE o \in RpmObjects(b, i)
    BY <1>3 DEF RpmObjects, Object, Rpm, Repodata, Repomd, RepomdAsc
  <1> QED
    BY <1>1, <1>2, <1>3

\* Names of different kinds, architectures or ids differ.
LEMMA NamesDiffer ==
  /\ InRelease.kind = "InRelease"
  /\ \A a : /\ Repomd(a).kind = "Repomd" /\ Repomd(a).arch = a
  /\ \A a, x : /\ ByHash(a, x).kind = "ByHash" /\ ByHash(a, x).arch = a /\ ByHash(a, x).id = x
               /\ Repodata(a, x).kind = "Repodata" /\ Repodata(a, x).arch = a
               /\ Repodata(a, x).id = x
  BY DEF InRelease, Repomd, ByHash, Repodata, Object

\* InRelease comes after all that is left.
LEMMA InReleaseIsLast ==
  ASSUME TypeOK, publishing # 0, NextObject(InRelease)
  PROVE  todo = {InRelease}
  <1> SUFFICES ASSUME NEW p \in todo, p # InRelease PROVE FALSE
    BY DEF NextObject
  <1>1. p \in DOMAIN Tree(publishing, issued[publishing])
    BY DEF TypeOK
  <1>2. p.kind # "InRelease"
    BY <1>1, TreeMembers
  <1>3. PublicationOrder(InRelease) = 5 /\ PublicationOrder(p) \in 1..4
    BY <1>2, NamesDiffer DEF PublicationOrder
  <1>4. Before(InRelease, p)
    BY DEF NextObject
  <1> QED
    BY <1>3, <1>4 DEF Before

\* When repomd.xml comes, the index it names has been dealt with.
LEMMA IndexBeforeRepomd ==
  ASSUME NEW a \in Archs, NextObject(Repomd(a)), NEW i
  PROVE  Repodata(a, i) \notin todo
  <1> SUFFICES ASSUME Repodata(a, i) \in todo PROVE FALSE
    OBVIOUS
  <1>1. Repodata(a, i) # Repomd(a)
    BY NamesDiffer
  <1>2. Before(Repomd(a), Repodata(a, i))
    BY <1>1 DEF NextObject
  <1>3. PublicationOrder(Repomd(a)) = 3 /\ PublicationOrder(Repodata(a, i)) = 1
    BY NamesDiffer DEF PublicationOrder
  <1> QED
    BY <1>2, <1>3 DEF Before

\* Writing one object leaves the others.
LEMMA PutWrites ==
  ASSUME NEW o, NEW says, Put(o, says)
  PROVE  /\ DOMAIN bucket' = DOMAIN bucket \cup {o}
         /\ bucket'[o] = says
         /\ \A p \in DOMAIN bucket : p # o => bucket'[p] = bucket[p]
  BY DEF Put

-----------------------------------------------------------------------------
(* Initially.                                                                *)

LEMMA InitRepositoryInv == Init => RepositoryInv
  <1> SUFFICES ASSUME Init PROVE RepositoryInv
    OBVIOUS
  <1> USE DEF Init
  <1>1. TypeOK
    <2>1. issued \in Seq(Builds) /\ DOMAIN bucket = {}
      OBVIOUS
    <2>2. failures \in 0..MaxFailures
      BY BoundsAssumption
    <2> QED
      BY <2>1, <2>2 DEF TypeOK
  <1>2. \A o : ~Public(o)
    BY DEF Public
  <1> QED
    BY <1>1, <1>2
    DEF RepositoryInv, NotBehind, DealtWith, AptBehindRpm, IndexesResolve, AptBuild, Revision

-----------------------------------------------------------------------------
(* The steps.                                                                *)

LEMMA BuildsAreNumbers == \A b \in Builds : b \in Nat
  BY BuildsAssumption

\* The build of the publication, and of any entry point that is public.
LEMMA PublishedBuilds ==
  ASSUME TypeOK, publishing # 0
  PROVE  /\ publishing \in DOMAIN issued /\ publishing \in Nat
         /\ issued[publishing] \in Builds /\ issued[publishing] \in Nat
         /\ \A o : Says(o) \in {publishing, issued[publishing]}
         /\ \A o : o.kind \notin SaysBuild => Says(o) = publishing
         /\ \A o : o.kind \in SaysBuild => Says(o) = issued[publishing]
  <1>1. publishing \in DOMAIN issued /\ issued \in Seq(Builds)
    BY DEF TypeOK
  <1>2. publishing \in 1..Len(issued) /\ issued[publishing] \in Builds
    BY <1>1
  <1>3. \A o : Says(o) = IF o.kind \in SaysBuild THEN issued[publishing] ELSE publishing
    BY DEF Says, Content
  <1>4. publishing \in Nat /\ issued[publishing] \in Nat
    <2>1. Len(issued) \in Nat
      BY <1>1
    <2>2. publishing \in Nat
      BY <1>2, <2>1
    <2> QED
      BY <1>2, <2>2, BuildsAreNumbers
  <1> QED
    BY <1>1, <1>2, <1>3, <1>4

LEMMA RevisionsTyped ==
  ASSUME TypeOK
  PROVE  AptBuild \in Nat /\ \A a \in Archs : Revision(a) \in Nat
  <1>1. /\ issued \in Seq(Builds)
        /\ \A o \in DOMAIN bucket : o.kind \notin SaysBuild => bucket[o] \in DOMAIN issued
    BY DEF TypeOK
  <1>2. \A i \in DOMAIN issued : issued[i] \in Nat
    BY <1>1, BuildsAreNumbers
  <1>3. InRelease.kind \notin SaysBuild /\ \A a : Repomd(a).kind \notin SaysBuild
    BY NamesDiffer DEF SaysBuild
  <1> QED
    BY <1>1, <1>2, <1>3 DEF AptBuild, Revision, Public

\* One object of the publication is written, in its order.
LEMMA PutKeeps ==
  ASSUME RepositoryInv, publishing # 0, NEW o \in todo, NextObject(o),
         Put(o, Says(o)), UNCHANGED issued
  PROVE  /\ \A p \in DOMAIN bucket' :
              /\ p = Object(p.kind, p.arch, p.id)
              /\ bucket'[p] \in Nat
              /\ p.kind \notin SaysBuild => bucket'[p] \in DOMAIN issued
         /\ \A p \in DOMAIN Tree(publishing, issued[publishing]) \ (todo \ {o}) :
              p \in DOMAIN bucket' /\ bucket'[p] = Says(p)
         /\ \A a \in Archs : Revision(a)' >= Revision(a) /\ Revision(a)' <= issued[publishing]
         /\ AptBuild' >= AptBuild
         /\ AptBehindRpm'
         /\ IndexesResolve'
         /\ o = InRelease => bucket'[InRelease] = publishing /\ todo = {InRelease}
  <1> DEFINE tree == DOMAIN Tree(publishing, issued[publishing])
  <1>1. TypeOK /\ NotBehind /\ DealtWith /\ AptBehindRpm /\ IndexesResolve
    BY DEF RepositoryInv
  <1>2. o \in tree /\ todo \subseteq tree
    BY <1>1 DEF TypeOK
  <1>3. /\ publishing \in DOMAIN issued /\ publishing \in Nat
        /\ issued[publishing] \in Builds /\ issued[publishing] \in Nat
        /\ Says(o) \in {publishing, issued[publishing]}
        /\ \A p : p.kind \notin SaysBuild => Says(p) = publishing
        /\ \A p : p.kind \in SaysBuild => Says(p) = issued[publishing]
    BY <1>1, PublishedBuilds
  <1>4. /\ DOMAIN bucket' = DOMAIN bucket \cup {o}
        /\ bucket'[o] = Says(o)
        /\ \A p \in DOMAIN bucket : p # o => bucket'[p] = bucket[p]
    BY PutWrites
  <1>5. \A p \in DOMAIN bucket' :
          /\ p = Object(p.kind, p.arch, p.id)
          /\ bucket'[p] \in Nat
          /\ p.kind \notin SaysBuild => bucket'[p] \in DOMAIN issued
    <2>1. o = Object(o.kind, o.arch, o.id)
      BY <1>2, TreeMembers
    <2> QED
      BY <1>1, <1>3, <1>4, <2>1 DEF TypeOK
  <1>6. \A p \in tree \ (todo \ {o}) : p \in DOMAIN bucket' /\ bucket'[p] = Says(p)
    BY <1>1, <1>4 DEF DealtWith, Public
  <1>7. AptBuild \in Nat /\ \A a \in Archs : Revision(a) \in Nat
    BY <1>1, RevisionsTyped
  <1>8. \A a \in Archs :
          IF o = Repomd(a) THEN Revision(a)' = issued[publishing]
                           ELSE Revision(a)' = Revision(a)
    BY <1>3, <1>4, NamesDiffer DEF Revision, Public, SaysBuild
  <1>9. IF o = InRelease THEN AptBuild' = issued[publishing] ELSE AptBuild' = AptBuild
    BY <1>3, <1>4, NamesDiffer DEF AptBuild, Public, SaysBuild
  <1>10. o = InRelease => bucket'[InRelease] = publishing /\ todo = {InRelease}
    BY <1>1, <1>3, <1>4, InReleaseIsLast, NamesDiffer DEF SaysBuild
  <1>11. \A a \in Archs : Revision(a)' >= Revision(a) /\ Revision(a)' <= issued[publishing]
    BY <1>1, <1>3, <1>7, <1>8 DEF NotBehind
  <1>12. o = InRelease => \A a \in Archs : Revision(a)' = issued[publishing]
    <2> SUFFICES ASSUME o = InRelease, NEW a \in Archs PROVE Revision(a)' = issued[publishing]
      OBVIOUS
    <2>1. Repomd(a) \in tree /\ Repomd(a) # InRelease
      BY TreeHolds, NamesDiffer
    <2>2. Repomd(a) \in DOMAIN bucket' /\ bucket'[Repomd(a)] = publishing
      BY <1>3, <1>6, <1>10, <2>1, NamesDiffer DEF SaysBuild
    <2> QED
      BY <2>2 DEF Revision, Public
  <1>13. AptBuild' >= AptBuild
    <2>1. PICK a \in Archs : TRUE
      BY ArchsAssumption
    <2>2. AptBuild <= Revision(a) /\ Revision(a) <= issued[publishing]
      BY <1>1 DEF AptBehindRpm, NotBehind
    <2> QED
      BY <1>3, <1>7, <1>9, <2>2
  <1>14. AptBehindRpm'
    <2> SUFFICES ASSUME NEW a \in Archs PROVE AptBuild' <= Revision(a)'
      BY DEF AptBehindRpm
    <2>1. CASE o = InRelease
      BY <1>3, <1>9, <1>12, <2>1
    <2>2. CASE o # InRelease
      <3>1. AptBuild <= Revision(a)
        BY <1>1 DEF AptBehindRpm
      <3> QED
        BY <1>3, <1>7, <1>8, <1>9, <1>11, <2>2, <3>1
    <2> QED
      BY <2>1, <2>2
  <1>15. ASSUME NEW a \in Archs, InRelease \in DOMAIN bucket'
         PROVE  /\ ByHash(a, AptBuild') \in DOMAIN bucket'
                /\ bucket'[ByHash(a, AptBuild')] = AptBuild'
    <2>1. CASE o = InRelease
      <3>1. ByHash(a, issued[publishing]) \in tree /\ ByHash(a, issued[publishing]) # InRelease
        BY TreeHolds, NamesDiffer
      <3> QED
        BY <1>3, <1>6, <1>9, <1>10, <2>1, <3>1, NamesDiffer DEF SaysBuild
    <2>2. CASE o # InRelease
      <3>1. AptBuild' = AptBuild /\ InRelease \in DOMAIN bucket
        BY <1>4, <1>9, <1>15, <2>2
      <3>2. ByHash(a, AptBuild) \in DOMAIN bucket /\ bucket[ByHash(a, AptBuild)] = AptBuild
        BY <1>1, <3>1 DEF IndexesResolve, Public
      <3>3. o = ByHash(a, AptBuild) => issued[publishing] = AptBuild
        BY <1>2, TreeMembers, NamesDiffer
      <3>4. o = ByHash(a, AptBuild) => Says(o) = issued[publishing]
        BY <1>3, NamesDiffer DEF SaysBuild
      <3> QED
        BY <1>4, <3>1, <3>2, <3>3, <3>4
    <2> QED
      BY <2>1, <2>2
  <1>16. ASSUME NEW a \in Archs, Repomd(a) \in DOMAIN bucket'
         PROVE  /\ Repodata(a, bucket'[Repomd(a)]) \in DOMAIN bucket'
                /\ bucket'[Repodata(a, bucket'[Repomd(a)])] = Revision(a)'
    <2>1. CASE o = Repomd(a)
      <3>1. bucket'[Repomd(a)] = publishing /\ Revision(a)' = issued[publishing]
        BY <1>3, <1>4, <1>8, <2>1, NamesDiffer DEF SaysBuild
      <3>2. Repodata(a, publishing) \in tree \ todo
        BY <2>1, TreeHolds, IndexBeforeRepomd
      <3> QED
        BY <1>3, <1>6, <3>1, <3>2, NamesDiffer DEF SaysBuild
    <2>2. CASE o # Repomd(a)
      <3> DEFINE i == bucket[Repomd(a)]
      <3>1. /\ Repomd(a) \in DOMAIN bucket /\ bucket'[Repomd(a)] = i
            /\ Revision(a)' = Revision(a) /\ Revision(a) = issued[i]
        BY <1>4, <1>8, <1>16, <2>2 DEF Revision, Public
      <3>2. Repodata(a, i) \in DOMAIN bucket /\ bucket[Repodata(a, i)] = Revision(a)
        BY <1>1, <3>1 DEF IndexesResolve, Public
      <3> HIDE DEF i
      <3>3. o = Repodata(a, i) => i = publishing
        BY <1>2, TreeMembers, NamesDiffer
      <3>4. o = Repodata(a, i) => Says(o) = issued[publishing]
        BY <1>3, NamesDiffer DEF SaysBuild
      <3> QED
        BY <1>4, <3>1, <3>2, <3>3, <3>4
    <2> QED
      BY <2>1, <2>2
  <1>17. IndexesResolve'
    BY <1>15, <1>16 DEF IndexesResolve, Public
  <1> QED
    BY <1>4, <1>5, <1>6, <1>10, <1>11, <1>13, <1>14, <1>17
\* A step that touches only packages and adds only issues is not noticed.
LEMMA ClientsKept ==
  ASSUME TypeOK, AptBehindRpm, IndexesResolve,
         \A o : o.kind \notin {"Deb", "Rpm"} =>
           /\ o \in DOMAIN bucket' <=> o \in DOMAIN bucket
           /\ o \in DOMAIN bucket => bucket'[o] = bucket[o],
         \A i \in DOMAIN issued : issued'[i] = issued[i]
  PROVE  /\ AptBuild' = AptBuild
         /\ \A a \in Archs : Revision(a)' = Revision(a)
         /\ AptBehindRpm'
         /\ IndexesResolve'
         /\ InRelease \in DOMAIN bucket' => InRelease \in DOMAIN bucket
         /\ InRelease \in DOMAIN bucket => bucket'[InRelease] = bucket[InRelease]
  <1>1. /\ InRelease.kind \notin {"Deb", "Rpm"} /\ InRelease.kind \notin SaysBuild
        /\ \A a : Repomd(a).kind \notin {"Deb", "Rpm"} /\ Repomd(a).kind \notin SaysBuild
        /\ \A a, x : /\ ByHash(a, x).kind \notin {"Deb", "Rpm"}
                     /\ Repodata(a, x).kind \notin {"Deb", "Rpm"}
    BY NamesDiffer DEF SaysBuild
  <1>2. \A o \in DOMAIN bucket : o.kind \notin SaysBuild => bucket[o] \in DOMAIN issued
    BY DEF TypeOK
  <1>3. AptBuild' = AptBuild
    BY <1>1, <1>2 DEF AptBuild, Public
  <1>4. \A a \in Archs : Revision(a)' = Revision(a)
    BY <1>1, <1>2 DEF Revision, Public
  <1>5. AptBehindRpm'
    BY <1>3, <1>4 DEF AptBehindRpm
  <1>6. IndexesResolve'
    <2>1. ASSUME NEW a \in Archs, InRelease \in DOMAIN bucket'
          PROVE  /\ ByHash(a, AptBuild') \in DOMAIN bucket'
                 /\ bucket'[ByHash(a, AptBuild')] = AptBuild'
      <3>1. ByHash(a, AptBuild) \in DOMAIN bucket /\ bucket[ByHash(a, AptBuild)] = AptBuild
        BY <1>1, <2>1 DEF IndexesResolve, Public
      <3> QED
        BY <1>1, <1>3, <3>1
    <2>2. ASSUME NEW a \in Archs, Repomd(a) \in DOMAIN bucket'
          PROVE  /\ Repodata(a, bucket'[Repomd(a)]) \in DOMAIN bucket'
                 /\ bucket'[Repodata(a, bucket'[Repomd(a)])] = Revision(a)'
      <3>1. Repomd(a) \in DOMAIN bucket /\ bucket'[Repomd(a)] = bucket[Repomd(a)]
        BY <1>1, <2>2
      <3>2. /\ Repodata(a, bucket[Repomd(a)]) \in DOMAIN bucket
            /\ bucket[Repodata(a, bucket[Repomd(a)])] = Revision(a)
        BY <3>1 DEF IndexesResolve, Public
      <3> QED
        BY <1>1, <1>4, <3>1, <3>2
    <2> QED
      BY <2>1, <2>2 DEF IndexesResolve, Public
  <1> QED
    BY <1>1, <1>3, <1>4, <1>5, <1>6

\* What a step may do to the served builds and to InRelease.
NotBack ==
  /\ AptBuild' >= AptBuild
  /\ \A a \in Archs : Revision(a)' >= Revision(a)

Commits ==
  Public(InRelease)' /\ (Public(InRelease) => bucket'[InRelease] # bucket[InRelease]) =>
    LET i == bucket'[InRelease]
        tree == Tree(i, issued[i])
    IN \A o \in DOMAIN tree \ {InRelease} : Public(o) /\ bucket[o] = tree[o]

\* The same, for a step that leaves the bucket and the issues alone.
LEMMA BucketKept ==
  ASSUME RepositoryInv, UNCHANGED <<bucket, issued>>
  PROVE  AptBehindRpm' /\ IndexesResolve' /\ NotBack /\ Commits
  <1>1. AptBuild' = AptBuild /\ \A a \in Archs : Revision(a)' = Revision(a)
    BY DEF AptBuild, Revision, Public
  <1>2. AptBuild \in Nat /\ \A a \in Archs : Revision(a) \in Nat
    BY RevisionsTyped DEF RepositoryInv
  <1>3. AptBehindRpm' /\ IndexesResolve'
    BY <1>1 DEF RepositoryInv, AptBehindRpm, IndexesResolve, Public
  <1>4. NotBack /\ Commits
    BY <1>1, <1>2 DEF NotBack, Commits, Public
  <1> QED
    BY <1>3, <1>4

LEMMA CompleteKeeps ==
  ASSUME RepositoryInv, NEW b \in Builds, CompleteRelease(b)
  PROVE  RepositoryInv' /\ NotBack /\ Commits
  <1>1. UNCHANGED <<issued, bucket, todo, publishing, pruning, failures>>
    BY DEF CompleteRelease
  <1>2. TypeOK'
    BY DEF CompleteRelease, RepositoryInv, TypeOK, Tree
  <1>3. NotBehind' /\ DealtWith'
    BY <1>1 DEF RepositoryInv, NotBehind, DealtWith, Says, Public, Revision
  <1> QED
    BY <1>1, <1>2, <1>3, BucketKept DEF RepositoryInv

\* A new issue leaves the earlier ones what they are.
LEMMA BuildKeeps ==
  ASSUME RepositoryInv, NEW b \in Builds, Build(b)
  PROVE  RepositoryInv' /\ NotBack /\ Commits
  <1>1. /\ issued' = Append(issued, b) /\ publishing = 0 /\ ~pruning
        /\ UNCHANGED <<completed, bucket, todo, publishing, pruning, failures>>
    BY DEF Build, Idle
  <1>2. TypeOK /\ issued \in Seq(Builds)
    BY DEF RepositoryInv, TypeOK
  <1>3. /\ issued' \in Seq(Builds) /\ DOMAIN issued \subseteq DOMAIN issued'
        /\ \A i \in DOMAIN issued : issued'[i] = issued[i]
    BY <1>1, <1>2
  <1>4. TypeOK'
    BY <1>1, <1>2, <1>3 DEF TypeOK
  <1>5. NotBehind' /\ DealtWith'
    BY <1>1 DEF NotBehind, DealtWith
  <1>6. /\ AptBuild' = AptBuild /\ \A a \in Archs : Revision(a)' = Revision(a)
        /\ AptBehindRpm' /\ IndexesResolve'
    BY <1>1, <1>2, <1>3, ClientsKept DEF RepositoryInv
  <1>7. NotBack /\ Commits
    BY <1>1, <1>2, <1>6, RevisionsTyped DEF NotBack, Commits, Public
  <1> QED
    BY <1>4, <1>5, <1>6, <1>7 DEF RepositoryInv

\* A publication begins above every revision, with everything to look at.
LEMMA StartKeeps ==
  ASSUME RepositoryInv, NEW i \in DOMAIN issued, StartPublish(i)
  PROVE  RepositoryInv' /\ NotBack /\ Commits
  <1>1. /\ publishing' = i /\ todo' = DOMAIN Tree(i, issued[i])
        /\ UNCHANGED <<completed, issued, bucket, pruning, failures>>
        /\ ~pruning /\ \A a \in Archs : issued[i] >= Revision(a)
    BY DEF StartPublish, Publish, Idle
  <1>2. TypeOK /\ issued \in Seq(Builds)
    BY DEF RepositoryInv, TypeOK
  <1>3. i \in Nat /\ i # 0 /\ issued[i] \in Nat
    <2>1. Len(issued) \in Nat /\ DOMAIN issued = 1..Len(issued)
      BY <1>2
    <2>2. i \in 1..Len(issued) /\ issued[i] \in Builds
      BY <1>2, <2>1
    <2> QED
      BY <2>1, <2>2, BuildsAreNumbers
  <1>4. TypeOK'
    BY <1>1, <1>2, <1>3 DEF TypeOK, Tree
  <1>5. NotBehind'
    BY <1>1, <1>2, <1>3, RevisionsTyped DEF NotBehind, Revision, Public
  <1>6. DealtWith'
    BY <1>1 DEF DealtWith, Tree
  <1> QED
    BY <1>1, <1>4, <1>5, <1>6, BucketKept DEF RepositoryInv
\* An object that is skipped is already what it is to be.
LEMMA SkipKeeps ==
  ASSUME RepositoryInv, NEW o \in todo, SkipObject(o)
  PROVE  RepositoryInv' /\ NotBack /\ Commits
  <1>1. /\ publishing # 0 /\ Unchanged(o) /\ todo' = todo \ {o}
        /\ UNCHANGED <<completed, issued, bucket, publishing, pruning, failures>>
    BY DEF SkipObject
  <1>2. TypeOK'
    BY <1>1 DEF RepositoryInv, TypeOK, Tree, Content
  <1>3. NotBehind'
    BY <1>1 DEF RepositoryInv, NotBehind, Revision, Public
  <1>4. DealtWith'
    BY <1>1 DEF RepositoryInv, DealtWith, Unchanged, Says, Public, Tree
  <1> QED
    BY <1>1, <1>2, <1>3, <1>4, BucketKept DEF RepositoryInv

\* Writing an object keeps what clients rely on, and commits only whole issues.
LEMMA WriteServes ==
  ASSUME RepositoryInv, publishing # 0, NEW o \in todo, NextObject(o),
         Put(o, Says(o)), UNCHANGED issued
  PROVE  AptBehindRpm' /\ IndexesResolve' /\ NotBack /\ Commits
  <1>1. /\ \A p \in DOMAIN Tree(publishing, issued[publishing]) \ (todo \ {o}) :
             p \in DOMAIN bucket' /\ bucket'[p] = Says(p)
        /\ NotBack /\ AptBehindRpm' /\ IndexesResolve'
        /\ o = InRelease => bucket'[InRelease] = publishing /\ todo = {InRelease}
    BY PutKeeps DEF NotBack
  <1>2. ASSUME o # InRelease PROVE Commits
    <2>1. DOMAIN bucket' = DOMAIN bucket \cup {o}
          /\ \A p \in DOMAIN bucket : p # o => bucket'[p] = bucket[p]
      BY PutWrites
    <2>2. ~(Public(InRelease)' /\ (Public(InRelease) => bucket'[InRelease] # bucket[InRelease]))
      BY <1>2, <2>1 DEF Public
    <2> QED
      BY <2>2 DEF Commits
  <1>3. ASSUME o = InRelease PROVE Commits
    <2>1. \A p \in DOMAIN Tree(publishing, issued[publishing]) \ {InRelease} :
            Public(p) /\ bucket[p] = Says(p)
      BY <1>1, <1>3 DEF RepositoryInv, DealtWith
    <2>2. \A p \in DOMAIN Tree(publishing, issued[publishing]) :
            Tree(publishing, issued[publishing])[p] = Says(p)
      BY DEF Tree, Says
    <2>3. bucket'[InRelease] = publishing
      BY <1>1, <1>3
    <2> QED
      BY <2>1, <2>2, <2>3 DEF Commits
  <1> QED
    BY <1>1, <1>2, <1>3

LEMMA PublishKeeps ==
  ASSUME RepositoryInv, NEW o \in todo, PublishObject(o)
  PROVE  RepositoryInv' /\ NotBack /\ Commits
  <1>1. /\ publishing # 0 /\ NextObject(o) /\ Put(o, Says(o)) /\ todo' = todo \ {o}
        /\ UNCHANGED <<completed, issued, publishing, pruning, failures>>
    BY DEF PublishObject
  <1>2. /\ \A p \in DOMAIN bucket' :
             /\ p = Object(p.kind, p.arch, p.id)
             /\ bucket'[p] \in Nat
             /\ p.kind \notin SaysBuild => bucket'[p] \in DOMAIN issued
        /\ \A p \in DOMAIN Tree(publishing, issued[publishing]) \ (todo \ {o}) :
             p \in DOMAIN bucket' /\ bucket'[p] = Says(p)
        /\ \A a \in Archs : Revision(a)' <= issued[publishing]
    BY <1>1, PutKeeps
  <1>3. TypeOK'
    BY <1>1, <1>2 DEF RepositoryInv, TypeOK, Tree, SaysBuild
  <1>4. NotBehind'
    BY <1>1, <1>2 DEF NotBehind
  <1>5. DealtWith'
    BY <1>1, <1>2 DEF DealtWith, Says, Public, Tree
  <1> QED
    BY <1>1, <1>3, <1>4, <1>5, WriteServes DEF RepositoryInv

\* A publication that fails leaves what it wrote, and nothing to keep up.
LEMMA FailPublishKeeps ==
  ASSUME RepositoryInv, NEW o \in todo, NEW written \in BOOLEAN, FailPublish(o, written)
  PROVE  RepositoryInv' /\ NotBack /\ Commits
  <1>1. /\ publishing # 0 /\ NextObject(o) /\ publishing' = 0 /\ todo' = {}
        /\ failures < MaxFailures /\ failures' = failures + 1
        /\ UNCHANGED <<completed, issued, pruning>>
        /\ IF written THEN Put(o, Says(o)) ELSE UNCHANGED bucket
    BY DEF FailPublish
  <1>2. /\ NotBehind' /\ DealtWith'
    BY <1>1 DEF NotBehind, DealtWith
  <1>3. failures' \in 0..MaxFailures
    BY <1>1, BoundsAssumption DEF RepositoryInv, TypeOK
  <1>4. CASE written
    <2>1. Put(o, Says(o))
      BY <1>1, <1>4
    <2>2. \A p \in DOMAIN bucket' :
            /\ p = Object(p.kind, p.arch, p.id)
            /\ bucket'[p] \in Nat
            /\ p.kind \notin SaysBuild => bucket'[p] \in DOMAIN issued
      BY <1>1, <2>1, PutKeeps
    <2>3. TypeOK'
      BY <1>1, <1>3, <2>2 DEF RepositoryInv, TypeOK, SaysBuild
    <2> QED
      BY <1>1, <1>2, <2>1, <2>3, WriteServes DEF RepositoryInv
  <1>5. CASE ~written
    <2>1. TypeOK'
      BY <1>1, <1>3, <1>5 DEF RepositoryInv, TypeOK
    <2> QED
      BY <1>1, <1>2, <1>5, <2>1, BucketKept DEF RepositoryInv
  <1> QED
    BY <1>4, <1>5

LEMMA FinishKeeps ==
  ASSUME RepositoryInv, FinishPublish
  PROVE  RepositoryInv' /\ NotBack /\ Commits
  <1>1. /\ publishing' = 0 /\ pruning' = TRUE /\ todo = {}
        /\ UNCHANGED <<completed, issued, bucket, todo, failures>>
    BY DEF FinishPublish
  <1>2. TypeOK' /\ NotBehind' /\ DealtWith'
    BY <1>1 DEF RepositoryInv, TypeOK, NotBehind, DealtWith
  <1> QED
    BY <1>1, <1>2, BucketKept DEF RepositoryInv

\* Pruning removes packages alone, with no publication under way.
LEMMA PruneKeeps ==
  ASSUME RepositoryInv, pruning, NEW gone, gone \subseteq Stale, Remove(gone),
         pruning' = FALSE, failures' \in 0..MaxFailures,
         UNCHANGED <<completed, issued, todo, publishing>>
  PROVE  RepositoryInv' /\ NotBack /\ Commits
  <1>1. DOMAIN bucket' = DOMAIN bucket \ gone
        /\ \A o \in DOMAIN bucket' : bucket'[o] = bucket[o]
    BY DEF Remove
  <1>2. \A o \in gone : o.kind \in {"Deb", "Rpm"}
    BY DEF Stale
  <1>3. TypeOK /\ publishing = 0
    BY DEF RepositoryInv, TypeOK
  <1>4. TypeOK'
    BY <1>1, <1>3 DEF TypeOK
  <1>5. NotBehind' /\ DealtWith'
    BY <1>3 DEF NotBehind, DealtWith
  <1>6. \A o : o.kind \notin {"Deb", "Rpm"} =>
          /\ o \in DOMAIN bucket' <=> o \in DOMAIN bucket
          /\ o \in DOMAIN bucket => bucket'[o] = bucket[o]
    BY <1>1, <1>2
  <1>7. /\ AptBuild' = AptBuild /\ \A a \in Archs : Revision(a)' = Revision(a)
        /\ AptBehindRpm' /\ IndexesResolve'
        /\ InRelease \in DOMAIN bucket' => InRelease \in DOMAIN bucket
        /\ InRelease \in DOMAIN bucket => bucket'[InRelease] = bucket[InRelease]
    BY <1>3, <1>6, ClientsKept DEF RepositoryInv
  <1>8. NotBack /\ Commits
    BY <1>3, <1>7, RevisionsTyped DEF NotBack, Commits, Public
  <1> QED
    BY <1>4, <1>5, <1>7, <1>8 DEF RepositoryInv

LEMMA StepRepositoryInv ==
  RepositoryInv /\ [Next]_vars => RepositoryInv' /\ (UNCHANGED vars \/ (NotBack /\ Commits))
  <1> SUFFICES ASSUME RepositoryInv, [Next]_vars
               PROVE  RepositoryInv' /\ (UNCHANGED vars \/ (NotBack /\ Commits))
    OBVIOUS
  <1> DEFINE Kept == RepositoryInv' /\ NotBack /\ Commits
  <1>1. ASSUME NEW b \in Builds, CompleteRelease(b) PROVE Kept
    BY <1>1, CompleteKeeps
  <1>2. ASSUME NEW b \in Builds, Build(b) PROVE Kept
    BY <1>2, BuildKeeps
  <1>3. ASSUME NEW i \in DOMAIN issued, StartPublish(i) PROVE Kept
    BY <1>3, StartKeeps
  <1>4. ASSUME NEW o \in todo, SkipObject(o) PROVE Kept
    BY <1>4, SkipKeeps
  <1>5. ASSUME NEW o \in todo, PublishObject(o) PROVE Kept
    BY <1>5, PublishKeeps
  <1>6. ASSUME NEW o \in todo, NEW written \in BOOLEAN, FailPublish(o, written) PROVE Kept
    BY <1>6, FailPublishKeeps
  <1>7. CASE FinishPublish
    BY <1>7, FinishKeeps
  <1>8. CASE PruneInternalPackages
    <2>1. failures' \in 0..MaxFailures
      BY <1>8 DEF PruneInternalPackages, RepositoryInv, TypeOK
    <2> QED
      BY <1>8, <2>1, PruneKeeps DEF PruneInternalPackages
  <1>9. ASSUME NEW gone \in SUBSET Stale, FailPrune(gone) PROVE Kept
    <2>1. failures' \in 0..MaxFailures
      BY <1>9, BoundsAssumption DEF FailPrune, RepositoryInv, TypeOK
    <2> QED
      BY <1>9, <2>1, PruneKeeps DEF FailPrune
  <1>10. CASE UNCHANGED vars
    <2>1. TypeOK' /\ NotBehind' /\ DealtWith'
      BY <1>10 DEF vars, RepositoryInv, TypeOK, NotBehind, DealtWith, Says, Public, Revision, Tree
    <2> QED
      BY <1>10, <2>1, BucketKept DEF vars, RepositoryInv
  <1> QED
    BY <1>1, <1>2, <1>3, <1>4, <1>5, <1>6, <1>7, <1>8, <1>9, <1>10 DEF Next

-----------------------------------------------------------------------------
(* Theorems.                                                                 *)

\* The inductive invariant: types, and what a running publication relies on.
THEOREM RepositoryInvHolds == Spec => []RepositoryInv
  <1>1. RepositoryInv /\ [Next]_vars => RepositoryInv'
    BY StepRepositoryInv
  <1> QED
    BY <1>1, InitRepositoryInv, PTL DEF Spec

\* APT stays behind every RPM revision, which is why the one comparison with
\* the RPM revisions protects APT clients too.
THEOREM AptStaysBehindRpm == Spec => []AptBehindRpm
  BY RepositoryInvHolds, PTL DEF RepositoryInv

\* The index an entry point names is public, at every moment of a run.
THEOREM IndexesAreThere == Spec => []IndexesResolve
  BY RepositoryInvHolds, PTL DEF RepositoryInv

\* No run takes the served builds back.
THEOREM NothingRollsBack == Spec => NeverRollsBack
  <1>1. RepositoryInv /\ [Next]_vars => [NotBack]_vars
    BY StepRepositoryInv
  <1> QED
    BY <1>1, RepositoryInvHolds, PTL DEF Spec, NeverRollsBack, NotBack

\* InRelease moves to an issue only when all the rest of it is public.
THEOREM InReleaseIsCommit == Spec => InReleaseCommits
  <1>1. RepositoryInv /\ [Next]_vars => [Commits]_vars
    BY StepRepositoryInv
  <1> QED
    BY <1>1, RepositoryInvHolds, PTL DEF Spec, InReleaseCommits, Commits
=============================================================================
