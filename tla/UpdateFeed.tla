---------------------------- MODULE UpdateFeed ----------------------------
(***************************************************************************)
(* The desktop update feeds of the internal channel: the Velopack feeds of   *)
(* the Linux AppImage and the Sparkle appcasts of macOS, as                  *)
(* desktop-update-feed.yml signs and hosts them with                         *)
(* publish_desktop_update_feed.py and sign_desktop_update.py.                *)
(*                                                                           *)
(* A feed is signed once a platform's attachment succeeded, and hosted by a  *)
(* second job that may fail after any object and be re-run later from its    *)
(* artifact.  Nothing compares builds: a late re-run takes a feed back.      *)
(* The Linux feed names a package in the same bucket, which the repository's *)
(* housekeeping prunes; the appcast names a ZIP of the public release,       *)
(* which the next internal release may delete.                               *)
(***************************************************************************)
EXTENDS ReleaseAssets

CONSTANT KeptBuilds     \* KEPT_INTERNAL_BUILDS

ASSUME KeptAssumption == KeptBuilds \in Nat \ {0}

VARIABLES
  signedFeeds,   \* platforms and runs with a retained, signed feed
  hosted,        \* the run whose bytes each public feed object delivers
  hosting        \* for each platform the run being hosted and its next object

feedVars == <<signedFeeds, hosted, hosting>>
vars == <<relVars, feedVars>>

-----------------------------------------------------------------------------
(* Feed objects, in publication order: both packages before the feeds that   *)
(* name them, signatures after their feeds.                                  *)

\* Fault: the feed before the package it names.
FeedFirst(p) == IF p = "linux" THEN <<"feed", "sig", "nupkg">> ELSE <<"appcast">>

Kinds(p) == IF p = "linux" THEN <<"nupkg", "feed", "sig">> ELSE <<"appcast">>

\* Only a package's name holds its build.
FeedObject(kind, a, b) == <<kind, a, IF kind = "nupkg" THEN b ELSE 0>>

ObjectCount(p) == Len(Kinds(p)) * Cardinality(Archs)

\* The n-th object a platform's feed of build b publishes.
PublicationOrder(p, b, n) ==
  FeedObject(Kinds(p)[((n - 1) \div Cardinality(Archs)) + 1],
             ((n - 1) % Cardinality(Archs)) + 1, b)

FeedObjects ==
  {FeedObject(Kinds(p)[k], a, b) :
     p \in {"linux"}, k \in 1..3, a \in Archs, b \in Builds}
  \cup {FeedObject("appcast", a, 0) : a \in Archs}

NotHosting == [run |-> None, next |-> 0]

InitFeeds ==
  /\ signedFeeds = {}
  /\ hosted = [o \in FeedObjects |-> None]
  /\ hosting = [p \in Platforms |-> NotHosting]

Init == InitReleases /\ InitFeeds

-----------------------------------------------------------------------------
(* Signing.                                                                  *)

\* The Linux feed is signed from the packages the workflow's run holds.
SignVelopack(r) ==
  /\ <<"linux", r>> \in attached
  /\ signedFeeds' = signedFeeds \cup {<<"linux", r>>}
  /\ UNCHANGED <<relVars, hosted, hosting>>

\* The macOS signer downloads the public ZIPs and checks them against the
\* public manifest of the release.
DownloadMacos(b, r) ==
  \A n \in Parts : assets[b]["macos"][n] = r

SignAppcasts(r) ==
  /\ <<"macos", r>> \in attached
  /\ DownloadMacos(RunBuild[r], r)
  /\ signedFeeds' = signedFeeds \cup {<<"macos", r>>}
  /\ UNCHANGED <<relVars, hosted, hosting>>

-----------------------------------------------------------------------------
(* Hosting.  The shared release workflow's concurrency group runs one        *)
(* hosting job of a platform at a time; the two platforms run side by side.  *)

StartHosting(p, r) ==
  /\ hosting[p] = NotHosting
  /\ <<p, r>> \in signedFeeds
  /\ hosting' = [hosting EXCEPT ![p] = [run |-> r, next |-> 1]]
  /\ UNCHANGED <<relVars, signedFeeds, hosted>>

Hosting(p) == hosting[p].run # None
NextObject(p) == PublicationOrder(p, RunBuild[hosting[p].run], hosting[p].next)

StopHosting(p) == hosting' = [hosting EXCEPT ![p] = NotHosting]

\* A package is never replaced; a feed or signature that differs is.
Conflicts(p) ==
  /\ NextObject(p)[1] = "nupkg"
  /\ hosted[NextObject(p)] \notin {None, hosting[p].run}

PublishObject(p) ==
  /\ Hosting(p)
  /\ ~Conflicts(p)
  /\ hosted' = [hosted EXCEPT ![NextObject(p)] = hosting[p].run]
  /\ IF hosting[p].next < ObjectCount(p)
     THEN hosting' = [hosting EXCEPT ![p].next = @ + 1]
     ELSE StopHosting(p)
  /\ UNCHANGED <<relVars, signedFeeds>>

RefusePackage(p) ==
  /\ Hosting(p)
  /\ Conflicts(p)
  /\ StopHosting(p)
  /\ UNCHANGED <<relVars, signedFeeds, hosted>>

\* The job dies, the copy under way having reached the bucket or not.
FailHosting(p, written) ==
  /\ Hosting(p)
  /\ failures < MaxFailures
  /\ failures' = failures + 1
  /\ IF written
     THEN ~Conflicts(p) /\ hosted' = [hosted EXCEPT ![NextObject(p)] = hosting[p].run]
     ELSE UNCHANGED hosted
  /\ StopHosting(p)
  /\ UNCHANGED <<published, later, assets, job, attached, signedFeeds>>

\* The packages of newer builds in the directory of an architecture's feed.
NewerPackages(a, b) ==
  {c \in Builds : c > b /\ hosted[FeedObject("nupkg", a, c)] # None}

\* The repository workflow prunes the feed directories with its own, at any
\* time: nothing orders it with the hosting jobs.
PruneFeedPackages ==
  /\ hosted' = [o \in FeedObjects |->
       IF o[1] = "nupkg" /\ Cardinality(NewerPackages(o[2], o[3])) >= KeptBuilds
       THEN None ELSE hosted[o]]
  /\ UNCHANGED <<relVars, signedFeeds, hosting>>

FeedStep ==
  \/ \E r \in Runs : SignVelopack(r)
  \/ \E r \in Runs : SignAppcasts(r)
  \/ \E p \in Platforms, r \in Runs : StartHosting(p, r)
  \/ \E p \in Platforms : PublishObject(p)
  \/ \E p \in Platforms : RefusePackage(p)
  \/ \E p \in Platforms, written \in BOOLEAN : FailHosting(p, written)
  \/ PruneFeedPackages

Next == (ReleaseStep /\ UNCHANGED feedVars) \/ FeedStep

Spec == Init /\ [][Next]_vars

-----------------------------------------------------------------------------
(* Properties.                                                               *)

\* The package a public Linux feed names is public with the very bytes the
\* feed describes, though a build is packaged twice, hosting jobs fail half
\* way or old ones are re-run.  It is gone, or hosted again with the bytes of
\* another run, only when KeptBuilds newer packages are in its directory: by
\* jobs that failed before their feeds or before an old job was re-run.
FeedsResolve ==
  \A a \in Archs :
    LET r == hosted[FeedObject("feed", a, 0)]
    IN r # None =>
         \/ hosted[FeedObject("nupkg", a, RunBuild[r])] = r
         \/ Cardinality(NewerPackages(a, RunBuild[r])) >= KeptBuilds

\* The ZIP a public appcast names delivers the bytes it signed, for as long
\* as no other run's macOS release is complete: publishing an internal release
\* deletes what an appcast names only when another one is ready to be named,
\* of a newer build or, its workflow re-run late, of an older one.
AppcastsResolve ==
  \A a \in Archs :
    LET r == hosted[FeedObject("appcast", a, 0)]
    IN r # None =>
         \/ assets[RunBuild[r]]["macos"][a] = r
         \/ \E b \in CompleteReleases("macos") : assets[b]["macos"][Manifest] # r
=============================================================================
