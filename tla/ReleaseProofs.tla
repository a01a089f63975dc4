--------------------------- MODULE ReleaseProofs ---------------------------
(***************************************************************************)
(* Proofs about the shared releases and the update feeds: whatever number   *)
(* of builds, packaging runs, architectures and attachment jobs there is,   *)
(* and whatever the feed workflows do beside them, a public manifest marks  *)
(* a complete release, only qualified packages are public, and what a       *)
(* public feed or appcast names is public for as long as it must be.        *)
(*                                                                          *)
(* None of it is inductive.  For the releases the strengthening says what a *)
(* job under way may rely on: as long as its release exists, every asset    *)
(* before its current one is public with its own run's bytes, so the        *)
(* manifest it comes to last finds the rest complete.  For the feeds it     *)
(* says the same of a hosting job and the packages it has passed, that      *)
(* every SIGNED appcast stands, hosted or not, and that the releases are    *)
(* ordered by their publication, so that one of them is the newest.         *)
(***************************************************************************)
EXTENDS UpdateFeed, FiniteSetTheorems, WellFoundedInduction, TLAPS

Attachment ==
  [at : {"attaching"}, platform : Platforms, run : Runs, part : Parts,
   existing : SUBSET Parts]

ReleaseTypeOK ==
  /\ published \subseteq Builds
  /\ assets \in [Builds -> [Platforms -> [Parts -> Runs \cup {None}]]]
  /\ job \in [Jobs -> {IdleJob} \cup Attachment]

\* The runs a job may attach.
PreparedRuns == [p \in Platforms |-> {r \in Runs : Prepared(p, r)}]

\* A build without a release has no assets.
NothingUnpublished ==
  \A b \in Builds : ~IsPublic(b) =>
    \A p \in Platforms, n \in Parts : assets[b][p][n] = None

\* What is public was prepared, for that build.
PreparedOnly ==
  \A b \in Builds, p \in Platforms, n \in Parts :
    assets[b][p][n] # None =>
      RunBuild[assets[b][p][n]] = b /\ assets[b][p][n] \in PreparedRuns[p]

\* A job's run is prepared, and what it has passed is its own.
JobOwns(j) ==
  job[j].at # Idle =>
    /\ job[j].run \in PreparedRuns[job[j].platform]
    /\ IsPublic(RunBuild[job[j].run]) =>
         \A n \in Parts : n < job[j].part => Target(j)[n] = job[j].run

ReleaseInv ==
  /\ ReleaseTypeOK
  /\ NothingUnpublished
  /\ PreparedOnly
  /\ \A j \in Jobs : JobOwns(j)
  /\ ManifestMeansComplete

-----------------------------------------------------------------------------
(* Operators.                                                                *)

\* The manifest's place is a number, and a part.
LEMMA ManifestIsPart == Manifest \in Nat \ {0} /\ Manifest \in Parts
  <1>1. Cardinality(Archs) \in Nat
    BY ReleaseAssumption, FS_CardinalityType
  <1> QED
    BY <1>1 DEF Manifest, Parts

\* Preparation leaves no flaw in any architecture of the platform.
LEMMA PreparedIsSound ==
  ASSUME NEW p \in Platforms, NEW r \in PreparedRuns[p], NEW a \in Archs
  PROVE  Evidence[r][p][a] = Sound
  <1>1. r \in Runs /\ Prepared(p, r)
    BY DEF PreparedRuns
  <1>2. Evidence[r][p][a] \in {Sound} \cup Flaws(p)
    BY <1>1, ReleaseAssumption
  <1>3. CASE p = "macos"
    BY <1>1, <1>2, <1>3 DEF Prepared, PrepareMacos, RequireProducer, Flaws
  <1>4. CASE p = "linux"
    BY <1>1, <1>2, <1>4 DEF Prepared, PrepareLinux, SignPackages, LoadPackages,
       SigningKey, VerifyRpm, VerifyChecksums, RequireProducer, Flaws
  <1> QED
    BY <1>3, <1>4, ReleaseAssumption

\* A job that is not idle is an attachment of a build that exists.
LEMMA AttachmentOf ==
  ASSUME ReleaseTypeOK, NEW j \in Jobs, job[j].at # Idle
  PROVE  job[j] \in Attachment /\ RunBuild[job[j].run] \in Builds
  <1>1. job[j] \in {IdleJob} \cup Attachment
    BY DEF ReleaseTypeOK
  <1>2. job[j] # IdleJob
    BY DEF IdleJob
  <1> QED
    BY <1>1, <1>2, ReleaseAssumption DEF Attachment

-----------------------------------------------------------------------------
(* Initially.                                                                *)

LEMMA InitReleaseInv == Init => ReleaseInv
  <1> SUFFICES ASSUME Init PROVE ReleaseInv
    OBVIOUS
  <1> USE DEF Init, InitReleases
  <1>1. ReleaseTypeOK
    BY DEF ReleaseTypeOK, IdleJob
  <1>2. \A b \in Builds, p \in Platforms, n \in Parts : assets[b][p][n] = None
    OBVIOUS
  <1>3. \A j \in Jobs : JobOwns(j)
    BY DEF JobOwns, IdleJob, Idle
  <1>4. ManifestMeansComplete
    BY <1>2, ManifestIsPart DEF ManifestMeansComplete
  <1> QED
    BY <1>1, <1>2, <1>3, <1>4 DEF ReleaseInv, NothingUnpublished, PreparedOnly

-----------------------------------------------------------------------------
(* The steps.                                                                *)

\* An upload keeps what holds of the assets, and what other jobs rely on: the
\* part was missing, so no job had passed it and no manifest counted it.
LEMMA UploadKeeps ==
  ASSUME ReleaseInv, NEW j \in Jobs, Attaching(j), Upload(j),
         UNCHANGED <<published, later>>
  PROVE  /\ assets' \in [Builds -> [Platforms -> [Parts -> Runs \cup {None}]]]
         /\ NothingUnpublished'
         /\ PreparedOnly'
         /\ ManifestMeansComplete'
         /\ \A k \in Jobs : UNCHANGED job[k] => JobOwns(k)'
         /\ \A n \in Parts :
              n <= job[j].part =>
                assets'[RunBuild[job[j].run]][job[j].platform][n] = job[j].run
  <1> DEFINE r == job[j].run
             b == RunBuild[r]
             p == job[j].platform
             n == job[j].part
  <1>1. /\ r \in Runs /\ b \in Builds /\ p \in Platforms /\ n \in Parts
        /\ job[j].at # Idle
    BY AttachmentOf DEF ReleaseInv, Attaching, Attachment
  <1>2. r # None
    BY <1>1, ReleaseAssumption
  <1>3. IsPublic(b) /\ assets[b][p][n] = None
    BY DEF Upload, Target
  <1>4. /\ r \in PreparedRuns[p]
        /\ \A m \in Parts : m < n => assets[b][p][m] = r
    BY <1>1, <1>3 DEF ReleaseInv, JobOwns, Target
  <1>5. /\ assets' \in [Builds -> [Platforms -> [Parts -> Runs \cup {None}]]]
        /\ \A c \in Builds, q \in Platforms, m \in Parts :
             assets'[c][q][m] = IF c = b /\ q = p /\ m = n THEN r ELSE assets[c][q][m]
    <2>1. ReleaseTypeOK /\ assets' = [assets EXCEPT ![b][p][n] = r]
      BY DEF ReleaseInv, Upload
    <2> HIDE DEF r, b, p, n
    <2> QED
      BY <1>1, <2>1 DEF ReleaseTypeOK
  <1>6. NothingUnpublished'
    BY <1>3, <1>5 DEF ReleaseInv, NothingUnpublished, IsPublic
  <1>7. PreparedOnly'
    <2> SUFFICES ASSUME NEW c \in Builds, NEW q \in Platforms, NEW m \in Parts,
                        assets'[c][q][m] # None
                 PROVE  /\ RunBuild[assets'[c][q][m]] = c
                        /\ assets'[c][q][m] \in PreparedRuns[q]
      BY DEF PreparedOnly
    <2>1. CASE c = b /\ q = p /\ m = n
      BY <1>4, <1>5, <2>1
    <2>2. CASE ~(c = b /\ q = p /\ m = n)
      <3>1. assets'[c][q][m] = assets[c][q][m]
        BY <1>5, <2>2
      <3> QED
        BY <3>1 DEF ReleaseInv, PreparedOnly
    <2> QED
      BY <2>1, <2>2
  <1>8. ManifestMeansComplete'
    <2> SUFFICES ASSUME NEW c \in Builds, NEW q \in Platforms,
                        assets'[c][q][Manifest] # None, NEW m \in Parts
                 PROVE  assets'[c][q][m] = assets'[c][q][Manifest]
      BY DEF ManifestMeansComplete
    <2>1. CASE c = b /\ q = p /\ Manifest = n
      <3>1. m <= n
        BY <2>1, ManifestIsPart DEF Parts
      <3>2. m = n \/ m < n
        BY <3>1, <1>1, ManifestIsPart DEF Parts
      <3> QED
        BY <1>1, <1>4, <1>5, <2>1, <3>2, ManifestIsPart
    <2>2. CASE ~(c = b /\ q = p /\ Manifest = n)
      <3>1. assets'[c][q][Manifest] = assets[c][q][Manifest]
        BY <1>5, <2>2, ManifestIsPart
      <3>2. \A k \in Parts : assets[c][q][k] = assets[c][q][Manifest]
        BY <2>2, <3>1 DEF ReleaseInv, ManifestMeansComplete
      <3>3. ~(c = b /\ q = p)
        BY <1>1, <1>3, <3>1, <3>2
      <3> QED
        BY <1>5, <3>1, <3>2, <3>3
    <2> QED
      BY <2>1, <2>2
  <1>9. \A k \in Jobs : UNCHANGED job[k] => JobOwns(k)'
    <2> SUFFICES ASSUME NEW k \in Jobs, UNCHANGED job[k], job[k].at # Idle
                 PROVE  /\ job[k].run \in PreparedRuns[job[k].platform]
                        /\ IsPublic(RunBuild[job[k].run]) =>
                             \A m \in Parts : m < job[k].part =>
                               assets'[RunBuild[job[k].run]][job[k].platform][m] = job[k].run
      BY DEF JobOwns, Target, IsPublic
    <2>1. /\ job[k].run \in Runs /\ RunBuild[job[k].run] \in Builds
          /\ job[k].platform \in Platforms
      BY AttachmentOf DEF ReleaseInv, Attachment
    <2>2. JobOwns(k)
      BY DEF ReleaseInv
    <2>3. job[k].run # None
      BY <2>1, ReleaseAssumption
    <2> QED
      BY <1>3, <1>5, <2>1, <2>2, <2>3 DEF JobOwns, Target
  <1>10. \A m \in Parts : m <= n => assets'[b][p][m] = r
    <2> SUFFICES ASSUME NEW m \in Parts, m <= n PROVE assets'[b][p][m] = r
      OBVIOUS
    <2>1. m = n \/ m < n
      BY <1>1, ManifestIsPart DEF Parts
    <2> QED
      BY <1>1, <1>4, <1>5, <2>1
  <1> QED
    BY <1>5, <1>6, <1>7, <1>8, <1>9, <1>10

\* The same for a step that leaves the releases as they are.
LEMMA ReleasesKept ==
  ASSUME ReleaseInv, UNCHANGED <<published, assets>>
  PROVE  /\ NothingUnpublished' /\ PreparedOnly' /\ ManifestMeansComplete'
         /\ \A k \in Jobs : UNCHANGED job[k] => JobOwns(k)'
  <1>1. NothingUnpublished' /\ ManifestMeansComplete'
    BY DEF ReleaseInv, NothingUnpublished, ManifestMeansComplete, IsPublic
  <1>2. PreparedOnly'
    BY DEF ReleaseInv, PreparedOnly
  <1>3. \A k \in Jobs : UNCHANGED job[k] => JobOwns(k)'
    BY DEF ReleaseInv, JobOwns, Target, IsPublic
  <1> QED
    BY <1>1, <1>2, <1>3

\* A job that goes on has passed its part, and it alone has moved.
LEMMA AdvanceOwns ==
  ASSUME ReleaseInv, NEW j \in Jobs, Attaching(j), Advance(j),
         \A n \in Parts : n <= job[j].part =>
           assets'[RunBuild[job[j].run]][job[j].platform][n] = job[j].run
  PROVE  /\ job' \in [Jobs -> {IdleJob} \cup Attachment]
         /\ JobOwns(j)'
         /\ \A k \in Jobs \ {j} : UNCHANGED job[k]
  <1>1. /\ job \in [Jobs -> {IdleJob} \cup Attachment]
        /\ job[j] \in Attachment /\ job[j].at # Idle
        /\ job[j].run \in PreparedRuns[job[j].platform]
    BY AttachmentOf DEF ReleaseInv, ReleaseTypeOK, Attaching, JobOwns
  <1>2. CASE job[j].part < Manifest
    <2>1. job' = [job EXCEPT ![j].part = @ + 1]
      BY <1>2 DEF Advance
    <2>2. job[j].part + 1 \in Parts
      BY <1>1, <1>2, ManifestIsPart DEF Attachment, Parts
    <2>3. job'[j] =
            [at |-> job[j].at, platform |-> job[j].platform, run |-> job[j].run,
             part |-> job[j].part + 1, existing |-> job[j].existing]
      BY <1>1, <2>1 DEF Attachment
    <2>4. /\ job'[j] \in Attachment
          /\ job'[j].platform = job[j].platform /\ job'[j].run = job[j].run
          /\ job'[j].part = job[j].part + 1
      BY <1>1, <2>2, <2>3 DEF Attachment
    <2>5. \A n \in Parts : n < job[j].part + 1 => n <= job[j].part
      BY <1>1, ManifestIsPart DEF Attachment, Parts
    <2>6. JobOwns(j)'
      BY <1>1, <2>4, <2>5 DEF JobOwns, Target
    <2> QED
      BY <1>1, <2>1, <2>4, <2>6
  <1>3. CASE ~(job[j].part < Manifest)
    <2>1. job' = [job EXCEPT ![j] = IdleJob]
      BY <1>3 DEF Advance
    <2> QED
      BY <1>1, <2>1 DEF JobOwns, IdleJob, Idle
  <1> QED
    BY <1>2, <1>3

\* A job that ends relies on nothing.
LEMMA IdleOwns ==
  ASSUME ReleaseInv, NEW j \in Jobs, job' = [job EXCEPT ![j] = IdleJob]
  PROVE  /\ job' \in [Jobs -> {IdleJob} \cup Attachment]
         /\ JobOwns(j)'
         /\ \A k \in Jobs \ {j} : UNCHANGED job[k]
  <1>1. job \in [Jobs -> {IdleJob} \cup Attachment]
    BY DEF ReleaseInv, ReleaseTypeOK
  <1> QED
    BY <1>1 DEF JobOwns, IdleJob, Idle

\* Publishing a release deletes assets of others; a new one has none, and no job
\* of its build is under way; what stays is as it was.
LEMMA RollKeeps ==
  ASSUME ReleaseInv, NEW b \in Builds, RollPreRelease(b)
  PROVE  ReleaseInv'
  <1> DEFINE staying == {c \in published : c = b \/ Kept(c)}
  <1>1. /\ published' = staying \cup {b} /\ UNCHANGED job
        /\ assets' = [c \in Builds |-> IF c \in staying THEN assets[c] ELSE NoAssets]
    BY DEF RollPreRelease
  <1>2. /\ staying \subseteq published
        /\ b \in staying \/ \A j \in Jobs : job[j].at # Idle => RunBuild[job[j].run] # b
    BY DEF RollPreRelease, IsPublic
  <1> HIDE DEF staying
  <1>3. NoAssets \in [Platforms -> [Parts -> Runs \cup {None}]]
    BY DEF NoAssets
  <1>4. ReleaseTypeOK'
    BY <1>1, <1>2, <1>3 DEF ReleaseInv, ReleaseTypeOK
  <1>5. \A c \in Builds : IF c \in staying THEN assets'[c] = assets[c]
                             ELSE \A p \in Platforms, n \in Parts : assets'[c][p][n] = None
    BY <1>1 DEF NoAssets
  <1>6. NothingUnpublished'
    BY <1>1, <1>2, <1>5 DEF NothingUnpublished, IsPublic
  <1>7. PreparedOnly'
    <2> SUFFICES ASSUME NEW c \in Builds, NEW p \in Platforms, NEW n \in Parts,
                        assets'[c][p][n] # None
                 PROVE  /\ RunBuild[assets'[c][p][n]] = c
                        /\ assets'[c][p][n] \in PreparedRuns[p]
      BY DEF PreparedOnly
    <2>1. assets'[c] = assets[c]
      BY <1>5
    <2> QED
      BY <2>1 DEF ReleaseInv, PreparedOnly
  <1>8. ManifestMeansComplete'
    <2> SUFFICES ASSUME NEW c \in Builds, NEW p \in Platforms,
                        assets'[c][p][Manifest] # None
                 PROVE  \A n \in Parts : assets'[c][p][n] = assets'[c][p][Manifest]
      BY DEF ManifestMeansComplete
    <2>1. assets'[c] = assets[c]
      BY <1>5, ManifestIsPart
    <2> QED
      BY <2>1 DEF ReleaseInv, ManifestMeansComplete
  <1>9. \A j \in Jobs : JobOwns(j)'
    <2> SUFFICES ASSUME NEW j \in Jobs, job[j].at # Idle
                 PROVE  /\ job[j].run \in PreparedRuns[job[j].platform]
                        /\ RunBuild[job[j].run] \in staying =>
                             \A n \in Parts : n < job[j].part =>
                               assets'[RunBuild[job[j].run]][job[j].platform][n] = job[j].run
      BY <1>1, <1>2 DEF JobOwns, Target, IsPublic
    <2>1. RunBuild[job[j].run] \in Builds
      BY AttachmentOf DEF ReleaseInv
    <2>2. JobOwns(j)
      BY DEF ReleaseInv
    <2> QED
      BY <1>2, <1>5, <2>1, <2>2 DEF JobOwns, Target, IsPublic
  <1> QED
    BY <1>4, <1>6, <1>7, <1>8, <1>9 DEF ReleaseInv

\* A job starts with a prepared run, before its first asset.
LEMMA StartKeeps ==
  ASSUME ReleaseInv, NEW j \in Jobs, NEW p \in Platforms, NEW r \in Runs,
         StartAttach(j, p, r)
  PROVE  ReleaseInv'
  <1> DEFINE started == [at |-> "attaching", platform |-> p, run |-> r, part |-> 1,
                         existing |-> {n \in Parts : assets[RunBuild[r]][p][n] # None}]
  <1>1. /\ job' = [job EXCEPT ![j] = started]
        /\ UNCHANGED <<published, assets>> /\ Prepared(p, r)
    BY DEF StartAttach
  <1>2. started \in Attachment
    BY ManifestIsPart DEF Attachment, Parts
  <1>3. r \in PreparedRuns[p]
    BY <1>1 DEF PreparedRuns
  <1>4. started.platform = p /\ started.run = r /\ started.part = 1
    OBVIOUS
  <1> HIDE DEF started
  <1>5. /\ job' \in [Jobs -> {IdleJob} \cup Attachment]
        /\ job'[j] = started /\ \A k \in Jobs \ {j} : UNCHANGED job[k]
    BY <1>1, <1>2 DEF ReleaseInv, ReleaseTypeOK
  <1>6. JobOwns(j)'
    <2>1. \A n \in Parts : ~(n < 1)
      BY ManifestIsPart DEF Parts
    <2> QED
      BY <1>3, <1>4, <1>5, <2>1 DEF JobOwns
  <1> QED
    BY <1>1, <1>5, <1>6, ReleasesKept DEF ReleaseInv, ReleaseTypeOK

\* An uploaded asset is the job's own.
LEMMA AttachKeeps ==
  ASSUME ReleaseInv, NEW j \in Jobs, AttachMissing(j)
  PROVE  ReleaseInv'
  <1>1. Attaching(j) /\ Upload(j) /\ Advance(j) /\ UNCHANGED <<published, later>>
    BY DEF AttachMissing
  <1>2. /\ assets' \in [Builds -> [Platforms -> [Parts -> Runs \cup {None}]]]
        /\ NothingUnpublished' /\ PreparedOnly' /\ ManifestMeansComplete'
        /\ \A k \in Jobs : UNCHANGED job[k] => JobOwns(k)'
        /\ \A n \in Parts : n <= job[j].part =>
             assets'[RunBuild[job[j].run]][job[j].platform][n] = job[j].run
    BY <1>1, UploadKeeps
  <1>3. /\ job' \in [Jobs -> {IdleJob} \cup Attachment] /\ JobOwns(j)'
        /\ \A k \in Jobs \ {j} : UNCHANGED job[k]
    BY <1>1, <1>2, AdvanceOwns
  <1> QED
    BY <1>1, <1>2, <1>3 DEF ReleaseInv, ReleaseTypeOK

\* An asset that was there is compared before the job passes it; a release
\* that is gone delivers nothing to compare with.
LEMMA VerifyKeeps ==
  ASSUME ReleaseInv, NEW j \in Jobs, VerifyExisting(j)
  PROVE  ReleaseInv'
  <1>1. /\ Attaching(j) /\ Advance(j) /\ UNCHANGED <<published, assets>>
        /\ Target(j)[job[j].part] = job[j].run
    BY DEF VerifyExisting
  <1>2. /\ job[j] \in Attachment /\ RunBuild[job[j].run] \in Builds
        /\ job[j].at # Idle
    BY <1>1, AttachmentOf DEF ReleaseInv, Attaching
  <1>3. IsPublic(RunBuild[job[j].run])
    <2>1. job[j].run # None
      BY <1>2, ReleaseAssumption DEF Attachment
    <2> QED
      BY <1>1, <1>2, <2>1 DEF ReleaseInv, NothingUnpublished, Target, Attachment
  <1>4. \A n \in Parts : n <= job[j].part =>
          assets'[RunBuild[job[j].run]][job[j].platform][n] = job[j].run
    <2> SUFFICES ASSUME NEW n \in Parts, n <= job[j].part
                 PROVE  Target(j)[n] = job[j].run
      BY <1>1 DEF Target
    <2>1. n = job[j].part \/ n < job[j].part
      BY <1>2, ManifestIsPart DEF Parts, Attachment
    <2> QED
      BY <1>1, <1>2, <1>3, <2>1 DEF ReleaseInv, JobOwns
  <1>5. /\ job' \in [Jobs -> {IdleJob} \cup Attachment] /\ JobOwns(j)'
        /\ \A k \in Jobs \ {j} : UNCHANGED job[k]
    BY <1>1, <1>4, AdvanceOwns
  <1> QED
    BY <1>1, <1>5, ReleasesKept DEF ReleaseInv, ReleaseTypeOK

\* A job that refuses or dies before its upload leaves the releases alone.
LEMMA EndKeeps ==
  ASSUME ReleaseInv, NEW j \in Jobs, job' = [job EXCEPT ![j] = IdleJob],
         UNCHANGED <<published, assets>>
  PROVE  ReleaseInv'
  <1>1. /\ job' \in [Jobs -> {IdleJob} \cup Attachment] /\ JobOwns(j)'
        /\ \A k \in Jobs \ {j} : UNCHANGED job[k]
    BY IdleOwns
  <1> QED
    BY <1>1, ReleasesKept DEF ReleaseInv, ReleaseTypeOK

\* One that dies after it leaves an asset of its own.
LEMMA FailKeeps ==
  ASSUME ReleaseInv, NEW j \in Jobs, NEW uploaded \in BOOLEAN, FailAttach(j, uploaded)
  PROVE  ReleaseInv'
  <1>1. /\ Attaching(j) /\ UNCHANGED <<published, later>>
        /\ job' = [job EXCEPT ![j] = IdleJob]
        /\ IF uploaded THEN Upload(j) ELSE UNCHANGED assets
    BY DEF FailAttach
  <1>2. CASE uploaded
    <2>1. /\ assets' \in [Builds -> [Platforms -> [Parts -> Runs \cup {None}]]]
          /\ NothingUnpublished' /\ PreparedOnly' /\ ManifestMeansComplete'
          /\ \A k \in Jobs : UNCHANGED job[k] => JobOwns(k)'
      BY <1>1, <1>2, UploadKeeps
    <2>2. /\ job' \in [Jobs -> {IdleJob} \cup Attachment] /\ JobOwns(j)'
          /\ \A k \in Jobs \ {j} : UNCHANGED job[k]
      BY <1>1, IdleOwns
    <2> QED
      BY <1>1, <2>1, <2>2 DEF ReleaseInv, ReleaseTypeOK
  <1>3. CASE ~uploaded
    BY <1>1, <1>3, EndKeeps
  <1> QED
    BY <1>2, <1>3

\* The feed workflows change no release and no attachment job.
LEMMA FeedsKeep ==
  ASSUME FeedStep \/ UNCHANGED vars
  PROVE  UNCHANGED <<published, assets, job>>
  BY DEF FeedStep, SignVelopack, SignAppcasts, StartHosting, PublishObject,
     RefusePackage, FailHosting, PruneFeedPackages, relVars, vars

LEMMA StepReleaseInv == ReleaseInv /\ [Next]_vars => ReleaseInv'
  <1> SUFFICES ASSUME ReleaseInv, [Next]_vars PROVE ReleaseInv'
    OBVIOUS
  <1>1. ASSUME NEW b \in Builds, RollPreRelease(b) PROVE ReleaseInv'
    BY <1>1, RollKeeps
  <1>2. ASSUME NEW j \in Jobs, NEW p \in Platforms, NEW r \in Runs, StartAttach(j, p, r)
        PROVE  ReleaseInv'
    BY <1>2, StartKeeps
  <1>3. ASSUME NEW j \in Jobs, AttachMissing(j) PROVE ReleaseInv'
    BY <1>3, AttachKeeps
  <1>4. ASSUME NEW j \in Jobs, VerifyExisting(j) PROVE ReleaseInv'
    BY <1>4, VerifyKeeps
  <1>5. ASSUME NEW j \in Jobs, RefuseReplacement(j) PROVE ReleaseInv'
    BY <1>5, EndKeeps DEF RefuseReplacement
  <1>6. ASSUME NEW j \in Jobs, NEW uploaded \in BOOLEAN, FailAttach(j, uploaded)
        PROVE  ReleaseInv'
    BY <1>6, FailKeeps
  <1>7. CASE FeedStep \/ UNCHANGED vars
    <2>1. UNCHANGED <<published, assets, job>>
      BY <1>7, FeedsKeep
    <2> QED
      BY <2>1, ReleasesKept DEF ReleaseInv, ReleaseTypeOK
  <1> QED
    BY <1>1, <1>2, <1>3, <1>4, <1>5, <1>6, <1>7 DEF Next, ReleaseStep

-----------------------------------------------------------------------------
(* The feeds.                                                                *)

\* The public releases are ordered by when they were published.
OrdersPublished ==
  /\ \A b \in published : <<b, b>> \notin later
  /\ \A b, c \in published : b # c => <<b, c>> \in later \/ <<c, b>> \in later
  /\ \A b, c, d \in published :
       <<b, c>> \in later /\ <<c, d>> \in later => <<b, d>> \in later

\* What a run signed for macOS is public, or another run's release is complete.
AppcastStands(r) ==
  \/ \A n \in Parts : assets[RunBuild[r]]["macos"][n] = r
  \/ \E b \in CompleteReleases("macos") : assets[b]["macos"][Manifest] # r

FeedTypeOK ==
  /\ attached \subseteq Platforms \X Runs
  /\ signedFeeds \subseteq Platforms \X Runs
  /\ hosted \in [FeedObjects -> Runs \cup {None}]
  /\ hosting \in [Platforms -> [run : Runs, next : Nat \ {0}] \cup {NotHosting}]

\* What the packages h hold newer than build b, and what holds of a package
\* that a feed names or is about to name.
Newer(h, a, b) == {c \in Builds : c > b /\ h[FeedObject("nupkg", a, c)] # None}

Named(h, a, r) ==
  \/ h[FeedObject("nupkg", a, RunBuild[r])] = r
  \/ Cardinality(Newer(h, a, RunBuild[r])) >= KeptBuilds

\* A hosting job is of a signed feed, and has hosted the packages it passed.
HostingOwns(p) ==
  Hosting(p) =>
    /\ <<p, hosting[p].run>> \in signedFeeds
    /\ hosting[p].next <= ObjectCount(p)
    /\ p = "linux" =>
         \A a \in Archs : a < hosting[p].next => Named(hosted, a, hosting[p].run)

FeedInv ==
  /\ ReleaseInv
  /\ OrdersPublished
  /\ FeedTypeOK
  /\ \A r \in Runs : <<"macos", r>> \in signedFeeds => AppcastStands(r)
  /\ \A p \in Platforms : HostingOwns(p)
  /\ \A a \in Archs :
       LET r == hosted[FeedObject("appcast", a, 0)]
       IN r # None => <<"macos", r>> \in signedFeeds
  /\ FeedsResolve

\* A finite set that R orders strictly has an element with none before it.
LEMMA FirstElement ==
  ASSUME NEW S, IsFiniteSet(S), S # {}, NEW R,
         \A x \in S : <<x, x>> \notin R,
         \A x, y, z \in S : <<x, y>> \in R /\ <<y, z>> \in R => <<x, z>> \in R
  PROVE  \E x \in S : \A y \in S : <<y, x>> \notin R
  <1> DEFINE Before(x) == {y \in S : <<y, x>> \in R}
             counts == {Cardinality(Before(x)) : x \in S}
  <1>1. \A x \in S : IsFiniteSet(Before(x)) /\ Cardinality(Before(x)) \in Nat
    BY FS_Subset, FS_CardinalityType
  <1> HIDE DEF Before
  <1>2. counts \subseteq Nat /\ counts # {}
    BY <1>1
  <1>3. PICK n \in counts : \A m \in counts : ~(<<m, n>> \in OpToRel(<, Nat))
    BY <1>2, NatLessThanWellFounded, WFMin
  <1>4. PICK x \in S : n = Cardinality(Before(x))
    BY <1>3
  <1>5. ASSUME NEW y \in S, <<y, x>> \in R PROVE FALSE
    <2>1. Before(y) \subseteq Before(x) /\ y \in Before(x) /\ y \notin Before(y)
      BY <1>5 DEF Before
    <2>2. Cardinality(Before(y)) <= Cardinality(Before(x))
          /\ Cardinality(Before(y)) # Cardinality(Before(x))
      BY <1>1, <2>1, FS_Subset
    <2>3. Cardinality(Before(y)) < n /\ Cardinality(Before(y)) \in counts /\ n \in Nat
      BY <1>1, <1>4, <2>2
    <2> QED
      BY <1>2, <1>3, <2>3 DEF OpToRel
  <1> QED
    BY <1>5

\* Some complete release of a platform is newer than its others.
LEMMA NewestExists ==
  ASSUME ReleaseInv, OrdersPublished, NEW p \in Platforms, CompleteReleases(p) # {}
  PROVE  \E b \in CompleteReleases(p) : Kept(b)
  <1> DEFINE S == CompleteReleases(p)
  <1>1. S \subseteq published /\ published \subseteq Builds
    BY DEF CompleteReleases, ReleaseInv, ReleaseTypeOK
  <1>2. IsFiniteSet(S)
    BY <1>1, ReleaseAssumption, FS_Subset
  <1> HIDE DEF S
  <1>3. PICK b \in S : \A c \in S : <<c, b>> \notin later
    <2>1. /\ \A x \in S : <<x, x>> \notin later
          /\ \A x, y, z \in S : <<x, y>> \in later /\ <<y, z>> \in later => <<x, z>> \in later
      BY <1>1 DEF OrdersPublished
    <2> QED
      BY <1>2, <2>1, FirstElement DEF S
  <1>4. NewestOf(b, S)
    BY <1>1, <1>3 DEF NewestOf, OrdersPublished
  <1> QED
    BY <1>4 DEF Kept, S

\* What a run signed for macOS survives the next internal release.
LEMMA RollStands ==
  ASSUME ReleaseInv, OrdersPublished, "macos" \in Platforms,
         NEW b \in Builds, RollPreRelease(b), NEW r \in Runs, AppcastStands(r)
  PROVE  AppcastStands(r)'
  <1>1. /\ {c \in published : Kept(c)} \subseteq published'
        /\ \A c \in published \cap Builds : Kept(c) => assets'[c] = assets[c]
    BY DEF RollPreRelease
  <1>2. r # None /\ RunBuild[r] \in Builds /\ Manifest \in Parts /\ published \subseteq Builds
    BY ReleaseAssumption, ManifestIsPart DEF ReleaseInv, ReleaseTypeOK
  <1>3. CompleteReleases("macos") # {}
    <2>1. CASE \A n \in Parts : assets[RunBuild[r]]["macos"][n] = r
      <3>1. assets[RunBuild[r]]["macos"][Manifest] # None
        BY <1>2, <2>1
      <3>2. RunBuild[r] \in published
        BY <1>2, <3>1 DEF ReleaseInv, NothingUnpublished, IsPublic
      <3> QED
        BY <3>1, <3>2 DEF CompleteReleases
    <2>2. CASE \E c \in CompleteReleases("macos") : assets[c]["macos"][Manifest] # r
      BY <2>2
    <2> QED
      BY <2>1, <2>2 DEF AppcastStands
  <1>4. PICK c \in CompleteReleases("macos") : Kept(c)
    BY <1>3, NewestExists
  <1>5. c \in published /\ assets'[c] = assets[c] /\ assets[c]["macos"][Manifest] # None
    BY <1>1, <1>2, <1>4 DEF CompleteReleases
  <1>6. c \in CompleteReleases("macos")'
    BY <1>1, <1>4, <1>5 DEF CompleteReleases
  <1>7. CASE assets[c]["macos"][Manifest] # r
    BY <1>5, <1>6, <1>7 DEF AppcastStands
  <1>8. CASE assets[c]["macos"][Manifest] = r
    <2>1. RunBuild[r] = c
      BY <1>2, <1>5, <1>8 DEF ReleaseInv, PreparedOnly
    <2>2. \A n \in Parts : assets[c]["macos"][n] = r
      BY <1>2, <1>5, <1>8 DEF ReleaseInv, ManifestMeansComplete
    <2> QED
      BY <1>5, <2>1, <2>2 DEF AppcastStands
  <1> QED
    BY <1>7, <1>8

\* A new release is later than those that stay, whose order is kept.
LEMMA RollOrders ==
  ASSUME OrdersPublished, NEW b \in Builds, RollPreRelease(b)
  PROVE  OrdersPublished'
  <1> DEFINE staying == {c \in published : c = b \/ Kept(c)}
  <1>1. /\ published' = staying \cup {b} /\ staying \subseteq published
        /\ later' = (later \cap (staying \X staying)) \cup (({b} \ published) \X staying)
    BY DEF RollPreRelease
  <1>2. b \in staying <=> b \in published
    OBVIOUS
  <1> HIDE DEF staying
  <1>3. CASE b \in published
    <2>1. published' = staying /\ \A x, y \in staying : <<x, y>> \in later' <=> <<x, y>> \in later
      BY <1>1, <1>2, <1>3
    <2> QED
      BY <1>1, <2>1 DEF OrdersPublished
  <1>4. CASE b \notin published
    <2>1. b \notin staying
      BY <1>2, <1>4
    <2>2. \A x, y \in staying \cup {b} :
            <<x, y>> \in later' <=>
              y \in staying /\ (x = b \/ (x \in staying /\ <<x, y>> \in later))
      BY <1>1, <1>4, <2>1
    <2> QED
      BY <1>1, <2>1, <2>2 DEF OrdersPublished
  <1> QED
    BY <1>3, <1>4

\* Any other step of the releases only adds assets.
LEMMA AssetsOnlyAdded ==
  ASSUME ReleaseInv, FeedTypeOK, ReleaseStep, ~ \E b \in Builds : RollPreRelease(b)
  PROVE  /\ UNCHANGED <<published, later>>
         /\ \A b \in Builds, p \in Platforms, n \in Parts :
              assets[b][p][n] # None => assets'[b][p][n] = assets[b][p][n]
         /\ attached' \subseteq Platforms \X Runs
  <1>1. ASSUME NEW j \in Jobs, Attaching(j)
        PROVE  /\ job[j].platform \in Platforms /\ job[j].run \in Runs
               /\ RunBuild[job[j].run] \in Builds /\ job[j].part \in Parts
    BY <1>1, AttachmentOf DEF ReleaseInv, Attaching, Attachment
  <1>2. ASSUME NEW j \in Jobs, Attaching(j), Upload(j)
        PROVE  \A b \in Builds, p \in Platforms, n \in Parts :
                 assets[b][p][n] # None => assets'[b][p][n] = assets[b][p][n]
    BY <1>1, <1>2 DEF Upload, Target, ReleaseInv, ReleaseTypeOK
  <1>3. ASSUME NEW j \in Jobs, Attaching(j), Advance(j)
        PROVE  attached' \subseteq Platforms \X Runs
    BY <1>1, <1>3 DEF Advance, FeedTypeOK
  <1>4. CASE \E j \in Jobs, p \in Platforms, r \in Runs : StartAttach(j, p, r)
    BY <1>4 DEF StartAttach, FeedTypeOK
  <1>5. CASE \E j \in Jobs : AttachMissing(j)
    BY <1>2, <1>3, <1>5 DEF AttachMissing
  <1>6. CASE \E j \in Jobs : VerifyExisting(j)
    BY <1>3, <1>6 DEF VerifyExisting
  <1>7. CASE \E j \in Jobs : RefuseReplacement(j)
    BY <1>7 DEF RefuseReplacement, FeedTypeOK
  <1>8. CASE \E j \in Jobs, uploaded \in BOOLEAN : FailAttach(j, uploaded)
    <2>1. PICK j \in Jobs, uploaded \in BOOLEAN : FailAttach(j, uploaded)
      BY <1>8
    <2>2. CASE uploaded
      BY <1>2, <2>1, <2>2 DEF FailAttach, FeedTypeOK
    <2>3. CASE ~uploaded
      BY <2>1, <2>3 DEF FailAttach, FeedTypeOK
    <2> QED
      BY <2>2, <2>3
  <1> QED
    BY <1>4, <1>5, <1>6, <1>7, <1>8 DEF ReleaseStep

LEMMA AddedStands ==
  ASSUME "macos" \in Platforms, NEW r \in Runs, AppcastStands(r), published' = published,
         ReleaseInv,
         \A b \in Builds, p \in Platforms, n \in Parts :
           assets[b][p][n] # None => assets'[b][p][n] = assets[b][p][n]
  PROVE  AppcastStands(r)'
  <1>1. r # None /\ RunBuild[r] \in Builds /\ Manifest \in Parts /\ published \subseteq Builds
    BY ReleaseAssumption, ManifestIsPart DEF ReleaseInv, ReleaseTypeOK
  <1>2. CASE \A n \in Parts : assets[RunBuild[r]]["macos"][n] = r
    BY <1>1, <1>2 DEF AppcastStands
  <1>3. CASE \E b \in CompleteReleases("macos") : assets[b]["macos"][Manifest] # r
    BY <1>1, <1>3 DEF AppcastStands, CompleteReleases
  <1> QED
    BY <1>2, <1>3 DEF AppcastStands

\* Where the n-th object of a feed goes: packages, then feeds, then signatures.
LEMMA ObjectFacts ==
  ASSUME NEW p \in Platforms, NEW b \in Builds, NEW n \in Nat \ {0}, n <= ObjectCount(p),
         NEW o, o = PublicationOrder(p, b, n)
  PROVE  /\ o \in FeedObjects
         /\ p = "linux" =>
              \/ n \in Archs /\ o = <<"nupkg", n, b>>
              \/ /\ \A a \in Archs : a < n
                 /\ \E a \in Archs : o \in {<<"feed", a, 0>>, <<"sig", a, 0>>}
         /\ p = "macos" => \E a \in Archs : o = <<"appcast", a, 0>>
  <1> DEFINE A == Cardinality(Archs)
             k == (n - 1) \div A
             a == ((n - 1) % A) + 1
  <1>1. A \in Nat \ {0} /\ Archs = 1..A
    BY ReleaseAssumption, FS_CardinalityType, FS_EmptySet
  <1> HIDE DEF A
  <1>2. n - 1 \in Nat
    OBVIOUS
  <1>3. /\ k \in Nat /\ a \in Archs
        /\ n - 1 < A => k = 0 /\ a = n
        /\ n - 1 >= A => k >= 1
        /\ n - 1 < 3 * A => k <= 2
    <2>1. k \in Nat /\ (n - 1) % A \in 0..A - 1
      BY <1>1, <1>2
    <2>2. n - 1 < A => k = 0 /\ (n - 1) % A = n - 1
      BY <1>1, <1>2
    <2>3. n - 1 >= A => k >= 1
      BY <1>1, <1>2
    <2>4. n - 1 < 3 * A => k <= 2
      BY <1>1, <1>2
    <2> QED
      BY <1>1, <2>1, <2>2, <2>3, <2>4
  <1>4. o = FeedObject(Kinds(p)[k + 1], a, b)
    BY DEF PublicationOrder, A
  <1> HIDE DEF k, a
  <1>5. CASE p = "linux"
    <2>1. Kinds(p) = <<"nupkg", "feed", "sig">> /\ ObjectCount(p) = 3 * A
      BY <1>1, <1>5 DEF Kinds, ObjectCount, A
    <2>2. n - 1 < 3 * A
      BY <1>1, <2>1
    <2>3. CASE n - 1 < A
      <3>1. k = 0 /\ a = n /\ n \in Archs
        BY <1>1, <1>3, <2>3
      <3>2. o = <<"nupkg", n, b>>
        BY <1>4, <2>1, <3>1 DEF FeedObject
      <3>3. o = FeedObject(Kinds("linux")[1], a, b) /\ 1 \in 1..3
        BY <1>4, <1>5, <3>1
      <3>4. o \in FeedObjects
        BY <1>3, <3>3 DEF FeedObjects
      <3> QED
        BY <1>5, <3>1, <3>2, <3>4
    <2>4. CASE n - 1 >= A
      <3>1. k = 1 \/ k = 2
        BY <1>3, <2>2, <2>4
      <3>2. \A c \in Archs : c < n
        BY <1>1, <2>4
      <3>3. o = FeedObject("feed", a, b) \/ o = FeedObject("sig", a, b)
        BY <1>4, <2>1, <3>1
      <3>4. o \in {<<"feed", a, 0>>, <<"sig", a, 0>>}
        BY <3>3 DEF FeedObject
      <3>5. o \in FeedObjects
        <4>1. o = FeedObject(Kinds("linux")[k + 1], a, b) /\ k + 1 \in 1..3
          BY <1>4, <1>5, <3>1
        <4> QED
          BY <1>3, <4>1 DEF FeedObjects
      <3> QED
        BY <1>3, <1>5, <3>2, <3>4, <3>5
    <2> QED
      BY <1>1, <2>3, <2>4
  <1>6. CASE p = "macos"
    <2>1. Kinds(p) = <<"appcast">> /\ ObjectCount(p) = A
      BY <1>1, <1>6 DEF Kinds, ObjectCount, A
    <2>2. k = 0
      BY <1>1, <1>3, <2>1
    <2>3. o = <<"appcast", a, 0>>
      BY <1>4, <2>1, <2>2 DEF FeedObject
    <2>4. o \in FeedObjects
      BY <1>3, <2>3 DEF FeedObjects, FeedObject
    <2> QED
      BY <1>3, <1>6, <2>3, <2>4
  <1> QED
    BY <1>5, <1>6, ReleaseAssumption

LEMMA NewerFacts ==
  ASSUME NEW h, NEW a \in Archs, NEW b \in Builds
  PROVE  /\ Newer(h, a, b) \subseteq Builds /\ IsFiniteSet(Newer(h, a, b))
         /\ Cardinality(Newer(h, a, b)) \in Nat
         /\ <<"nupkg", a, b>> \in FeedObjects
         /\ <<"feed", a, 0>> \in FeedObjects /\ <<"appcast", a, 0>> \in FeedObjects
  <1>1. Newer(h, a, b) \subseteq Builds
    BY DEF Newer
  <1>2. IsFiniteSet(Newer(h, a, b))
    BY <1>1, ReleaseAssumption, FS_Subset
  <1>3. /\ FeedObject("nupkg", a, b) \in FeedObjects
        /\ FeedObject("feed", a, b) \in FeedObjects
        /\ FeedObject("appcast", a, 0) \in FeedObjects
    <2>1. Kinds("linux")[1] = "nupkg" /\ Kinds("linux")[2] = "feed" /\ 1 \in 1..3 /\ 2 \in 1..3
      BY DEF Kinds
    <2>2. /\ FeedObject(Kinds("linux")[1], a, b) \in FeedObjects
          /\ FeedObject(Kinds("linux")[2], a, b) \in FeedObjects
          /\ FeedObject("appcast", a, 0) \in FeedObjects
      BY <2>1 DEF FeedObjects
    <2> QED
      BY <2>1, <2>2
  <1> QED
    BY <1>1, <1>2, <1>3, FS_CardinalityType DEF FeedObject

\* Packages that are added keep what a feed names.
LEMMA MoreNewer ==
  ASSUME NEW a \in Archs, NEW r \in Runs, Named(hosted, a, r),
         \A c \in Builds : hosted[<<"nupkg", a, c>>] # None =>
                           hosted'[<<"nupkg", a, c>>] = hosted[<<"nupkg", a, c>>]
  PROVE  Named(hosted', a, r)
  <1> DEFINE b == RunBuild[r]
  <1>1. b \in Builds /\ r # None
    BY ReleaseAssumption
  <1>2. Newer(hosted, a, b) \subseteq Newer(hosted', a, b)
    BY DEF Newer, FeedObject
  <1>3. IsFiniteSet(Newer(hosted', a, b))
    <2>1. Newer(hosted', a, b) \subseteq Builds
      BY DEF Newer
    <2> QED
      BY <2>1, ReleaseAssumption, FS_Subset
  <1>4. /\ Cardinality(Newer(hosted, a, b)) \in Nat /\ Cardinality(Newer(hosted', a, b)) \in Nat
        /\ Cardinality(Newer(hosted, a, b)) <= Cardinality(Newer(hosted', a, b))
    BY <1>1, <1>2, <1>3, NewerFacts, FS_Subset, FS_CardinalityType
  <1>5. CASE hosted[<<"nupkg", a, b>>] = r
    BY <1>1, <1>5 DEF Named, FeedObject
  <1>6. CASE Cardinality(Newer(hosted, a, b)) >= KeptBuilds
    BY <1>4, <1>6, KeptAssumption DEF Named
  <1> QED
    BY <1>5, <1>6 DEF Named, FeedObject

\* Pruning keeps as many newer packages as it prunes for.
LEMMA PruneNamed ==
  ASSUME NEW a \in Archs, NEW r \in Runs, Named(hosted, a, r), PruneFeedPackages
  PROVE  Named(hosted', a, r)
  <1> DEFINE newer(c) == Newer(hosted, a, c)
             b == RunBuild[r]
             kept == Newer(hosted', a, b)
             pruned == newer(b) \ kept
             order == {x \in Builds \X Builds : x[1] > x[2]}
  <1>1. b \in Builds /\ Builds \subseteq Nat /\ r # None /\ KeptBuilds \in Nat
    BY ReleaseAssumption, KeptAssumption
  <1>2. \A c \in Builds : /\ newer(c) \subseteq Builds /\ IsFiniteSet(newer(c))
                          /\ Cardinality(newer(c)) \in Nat
                          /\ <<"nupkg", a, c>> \in FeedObjects
    BY NewerFacts
  <1>3. \A c \in Builds :
          hosted'[<<"nupkg", a, c>>] = IF Cardinality(newer(c)) >= KeptBuilds THEN None
                                       ELSE hosted[<<"nupkg", a, c>>]
    <2> SUFFICES ASSUME NEW c \in Builds
                 PROVE  hosted'[<<"nupkg", a, c>>] =
                          IF Cardinality(newer(c)) >= KeptBuilds THEN None
                          ELSE hosted[<<"nupkg", a, c>>]
      OBVIOUS
    <2>1. newer(c) = NewerPackages(a, c)
      BY DEF Newer, NewerPackages
    <2> QED
      BY <1>2, <2>1 DEF PruneFeedPackages
  <1>4. \A c, d \in Builds : d \in newer(c) <=> d > c /\ hosted[<<"nupkg", a, d>>] # None
    BY DEF Newer, FeedObject
  <1>5. \A d \in Builds : d \in kept <=> d > b /\ hosted'[<<"nupkg", a, d>>] # None
    BY DEF Newer, FeedObject
  <1>6. kept \subseteq newer(b)
    <2>1. kept \subseteq Builds
      BY DEF Newer
    <2> QED
      BY <1>1, <1>3, <1>4, <1>5, <2>1
  <1>7. IsFiniteSet(kept) /\ Cardinality(kept) \in Nat
    BY <1>1, <1>2, <1>6, FS_Subset, FS_CardinalityType
  <1> HIDE DEF newer, kept
  <1>8. ASSUME Cardinality(newer(b)) >= KeptBuilds PROVE Cardinality(kept) >= KeptBuilds
    <2>1. CASE pruned = {}
      <3>1. kept = newer(b)
        BY <1>6, <2>1
      <3> QED
        BY <1>8, <3>1
    <2>2. CASE pruned # {}
      <3>1. pruned \subseteq Builds /\ IsFiniteSet(pruned)
        BY <1>1, <1>2, FS_Subset
      <3>2. /\ \A x, y \in Builds : <<x, y>> \in order <=> x > y
        OBVIOUS
      <3> HIDE DEF order
      <3>3. PICK c \in pruned : \A d \in pruned : <<d, c>> \notin order
        <4> HIDE DEF pruned
        <4>1. pruned \subseteq Nat
          BY <1>1, <3>1
        <4>2. \A x \in pruned : <<x, x>> \notin order
          BY <3>1, <3>2, <4>1
        <4>3. ASSUME NEW x \in pruned, NEW y \in pruned, NEW z \in pruned,
                     <<x, y>> \in order, <<y, z>> \in order
              PROVE  <<x, z>> \in order
          <5>1. x \in Nat /\ y \in Nat /\ z \in Nat /\ x > y /\ y > z
            BY <3>1, <3>2, <4>1, <4>3
          <5>2. x > z
            BY <5>1
          <5> QED
            BY <3>1, <3>2, <5>2
        <4> QED
          BY <2>2, <3>1, <4>2, <4>3, FirstElement
      <3>4. c \in Builds /\ c > b /\ Cardinality(newer(c)) >= KeptBuilds
        BY <1>1, <1>3, <1>4, <1>5, <3>1, <3>3
      <3>5. ASSUME NEW d \in newer(c) PROVE d \in kept
        <4>1. d \in Builds /\ d > c /\ hosted[<<"nupkg", a, d>>] # None
          BY <1>2, <1>4, <3>4, <3>5
        <4>2. d > b
          <5>1. b \in Nat /\ c \in Nat /\ d \in Nat
            BY <1>1, <3>4, <4>1
          <5> QED
            BY <3>4, <4>1, <5>1
        <4>3. d \in newer(b)
          BY <1>1, <1>4, <4>1, <4>2
        <4>4. d \notin pruned
          BY <3>2, <3>3, <3>4, <4>1
        <4> QED
          BY <4>3, <4>4
      <3>6. Cardinality(newer(c)) <= Cardinality(kept)
        BY <1>7, <3>5, FS_Subset
      <3>7. Cardinality(newer(c)) \in Nat
        BY <1>2, <3>4
      <3> QED
        BY <1>1, <1>7, <3>4, <3>6, <3>7
    <2> QED
      BY <2>1, <2>2
  <1>9. CASE Cardinality(newer(b)) >= KeptBuilds
    <2>1. Cardinality(kept) >= KeptBuilds
      BY <1>8, <1>9
    <2> QED
      BY <2>1 DEF Named, newer, kept
  <1>10. CASE ~(Cardinality(newer(b)) >= KeptBuilds)
    <2>1. hosted[<<"nupkg", a, b>>] = r
      BY <1>10 DEF Named, newer, FeedObject
    <2>2. hosted'[<<"nupkg", a, b>>] = r
      BY <1>1, <1>3, <1>10, <2>1
    <2> QED
      BY <2>2 DEF Named, FeedObject
  <1> QED
    BY <1>9, <1>10

\* The job that hosts p's feed.
LEMMA HostingFacts ==
  ASSUME FeedInv, NEW p \in Platforms, Hosting(p)
  PROVE  /\ hosting[p] \in [run : Runs, next : Nat \ {0}]
         /\ hosting[p].run \in Runs /\ hosting[p].run # None /\ hosting[p].next \in Nat \ {0}
         /\ RunBuild[hosting[p].run] \in Builds
         /\ <<p, hosting[p].run>> \in signedFeeds
         /\ hosting[p].next <= ObjectCount(p)
         /\ p = "linux" => \A a \in Archs : a < hosting[p].next => Named(hosted, a, hosting[p].run)
  <1>1. hosting[p] \in [run : Runs, next : Nat \ {0}]
    BY DEF FeedInv, FeedTypeOK, Hosting, NotHosting
  <1> QED
    BY <1>1, ReleaseAssumption DEF FeedInv, HostingOwns

\* An object is written: a package only where there was none, a feed only
\* after the packages.
LEMMA WriteKeeps ==
  ASSUME FeedInv, NEW p \in Platforms, Hosting(p), ~Conflicts(p), UNCHANGED signedFeeds,
         hosted' = [hosted EXCEPT ![NextObject(p)] = hosting[p].run]
  PROVE  /\ hosted' \in [FeedObjects -> Runs \cup {None}]
         /\ \A a \in Archs, r \in Runs : Named(hosted, a, r) => Named(hosted', a, r)
         /\ \A a \in Archs : hosted'[<<"feed", a, 0>>] # None =>
                              Named(hosted', a, hosted'[<<"feed", a, 0>>])
         /\ \A a \in Archs : hosted'[<<"appcast", a, 0>>] # None =>
                              <<"macos", hosted'[<<"appcast", a, 0>>]>> \in signedFeeds
         /\ p = "linux" =>
              \A a \in Archs : a <= hosting[p].next => Named(hosted', a, hosting[p].run)
  <1> DEFINE r0 == hosting[p].run
             n == hosting[p].next
             o == NextObject(p)
  <1>1. /\ r0 \in Runs /\ r0 # None /\ n \in Nat \ {0} /\ RunBuild[r0] \in Builds
        /\ <<p, r0>> \in signedFeeds /\ n <= ObjectCount(p)
        /\ p = "linux" => \A a \in Archs : a < n => Named(hosted, a, r0)
    BY HostingFacts
  <1>2. /\ o \in FeedObjects
        /\ p = "linux" =>
             \/ n \in Archs /\ o = <<"nupkg", n, RunBuild[r0]>>
             \/ /\ \A a \in Archs : a < n
                /\ \E a \in Archs : o \in {<<"feed", a, 0>>, <<"sig", a, 0>>}
        /\ p = "macos" => \E a \in Archs : o = <<"appcast", a, 0>>
    BY <1>1, ObjectFacts DEF NextObject
  <1>3. /\ hosted' = [hosted EXCEPT ![o] = r0] /\ hosted \in [FeedObjects -> Runs \cup {None}]
        /\ o[1] = "nupkg" => hosted[o] \in {None, r0}
    BY DEF Conflicts, FeedInv, FeedTypeOK
  <1>4. p = "linux" \/ p = "macos"
    BY ReleaseAssumption
  <1> HIDE DEF r0, n, o
  <1>5. \A x \in FeedObjects : hosted'[x] = IF x = o THEN r0 ELSE hosted[x]
    BY <1>2, <1>3
  <1>6. ASSUME NEW a \in Archs, NEW r \in Runs, Named(hosted, a, r) PROVE Named(hosted', a, r)
    <2>1. ASSUME NEW c \in Builds, hosted[<<"nupkg", a, c>>] # None
          PROVE  hosted'[<<"nupkg", a, c>>] = hosted[<<"nupkg", a, c>>]
      BY <1>3, <1>5, <2>1, NewerFacts
    <2> QED
      BY <1>6, <2>1, MoreNewer
  <1>7. ASSUME NEW a \in Archs, hosted'[<<"feed", a, 0>>] # None
        PROVE  Named(hosted', a, hosted'[<<"feed", a, 0>>])
    <2> DEFINE x == <<"feed", a, 0>>
    <2>1. x \in FeedObjects
      BY <1>1, NewerFacts
    <2>2. CASE x = o
      <3>1. Named(hosted, a, r0)
        BY <1>1, <1>2, <1>4, <2>2
      <3>2. Named(hosted', a, r0)
        BY <1>1, <1>6, <3>1
      <3>3. hosted'[x] = r0
        BY <1>5, <2>1, <2>2
      <3> QED
        BY <3>2, <3>3
    <2>3. CASE x # o
      <3> DEFINE r == hosted[x]
      <3>1. hosted'[x] = r /\ r \in Runs /\ r # None
        BY <1>3, <1>5, <1>7, <2>1, <2>3
      <3>2. Named(hosted, a, r)
        BY <3>1 DEF FeedInv, FeedsResolve, Named, Newer, NewerPackages, FeedObject
      <3> HIDE DEF r
      <3>3. Named(hosted', a, r)
        BY <1>6, <3>1, <3>2
      <3> QED
        BY <3>1, <3>3
    <2> QED
      BY <2>2, <2>3
  <1>8. ASSUME NEW a \in Archs, hosted'[<<"appcast", a, 0>>] # None
        PROVE  <<"macos", hosted'[<<"appcast", a, 0>>]>> \in signedFeeds
    <2> DEFINE x == <<"appcast", a, 0>>
    <2>1. x \in FeedObjects
      BY <1>1, NewerFacts
    <2>2. CASE x = o
      BY <1>1, <1>2, <1>4, <1>5, <2>1, <2>2
    <2>3. CASE x # o
      BY <1>5, <1>8, <2>1, <2>3 DEF FeedInv, FeedObject
    <2> QED
      BY <2>2, <2>3
  <1>9. ASSUME p = "linux", NEW a \in Archs, a <= n PROVE Named(hosted', a, r0)
    <2>1. CASE a < n
      BY <1>1, <1>6, <1>9, <2>1
    <2>2. CASE a = n
      <3>1. o = <<"nupkg", a, RunBuild[r0]>>
        BY <1>1, <1>2, <1>9, <2>2
      <3>2. hosted'[<<"nupkg", a, RunBuild[r0]>>] = r0
        BY <1>2, <1>5, <3>1
      <3> QED
        BY <3>2 DEF Named, FeedObject, r0
    <2>3. a \in Nat
      BY ReleaseAssumption, FS_CardinalityType
    <2> QED
      BY <1>1, <1>9, <2>1, <2>2, <2>3
  <1>10. hosted' \in [FeedObjects -> Runs \cup {None}]
    BY <1>1, <1>3
  <1> QED
    BY <1>6, <1>7, <1>8, <1>9, <1>10 DEF r0, n

\* A step of the releases.
LEMMA ReleaseStepFeeds ==
  ASSUME FeedInv, ReleaseInv', ReleaseStep, UNCHANGED feedVars
  PROVE  FeedInv'
  <1>1. UNCHANGED <<signedFeeds, hosted, hosting>>
    BY DEF feedVars
  <1>2. CASE \E b \in Builds : RollPreRelease(b)
    <2>1. UNCHANGED attached /\ OrdersPublished'
      BY <1>2, RollOrders DEF FeedInv, RollPreRelease
    <2>2. ASSUME NEW r \in Runs, <<"macos", r>> \in signedFeeds PROVE AppcastStands(r)'
      <3>1. "macos" \in Platforms /\ AppcastStands(r)
        BY <2>2 DEF FeedInv, FeedTypeOK
      <3> QED
        BY <1>2, <3>1, RollStands DEF FeedInv
    <2> QED
      BY <1>1, <2>1, <2>2 DEF FeedInv, FeedTypeOK, HostingOwns, Hosting, FeedsResolve,
         NewerPackages
  <1>3. CASE ~ \E b \in Builds : RollPreRelease(b)
    <2>1. /\ UNCHANGED <<published, later>>
          /\ \A b \in Builds, p \in Platforms, n \in Parts :
               assets[b][p][n] # None => assets'[b][p][n] = assets[b][p][n]
          /\ attached' \subseteq Platforms \X Runs
      BY <1>3, AssetsOnlyAdded DEF FeedInv
    <2>2. ASSUME NEW r \in Runs, <<"macos", r>> \in signedFeeds PROVE AppcastStands(r)'
      <3>1. "macos" \in Platforms /\ AppcastStands(r)
        BY <2>2 DEF FeedInv, FeedTypeOK
      <3> QED
        BY <2>1, <3>1, AddedStands DEF FeedInv
    <2>3. OrdersPublished'
      BY <2>1 DEF FeedInv, OrdersPublished
    <2> QED
      BY <1>1, <2>1, <2>2, <2>3 DEF FeedInv, FeedTypeOK, HostingOwns, Hosting, FeedsResolve,
         NewerPackages
  <1> QED
    BY <1>2, <1>3

\* What every step of the feeds leaves to be shown.
LEMMA FeedStepFrame ==
  ASSUME FeedInv, ReleaseInv', UNCHANGED <<published, later, assets, attached>>,
         signedFeeds \subseteq signedFeeds', signedFeeds' \subseteq Platforms \X Runs,
         \A r \in Runs : <<"macos", r>> \in signedFeeds' \ signedFeeds =>
           \A n \in Parts : assets[RunBuild[r]]["macos"][n] = r,
         hosted' \in [FeedObjects -> Runs \cup {None}],
         hosting' \in [Platforms -> [run : Runs, next : Nat \ {0}] \cup {NotHosting}],
         \A p \in Platforms : HostingOwns(p)',
         \A a \in Archs : hosted'[<<"feed", a, 0>>] # None =>
                          Named(hosted', a, hosted'[<<"feed", a, 0>>]),
         \A a \in Archs : hosted'[<<"appcast", a, 0>>] # None =>
                          <<"macos", hosted'[<<"appcast", a, 0>>]>> \in signedFeeds'
  PROVE  FeedInv'
  <1>1. OrdersPublished' /\ FeedTypeOK'
    BY DEF FeedInv, OrdersPublished, FeedTypeOK
  <1>2. \A r \in Runs : <<"macos", r>> \in signedFeeds' => AppcastStands(r)'
    <2> SUFFICES ASSUME NEW r \in Runs, <<"macos", r>> \in signedFeeds' PROVE AppcastStands(r)'
      OBVIOUS
    <2>1. AppcastStands(r)
      BY DEF FeedInv, AppcastStands
    <2> QED
      BY <2>1 DEF AppcastStands, CompleteReleases
  <1>3. FeedsResolve'
    BY DEF FeedsResolve, FeedObject, Named, Newer, NewerPackages
  <1>4. \A a \in Archs :
          LET r == hosted'[FeedObject("appcast", a, 0)]
          IN r # None => <<"macos", r>> \in signedFeeds'
    BY DEF FeedObject
  <1> QED
    BY <1>1, <1>2, <1>3, <1>4 DEF FeedInv

\* What holds of the public feeds before a step.
LEMMA FeedsBefore ==
  ASSUME FeedInv
  PROVE  /\ \A a \in Archs : hosted[<<"feed", a, 0>>] # None =>
                              /\ hosted[<<"feed", a, 0>>] \in Runs
                              /\ Named(hosted, a, hosted[<<"feed", a, 0>>])
         /\ \A a \in Archs : hosted[<<"appcast", a, 0>>] # None =>
                              <<"macos", hosted[<<"appcast", a, 0>>]>> \in signedFeeds
  <1>1. ASSUME NEW a \in Archs, hosted[<<"feed", a, 0>>] # None
        PROVE  /\ hosted[<<"feed", a, 0>>] \in Runs
               /\ Named(hosted, a, hosted[<<"feed", a, 0>>])
    <2>1. hosted[<<"feed", a, 0>>] \in Runs
      <3>1. \E b \in Builds : TRUE
        BY ReleaseAssumption
      <3> QED
        BY <1>1, <3>1, NewerFacts DEF FeedInv, FeedTypeOK
    <2> QED
      BY <1>1, <2>1 DEF FeedInv, FeedsResolve, FeedObject, Named, Newer, NewerPackages
  <1>2. ASSUME NEW a \in Archs, hosted[<<"appcast", a, 0>>] # None
        PROVE  <<"macos", hosted[<<"appcast", a, 0>>]>> \in signedFeeds
    BY <1>2 DEF FeedInv, FeedObject
  <1> QED
    BY <1>1, <1>2

\* A hosting job that a step leaves alone keeps what it has.
LEMMA HostingKept ==
  ASSUME FeedInv, NEW p \in Platforms, hosting'[p] = hosting[p], signedFeeds \subseteq signedFeeds',
         \A a \in Archs, r \in Runs : Named(hosted, a, r) => Named(hosted', a, r)
  PROVE  HostingOwns(p)'
  <1> SUFFICES ASSUME Hosting(p)
               PROVE  /\ <<p, hosting[p].run>> \in signedFeeds'
                      /\ hosting[p].next <= ObjectCount(p)
                      /\ p = "linux" => \A a \in Archs : a < hosting[p].next =>
                                                          Named(hosted', a, hosting[p].run)
    BY DEF HostingOwns, Hosting, ObjectCount, Named, Newer, FeedObject
  <1> QED
    BY HostingFacts

\* A platform whose hosting has ended has nothing to keep.
LEMMA HostingStopped ==
  ASSUME FeedInv, NEW p \in Platforms, StopHosting(p), NEW q \in Platforms,
         UNCHANGED signedFeeds,
         \A a \in Archs, r \in Runs : Named(hosted, a, r) => Named(hosted', a, r)
  PROVE  /\ hosting' \in [Platforms -> [run : Runs, next : Nat \ {0}] \cup {NotHosting}]
         /\ HostingOwns(q)'
  <1>1. /\ hosting' \in [Platforms -> [run : Runs, next : Nat \ {0}] \cup {NotHosting}]
        /\ hosting'[p] = NotHosting
        /\ q # p => hosting'[q] = hosting[q]
    BY DEF StopHosting, FeedInv, FeedTypeOK
  <1>2. CASE q = p
    BY <1>1, <1>2 DEF HostingOwns, Hosting, NotHosting
  <1>3. CASE q # p
    BY <1>1, <1>3, HostingKept
  <1> QED
    BY <1>1, <1>2, <1>3

LEMMA SignKeeps ==
  ASSUME FeedInv, ReleaseInv', NEW r \in Runs, SignVelopack(r) \/ SignAppcasts(r)
  PROVE  FeedInv'
  <1>1. UNCHANGED <<published, later, assets, attached, hosted, hosting>>
    BY DEF SignVelopack, SignAppcasts, relVars
  <1>2. /\ signedFeeds \subseteq signedFeeds' /\ signedFeeds' \subseteq Platforms \X Runs
        /\ \A s \in Runs : <<"macos", s>> \in signedFeeds' \ signedFeeds =>
             \A n \in Parts : assets[RunBuild[s]]["macos"][n] = s
    BY DEF SignVelopack, SignAppcasts, DownloadMacos, FeedInv, FeedTypeOK
  <1>3. ASSUME NEW p \in Platforms PROVE HostingOwns(p)'
    BY <1>1, <1>2, HostingKept
  <1>4. /\ hosted' \in [FeedObjects -> Runs \cup {None}]
        /\ hosting' \in [Platforms -> [run : Runs, next : Nat \ {0}] \cup {NotHosting}]
    BY <1>1 DEF FeedInv, FeedTypeOK
  <1>5. /\ \A a \in Archs : hosted'[<<"feed", a, 0>>] # None =>
                             Named(hosted', a, hosted'[<<"feed", a, 0>>])
        /\ \A a \in Archs : hosted'[<<"appcast", a, 0>>] # None =>
                             <<"macos", hosted'[<<"appcast", a, 0>>]>> \in signedFeeds'
    BY <1>1, <1>2, FeedsBefore
  <1> QED
    BY <1>1, <1>2, <1>3, <1>4, <1>5, FeedStepFrame

\* Signed feeds and the public objects stay as they are.
LEMMA OnlyHostingMoves ==
  ASSUME FeedInv, ReleaseInv',
         UNCHANGED <<published, later, assets, attached, signedFeeds, hosted>>,
         hosting' \in [Platforms -> [run : Runs, next : Nat \ {0}] \cup {NotHosting}],
         \A p \in Platforms : HostingOwns(p)'
  PROVE  FeedInv'
  <1>1. /\ signedFeeds' \subseteq Platforms \X Runs
        /\ hosted' \in [FeedObjects -> Runs \cup {None}]
    BY DEF FeedInv, FeedTypeOK
  <1>2. /\ \A a \in Archs : hosted'[<<"feed", a, 0>>] # None =>
                             Named(hosted', a, hosted'[<<"feed", a, 0>>])
        /\ \A a \in Archs : hosted'[<<"appcast", a, 0>>] # None =>
                             <<"macos", hosted'[<<"appcast", a, 0>>]>> \in signedFeeds'
    BY FeedsBefore
  <1> QED
    BY <1>1, <1>2, FeedStepFrame

LEMMA StartHostingKeeps ==
  ASSUME FeedInv, ReleaseInv', NEW p \in Platforms, NEW r \in Runs, StartHosting(p, r)
  PROVE  FeedInv'
  <1>1. /\ UNCHANGED <<published, later, assets, attached, signedFeeds, hosted>>
        /\ hosting' = [hosting EXCEPT ![p] = [run |-> r, next |-> 1]]
        /\ <<p, r>> \in signedFeeds
    BY DEF StartHosting, relVars
  <1>2. hosting' \in [Platforms -> [run : Runs, next : Nat \ {0}] \cup {NotHosting}]
    BY <1>1 DEF FeedInv, FeedTypeOK
  <1>3. 1 <= ObjectCount(p)
    <2> DEFINE A == Cardinality(Archs)
    <2>1. A \in Nat \ {0}
      BY ReleaseAssumption, FS_CardinalityType, FS_EmptySet
    <2>2. Len(Kinds(p)) \in {1, 3}
      BY DEF Kinds
    <2> HIDE DEF A
    <2>3. 1 <= Len(Kinds(p)) * A
      BY <2>1, <2>2
    <2> QED
      BY <2>3 DEF ObjectCount, A
  <1>4. ASSUME NEW q \in Platforms PROVE HostingOwns(q)'
    <2>1. CASE q = p
      <3>1. hosting'[q] = [run |-> r, next |-> 1]
        BY <1>1, <2>1 DEF FeedInv, FeedTypeOK
      <3>2. \A a \in Archs : ~ (a < 1)
        BY ReleaseAssumption, FS_CardinalityType
      <3> QED
        BY <1>1, <1>3, <2>1, <3>1, <3>2 DEF HostingOwns, ObjectCount
    <2>2. CASE q # p
      <3>1. hosting'[q] = hosting[q]
        BY <1>1, <2>2 DEF FeedInv, FeedTypeOK
      <3> QED
        BY <1>1, <3>1, HostingKept
    <2> QED
      BY <2>1, <2>2
  <1> QED
    BY <1>1, <1>2, <1>4, OnlyHostingMoves

LEMMA RefuseKeeps ==
  ASSUME FeedInv, ReleaseInv', NEW p \in Platforms, StopHosting(p),
         UNCHANGED <<published, later, assets, attached, signedFeeds, hosted>>
  PROVE  FeedInv'
  <1>1. /\ hosting' \in [Platforms -> [run : Runs, next : Nat \ {0}] \cup {NotHosting}]
        /\ \A q \in Platforms : HostingOwns(q)'
    BY HostingStopped
  <1> QED
    BY <1>1, OnlyHostingMoves

\* An object is written and the job goes on to the next, or ends.
LEMMA WriteStepKeeps ==
  ASSUME FeedInv, ReleaseInv', NEW p \in Platforms, Hosting(p), ~Conflicts(p),
         hosted' = [hosted EXCEPT ![NextObject(p)] = hosting[p].run],
         UNCHANGED <<published, later, assets, attached, signedFeeds>>,
         \/ StopHosting(p)
         \/ hosting[p].next < ObjectCount(p) /\ hosting' = [hosting EXCEPT ![p].next = @ + 1]
  PROVE  FeedInv'
  <1> DEFINE Job == [run : Runs, next : Nat \ {0}]
  <1>1. /\ hosted' \in [FeedObjects -> Runs \cup {None}]
        /\ \A a \in Archs, r \in Runs : Named(hosted, a, r) => Named(hosted', a, r)
        /\ \A a \in Archs : hosted'[<<"feed", a, 0>>] # None =>
                             Named(hosted', a, hosted'[<<"feed", a, 0>>])
        /\ \A a \in Archs : hosted'[<<"appcast", a, 0>>] # None =>
                             <<"macos", hosted'[<<"appcast", a, 0>>]>> \in signedFeeds
        /\ p = "linux" => \A a \in Archs : a <= hosting[p].next =>
                                            Named(hosted', a, hosting[p].run)
    BY WriteKeeps
  <1>2. hosting' \in [Platforms -> Job \cup {NotHosting}] /\ \A q \in Platforms : HostingOwns(q)'
    <2>1. CASE StopHosting(p)
      BY <1>1, <2>1, HostingStopped
    <2>2. CASE hosting[p].next < ObjectCount(p) /\ hosting' = [hosting EXCEPT ![p].next = @ + 1]
      <3> DEFINE n == hosting[p].next
                 r == hosting[p].run
      <3>1. /\ hosting[p] \in Job /\ n \in Nat \ {0} /\ r \in Runs /\ <<p, r>> \in signedFeeds
        BY HostingFacts
      <3>2. hosting'[p] = [run |-> r, next |-> n + 1] /\ hosting'[p] \in Job
        BY <2>2, <3>1 DEF FeedInv, FeedTypeOK
      <3>3. \A q \in Platforms : q # p => hosting'[q] = hosting[q]
        BY <2>2 DEF FeedInv, FeedTypeOK
      <3>4. hosting' \in [Platforms -> Job \cup {NotHosting}]
        <4>1. hosting \in [Platforms -> Job \cup {NotHosting}]
          BY DEF FeedInv, FeedTypeOK
        <4>2. hosting' = [hosting EXCEPT ![p] = hosting'[p]]
          BY <2>2, <4>1
        <4> QED
          BY <3>2, <4>1, <4>2
      <3>5. HostingOwns(p)'
        <4>1. n + 1 <= ObjectCount(p)
          <5>1. ObjectCount(p) \in Nat
            <6>1. Cardinality(Archs) \in Nat /\ Len(Kinds(p)) \in {1, 3}
              BY ReleaseAssumption, FS_CardinalityType DEF Kinds
            <6> QED
              BY <6>1 DEF ObjectCount
          <5> QED
            BY <2>2, <3>1, <5>1
        <4>2. ASSUME p = "linux", NEW a \in Archs, a < n + 1 PROVE Named(hosted', a, r)
          <5>1. a \in Nat
            BY ReleaseAssumption, FS_CardinalityType
          <5>2. a <= n
            BY <3>1, <4>2, <5>1
          <5> QED
            BY <1>1, <4>2, <5>2
        <4> HIDE DEF n, r
        <4> QED
          BY <3>1, <3>2, <4>1, <4>2 DEF HostingOwns, ObjectCount, Named, Newer
      <3>6. ASSUME NEW q \in Platforms PROVE HostingOwns(q)'
        <4>1. CASE q = p
          BY <3>5, <4>1
        <4>2. CASE q # p
          BY <1>1, <3>3, <4>2, HostingKept
        <4> QED
          BY <4>1, <4>2
      <3> QED
        BY <3>4, <3>6
    <2> QED
      BY <2>1, <2>2
  <1>3. signedFeeds' \subseteq Platforms \X Runs
    BY DEF FeedInv, FeedTypeOK
  <1> QED
    BY <1>1, <1>2, <1>3, FeedStepFrame

\* The feeds themselves are never pruned.
LEMMA PruneKeeps ==
  ASSUME FeedInv, ReleaseInv', PruneFeedPackages
  PROVE  FeedInv'
  <1>1. UNCHANGED <<published, later, assets, attached, signedFeeds, hosting>>
    BY DEF PruneFeedPackages, relVars
  <1>2. \A a \in Archs, r \in Runs : Named(hosted, a, r) => Named(hosted', a, r)
    BY PruneNamed
  <1>3. hosted' \in [FeedObjects -> Runs \cup {None}]
    BY DEF PruneFeedPackages, FeedInv, FeedTypeOK
  <1>4. \A a \in Archs : /\ hosted'[<<"feed", a, 0>>] = hosted[<<"feed", a, 0>>]
                         /\ hosted'[<<"appcast", a, 0>>] = hosted[<<"appcast", a, 0>>]
    <2> SUFFICES ASSUME NEW a \in Archs
                 PROVE  /\ hosted'[<<"feed", a, 0>>] = hosted[<<"feed", a, 0>>]
                        /\ hosted'[<<"appcast", a, 0>>] = hosted[<<"appcast", a, 0>>]
      OBVIOUS
    <2>1. \E b \in Builds : TRUE
      BY ReleaseAssumption
    <2>2. <<"feed", a, 0>> \in FeedObjects /\ <<"appcast", a, 0>> \in FeedObjects
      BY <2>1, NewerFacts
    <2> QED
      BY <2>2 DEF PruneFeedPackages
  <1>5. ASSUME NEW p \in Platforms PROVE HostingOwns(p)'
    BY <1>1, <1>2, HostingKept
  <1>6. /\ \A a \in Archs : hosted'[<<"feed", a, 0>>] # None =>
                             Named(hosted', a, hosted'[<<"feed", a, 0>>])
        /\ \A a \in Archs : hosted'[<<"appcast", a, 0>>] # None =>
                             <<"macos", hosted'[<<"appcast", a, 0>>]>> \in signedFeeds'
    BY <1>1, <1>2, <1>4, FeedsBefore
  <1>7. hosting' \in [Platforms -> [run : Runs, next : Nat \ {0}] \cup {NotHosting}]
        /\ signedFeeds' \subseteq Platforms \X Runs
    BY <1>1 DEF FeedInv, FeedTypeOK
  <1> QED
    BY <1>1, <1>3, <1>5, <1>6, <1>7, FeedStepFrame

LEMMA InitFeedInv == Init => FeedInv
  <1> SUFFICES ASSUME Init PROVE FeedInv
    OBVIOUS
  <1>1. ReleaseInv
    BY InitReleaseInv
  <1>2. OrdersPublished /\ FeedTypeOK
    BY DEF Init, InitReleases, InitFeeds, OrdersPublished, FeedTypeOK
  <1>3. \A p \in Platforms : HostingOwns(p)
    BY DEF Init, InitFeeds, HostingOwns, Hosting, NotHosting
  <1>4. ASSUME NEW a \in Archs
        PROVE  hosted[<<"feed", a, 0>>] = None /\ hosted[<<"appcast", a, 0>>] = None
    <2>1. \E b \in Builds : TRUE
      BY ReleaseAssumption
    <2>2. <<"feed", a, 0>> \in FeedObjects /\ <<"appcast", a, 0>> \in FeedObjects
      BY <2>1, NewerFacts
    <2> QED
      BY <2>2 DEF Init, InitFeeds
  <1>5. \A r \in Runs : <<"macos", r>> \notin signedFeeds
    BY DEF Init, InitFeeds
  <1> QED
    BY <1>1, <1>2, <1>3, <1>4, <1>5 DEF FeedInv, FeedsResolve, FeedObject

LEMMA StepFeedInv == FeedInv /\ [Next]_vars => FeedInv'
  <1> SUFFICES ASSUME FeedInv, [Next]_vars PROVE FeedInv'
    OBVIOUS
  <1>1. ReleaseInv'
    BY StepReleaseInv DEF FeedInv
  <1>2. CASE ReleaseStep /\ UNCHANGED feedVars
    BY <1>1, <1>2, ReleaseStepFeeds
  <1>3. ASSUME NEW r \in Runs, SignVelopack(r) \/ SignAppcasts(r) PROVE FeedInv'
    BY <1>1, <1>3, SignKeeps
  <1>4. ASSUME NEW p \in Platforms, NEW r \in Runs, StartHosting(p, r) PROVE FeedInv'
    BY <1>1, <1>4, StartHostingKeeps
  <1>5. ASSUME NEW p \in Platforms, PublishObject(p) PROVE FeedInv'
    BY <1>1, <1>5, WriteStepKeeps DEF PublishObject, relVars
  <1>6. ASSUME NEW p \in Platforms, RefusePackage(p) PROVE FeedInv'
    BY <1>1, <1>6, RefuseKeeps DEF RefusePackage, relVars
  <1>7. ASSUME NEW p \in Platforms, NEW written \in BOOLEAN, FailHosting(p, written) PROVE FeedInv'
    BY <1>1, <1>7, WriteStepKeeps, RefuseKeeps DEF FailHosting
  <1>8. CASE PruneFeedPackages
    BY <1>1, <1>8, PruneKeeps
  <1>9. CASE UNCHANGED vars
    <2>1. UNCHANGED <<published, later, assets, attached, signedFeeds, hosted, hosting>>
      BY <1>9 DEF vars, relVars, feedVars
    <2>2. hosting' \in [Platforms -> [run : Runs, next : Nat \ {0}] \cup {NotHosting}]
      BY <2>1 DEF FeedInv, FeedTypeOK
    <2>3. ASSUME NEW p \in Platforms PROVE HostingOwns(p)'
      BY <2>1, HostingKept
    <2> QED
      BY <1>1, <2>1, <2>2, <2>3, OnlyHostingMoves
  <1> QED
    BY <1>2, <1>3, <1>4, <1>5, <1>6, <1>7, <1>8, <1>9 DEF Next, FeedStep

-----------------------------------------------------------------------------
(* Theorems.                                                                 *)

\* The inductive invariant holds of the releases, feeds and jobs together.
THEOREM ReleaseInvHolds == Spec => []ReleaseInv
  BY InitReleaseInv, StepReleaseInv, PTL DEF Spec

\* A public manifest marks a release all of whose assets are public and of one
\* run, for any number of builds, runs, architectures and concurrent jobs.
THEOREM ManifestsAreComplete == Spec => []ManifestMeansComplete
  BY ReleaseInvHolds, PTL DEF ReleaseInv

\* Nothing is public before all the evidence of its run is sound.
THEOREM OnlyQualifiedIsPublic == Spec => []OnlyQualifiedPublic
  <1>1. ReleaseInv => OnlyQualifiedPublic
    <2> SUFFICES ASSUME ReleaseInv, NEW b \in Builds, NEW p \in Platforms,
                        NEW n \in Parts, assets[b][p][n] # None
                 PROVE  /\ RunBuild[assets[b][p][n]] = b
                        /\ \A a \in Archs : Evidence[assets[b][p][n]][p][a] = Sound
      BY DEF OnlyQualifiedPublic
    <2> QED
      BY PreparedIsSound DEF ReleaseInv, PreparedOnly
  <1> QED
    BY <1>1, ReleaseInvHolds, PTL

\* The invariant of the releases and the feeds together.
THEOREM FeedInvHolds == Spec => []FeedInv
  BY InitFeedInv, StepFeedInv, PTL DEF Spec

\* The package a public Linux feed names is public with the bytes the feed
\* describes until KeptBuilds newer packages stand beside it, whatever number
\* of builds is packaged, hosted, failed and re-run, and whenever pruning runs.
THEOREM FeedsAlwaysResolve == Spec => []FeedsResolve
  BY FeedInvHolds, PTL DEF FeedInv

\* The ZIP a public appcast names stays public until another run's macOS
\* release is complete, though internal releases are deleted beside it.
THEOREM AppcastsAlwaysResolve == Spec => []AppcastsResolve
  <1>1. FeedInv => AppcastsResolve
    <2> SUFFICES ASSUME FeedInv, NEW a \in Archs, NEW r, r = hosted[<<"appcast", a, 0>>],
                        r # None
                 PROVE  \/ assets[RunBuild[r]]["macos"][a] = r
                        \/ \E b \in CompleteReleases("macos") : assets[b]["macos"][Manifest] # r
      BY DEF AppcastsResolve, FeedObject
    <2>1. <<"macos", r>> \in signedFeeds
      BY FeedsBefore
    <2>2. r \in Runs
      BY <2>1 DEF FeedInv, FeedTypeOK
    <2>3. a \in Parts
      BY ReleaseAssumption, FS_CardinalityType DEF Parts, Manifest
    <2> QED
      BY <2>1, <2>2, <2>3 DEF FeedInv, AppcastStands
  <1> QED
    BY <1>1, FeedInvHolds, PTL
=============================================================================
