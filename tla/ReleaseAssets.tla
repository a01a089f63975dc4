-------------------------- MODULE ReleaseAssets --------------------------
(***************************************************************************)
(* The desktop packages of the shared GitHub releases: how a packaging run  *)
(* qualifies and signs its packages, how attachment jobs publish them       *)
(* (publish_desktop_release.py for macOS, publish_desktop_linux.py for      *)
(* Linux), and how the workflow that creates the next internal release      *)
(* deletes older ones (release-all-platforms.yml).                          *)
(*                                                                          *)
(* A build may be packaged more than once: two runs produce different       *)
(* bytes of the same names.  An attachment job reads the names the release  *)
(* already has ONCE, then uploads what was missing, the manifest last, and  *)
(* compares every public asset with its own bytes; it never replaces one.   *)
(* Jobs of the shared workflow and of a manual dispatch run at the same     *)
(* time, fail half way, and are started again.                              *)
(***************************************************************************)
EXTENDS Naturals, Sequences, FiniteSets

CONSTANTS
  Builds,        \* build numbers; each has its own release tag
  Platforms,     \* "linux" and "macos": disjoint asset names, same procedure
  Archs,         \* 1..n, in the order the jobs visit them
  Runs,          \* packaging runs
  RunBuild,      \* the build each run packages
  Jobs,          \* attachment jobs that may be under way at one time
  Evidence,      \* what each run shows for a platform and an architecture
  MaxFailures    \* bound: jobs that die half way

Sound == "sound"      \* evidence without a flaw
Flaws(p) ==           \* what may be wrong with it
  {"failed producer", "other identity", "other channel", "modified source",
   "other digest"} \cup
  (IF p = "macos" THEN {"inventories differ", "not notarized"}
   ELSE {"formats differ", "not as qualified", "wrong key", "unsigned rpm",
         "payload changed", "checksums not signed", "other signer",
         "unsigned differs", "fixture missing"})
Idle == "idle"
Manifest == Cardinality(Archs) + 1     \* the last asset in every job's list
Parts == 1..Manifest
None == 0                              \* no such public asset

ASSUME ReleaseAssumption ==
  /\ IsFiniteSet(Archs) /\ Archs = 1..Cardinality(Archs) /\ Archs # {}
  /\ Builds \subseteq Nat /\ IsFiniteSet(Builds) /\ Builds # {}
  /\ Runs \subseteq Nat \ {None}
  /\ RunBuild \in [Runs -> Builds]
  /\ Platforms \subseteq {"linux", "macos"}
  /\ \A r \in Runs, p \in Platforms, a \in Archs :
       Evidence[r][p][a] \in {Sound} \cup Flaws(p)
  /\ MaxFailures \in Nat

VARIABLES
  published,  \* builds with a public release
  later,      \* the order of their published_at: <<b, c>> when b's is later
  assets,     \* the run whose bytes each public asset delivers
  job,        \* the attachment jobs
  attached,   \* platforms and runs whose attachment succeeded
  failures

relVars == <<published, later, assets, job, attached, failures>>

IdleJob == [at |-> Idle]
IsPublic(b) == b \in published

InitReleases ==
  /\ published = {} /\ later = {}
  /\ assets = [b \in Builds |-> [p \in Platforms |-> [n \in Parts |-> None]]]
  /\ job = [j \in Jobs |-> IdleJob]
  /\ attached = {}
  /\ failures = 0

-----------------------------------------------------------------------------
(* Packaging and its evidence: Sound, or what is wrong with it.              *)

\* The packages of every format carry one bundle identity and are the very
\* files their qualification inspected.
LoadPackages(e) == e \notin {"formats differ", "not as qualified"}

\* The imported key is the configured one, and it alone.
SigningKey(e) == e # "wrong key"

\* An RPM that is not signed by that key does not verify.
VerifyRpm(e) == e # "unsigned rpm"

\* Linux packages leave the signing job only if all of this holds and signing
\* changed no payload.
SignPackages(r) == \A a \in Archs :
  LET e == Evidence[r]["linux"][a]
  IN LoadPackages(e) /\ SigningKey(e) /\ VerifyRpm(e) /\ e # "payload changed"

\* Fault: a signature counts whoever made it.
ChecksumsSigned(e) == e # "checksums not signed"

\* The checksums of an architecture are signed, by the repository's own
\* trusted key and not by one the producer names.
VerifyChecksums(e) == e \notin {"checksums not signed", "other signer"}

\* The producer is a successful run or the workflow the job belongs to.
RequireProducer(e) == e # "failed producer"

\* macOS: identity, channel, clean source, inventories, notarization and
\* digests of BOTH architectures, before the caller uploads anything.
PrepareMacos(r) == \A a \in Archs :
  LET e == Evidence[r]["macos"][a]
  IN /\ RequireProducer(e)
     /\ e \notin {"other identity", "other channel", "modified source",
                  "inventories differ", "not notarized", "other digest"}

\* Linux: the same, the signer, the unsigned evidence and the fixtures.
PrepareLinux(r) ==
  /\ SignPackages(r)
  /\ \A a \in Archs :
       LET e == Evidence[r]["linux"][a]
       IN /\ RequireProducer(e) /\ VerifyChecksums(e)
          /\ e \notin {"other identity", "other channel", "modified source",
                       "unsigned differs", "other digest", "fixture missing"}

Prepared(p, r) ==
  /\ p = "macos" => PrepareMacos(r)
  /\ p = "linux" => PrepareLinux(r)

-----------------------------------------------------------------------------
(* The shared release.                                                      *)

CompleteReleases(p) == {b \in published : assets[b][p][Manifest] # None}

NewestOf(b, S) == b \in S /\ \A c \in S \ {b} : <<b, c>> \in later

\* Fault: keeps the newest completed for Linux alone.
KeptForLinux(b) == NewestOf(b, CompleteReleases("linux"))

\* The newest completed pre-release of each platform keeps its downloads.
Kept(b) == \E p \in Platforms : NewestOf(b, CompleteReleases(p))

NoAssets == [p \in Platforms |-> [n \in Parts |-> None]]

\* Publishing an internal pre-release deletes the others that are not kept,
\* also when a re-run of its workflow finds it published already: then it stays
\* as it is.  A workflow that failed is re-run later: an older build may come
\* second, and a deleted release may be created again, though not (an
\* assumption on the operators) while a job that knew the deleted one is still
\* attaching.  Listing, deleting and creating are one step here.
RollPreRelease(b) ==
  /\ \/ IsPublic(b)
     \/ \A j \in Jobs : job[j].at # Idle => RunBuild[job[j].run] # b
  /\ LET staying == {c \in published : c = b \/ Kept(c)}
     IN /\ published' = staying \cup {b}
        /\ later' = (later \cap (staying \X staying)) \cup (({b} \ published) \X staying)
        /\ assets' = [c \in Builds |-> IF c \in staying THEN assets[c] ELSE NoAssets]
  /\ UNCHANGED <<job, attached, failures>>

-----------------------------------------------------------------------------
(* Attachment jobs.                                                         *)

\* The job prepares its packages, requires a public release of its build and
\* remembers which asset names the release has.
StartAttach(j, p, r) ==
  /\ job[j].at = Idle
  /\ Prepared(p, r)
  /\ IsPublic(RunBuild[r])
  /\ job' = [job EXCEPT ![j] =
       [at |-> "attaching", platform |-> p, run |-> r, part |-> 1,
        existing |-> {n \in Parts : assets[RunBuild[r]][p][n] # None}]]
  /\ UNCHANGED <<published, later, assets, attached, failures>>

Target(j) == assets[RunBuild[job[j].run]][job[j].platform]
Attaching(j) == job[j].at # Idle

\* gh release upload without --clobber: it fails on a name that exists.
Upload(j) ==
  /\ IsPublic(RunBuild[job[j].run])
  /\ Target(j)[job[j].part] = None
  /\ assets' = [assets EXCEPT
       ![RunBuild[job[j].run]][job[j].platform][job[j].part] = job[j].run]

\* The job goes on to its next asset; after the manifest it has succeeded.
Advance(j) ==
  IF job[j].part < Manifest
  THEN job' = [job EXCEPT ![j].part = @ + 1] /\ UNCHANGED attached
  ELSE /\ job' = [job EXCEPT ![j] = IdleJob]
       /\ attached' = attached \cup {<<job[j].platform, job[j].run>>}

\* An asset the release did not have is uploaded, and its public bytes agree.
AttachMissing(j) ==
  /\ Attaching(j)
  /\ job[j].part \notin job[j].existing
  /\ Upload(j)
  /\ Advance(j)
  /\ UNCHANGED <<published, later, failures>>

\* Fault: an asset that is public already counts as this job's.
AcceptExisting(j) ==
  /\ Attaching(j)
  /\ job[j].part \in job[j].existing
  /\ Advance(j)
  /\ UNCHANGED <<published, later, assets, failures>>

\* One that was there is kept if it delivers the same bytes.
VerifyExisting(j) ==
  /\ Attaching(j)
  /\ job[j].part \in job[j].existing
  /\ Target(j)[job[j].part] = job[j].run
  /\ Advance(j)
  /\ UNCHANGED <<published, later, assets, failures>>

\* The name appeared since, the bytes differ, or the release is gone: the job
\* ends without replacing anything.
Refused(j) ==
  IF job[j].part \in job[j].existing
  THEN Target(j)[job[j].part] # job[j].run
  ELSE Target(j)[job[j].part] # None \/ ~IsPublic(RunBuild[job[j].run])

RefuseReplacement(j) ==
  /\ Attaching(j)
  /\ Refused(j)
  /\ job' = [job EXCEPT ![j] = IdleJob]
  /\ UNCHANGED <<published, later, assets, attached, failures>>

\* The upload times out, with the asset public or not, or the runner is lost.
FailAttach(j, uploaded) ==
  /\ Attaching(j)
  /\ failures < MaxFailures
  /\ failures' = failures + 1
  /\ IF uploaded THEN job[j].part \notin job[j].existing /\ Upload(j)
                 ELSE UNCHANGED assets
  /\ job' = [job EXCEPT ![j] = IdleJob]
  /\ UNCHANGED <<published, later, attached>>

ReleaseStep ==
  \/ \E b \in Builds : RollPreRelease(b)
  \/ \E j \in Jobs, p \in Platforms, r \in Runs : StartAttach(j, p, r)
  \/ \E j \in Jobs : AttachMissing(j)
  \/ \E j \in Jobs : VerifyExisting(j)
  \/ \E j \in Jobs : RefuseReplacement(j)
  \/ \E j \in Jobs, uploaded \in BOOLEAN : FailAttach(j, uploaded)

-----------------------------------------------------------------------------
(* Properties.                                                              *)

\* A public manifest marks a complete release: every asset of its platform is
\* public and holds the bytes of the run the manifest describes, whatever
\* other runs of the build were attached half way, at once or before.
ManifestMeansComplete ==
  \A b \in Builds, p \in Platforms :
    assets[b][p][Manifest] # None =>
      \A n \in Parts : assets[b][p][n] = assets[b][p][Manifest]

\* Nothing of a run is public before the evidence of ALL its architectures is
\* sound, and only under the build the run packaged.
OnlyQualifiedPublic ==
  \A b \in Builds, p \in Platforms, n \in Parts :
    LET r == assets[b][p][n]
    IN r # None => RunBuild[r] = b /\ \A a \in Archs : Evidence[r][p][a] = Sound
=============================================================================
