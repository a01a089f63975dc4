---------------------------- MODULE MacosProofs ----------------------------
(***************************************************************************)
(* Proofs about the two programs that qualify an upgrade of the signed      *)
(* macOS package: for any set of Keychain accounts, any number of helpers   *)
(* and log rotations, whatever the runner held before, whatever the app and *)
(* its helper do and wherever a step fails or the job is cancelled, what    *)
(* the program records is true, what it launched and quit is what it        *)
(* qualified, and nothing of the runner's owner was touched.                *)
(*                                                                          *)
(* The strengthening follows the program: what every place in it may rely   *)
(* on of the packages' evidence, the host and the processes; who owned each *)
(* item; what of the cleanup is done while no step of it has failed; and    *)
(* that a "serving" line in the segment of the log the readiness poll reads *)
(* was written by the very helper the poll watches.                         *)
(***************************************************************************)
EXTENDS MacosUpgrade, TLAPS

Owners == {"none", "foreign", "previous", "current", "probe", "altered", "refreshed"}
Stages == {"silent", "authenticated", "serving"}
Cursors == [file : Nat, offset : Nat]
Phases == {"none", "preparing", "installing", "seedingKeychain", "processAdmission",
           "helperReadiness", "visibleWindow", "trayQuit", "postQuit", "complete"}
Records == [phase : Phases, cleanupStarted : BOOLEAN, cleanupCompleted : BOOLEAN]

MacosTypeOK ==
  /\ mode \in Modes /\ flaw \in Flaws /\ candidate \in Candidates
  /\ passed \in BOOLEAN /\ report \in BOOLEAN /\ mounted \in BOOLEAN /\ broken \in BOOLEAN
  /\ record \in Records
  /\ host \in [Items -> Owners]
  /\ created \subseteq Accounts
  /\ app \in {"none", "starting", "running"}
  /\ stage \in Seq(Stages)
  /\ helper \in 0..Len(stage)
  /\ log \in [file : Nat, lines : Seq(Stages)]
  /\ watch \in [active : Nat, observed : BOOLEAN, cursor : Cursors, accepted : Nat]

Cleaning == {"cleanup", "app", "registration", "data", "keychain", "remaining", "complete"}

\* Before an app is launched, and after its absence was required.
Unlaunched == InScope \ Launched

\* Places where the candidate's package is installed, verified.
WithCandidate ==
  {"detach", "seed", "preserved", "launch", "unchanged", "report"} \cup Launched

\* The packages that were accepted so far have no flaw.
EvidenceKept ==
  /\ at \in InScope \/ (at \in Cleaning \cup {"end"} /\ passed) =>
       flaw \in {NoFlaw} \cup (Candidates \X {"contents"})
  /\ at \in WithCandidate \/ (at = "session" /\ candidate = "previous") =>
       flaw # <<candidate, "contents">>
  /\ at \in InScope /\ candidate = "current" => flaw # <<"previous", "contents">>
  /\ at \in Cleaning \cup {"end"} /\ passed => flaw = NoFlaw /\ report

\* A volume is attached only while the package is copied.
VolumesKept == mounted => at \in {"copy", "detach"} \/ (at \notin InScope /\ ~passed)

\* What the owner had is not there once the program may change anything.
NoForeign ==
  /\ \A i \in Places : host[i] # "foreign"
  /\ Authenticated => \A a \in Accounts : host[a] # "foreign"

OwnersKept ==
  /\ created # {} \/ at = "session" => Authenticated
  /\ \/ /\ at \in {"prepare", "end", "cancelled"} /\ ~(at = "end" /\ passed)
        /\ app = "none" /\ created = {}
     \/ NoForeign

\* Before a launch no process of an earlier one runs, and what the launch is
\* to find is in place.
PlacesKept ==
  /\ at \in Unlaunched \cup {"prepare"} => app = "none" /\ helper = NoHelper
  /\ at \in InScope \cup {"prepare"} => passed
  /\ at \in WithCandidate \/ (at = "session" /\ candidate = "previous") =>
       host["app"] = candidate
  /\ at = "prepare" => candidate = "previous"
  /\ at \in InScope /\ Authenticated =>
       \/ created = Accounts
       \/ candidate = "previous" /\ at \in {"attach", "copy", "detach", "session"}
  /\ at = "launch" => Preserved
  /\ at = "session" /\ candidate = "previous" =>
       \A a \in created : host[a] = "previous"
  /\ at \in {"seed", "launch"} /\ Authenticated => RequireAuthKeychainSession(candidate)
  /\ at = "seed" => candidate = "previous"
  /\ at \in {"replace", "preserved", "report"} => candidate = "current"
  /\ at \in {"prepare", "attach", "copy", "detach"} /\ candidate = "previous" => created = {}

\* Items of the run are of accounts it created; while no cleanup step has
\* failed, what was removed stays removed.
AfterKeychain == {"remaining", "complete"}
AfterRegistration == {"data", "keychain"} \cup AfterKeychain
AfterApp == {"registration"} \cup AfterRegistration

Cleared == at = "complete" \/ record.cleanupCompleted \/ (at = "end" /\ passed)

CleanupKept ==
  /\ \A a \in Accounts : host[a] \in Candidates => a \in created
  /\ (~broken /\ at \in AfterApp) \/ Cleared => host["app"] = "none"
  /\ (~broken /\ at \in AfterRegistration) \/ Cleared => host["registration"] = "none"
  /\ (~broken /\ at \in AfterKeychain) \/ Cleared => \A a \in Accounts : host[a] \notin Candidates
  /\ Cleared => app # "running" /\ helper = NoHelper
  /\ at = "complete" => passed
  /\ record.cleanupCompleted => at \in {"complete", "end", "cancelled"}
  /\ record.phase = "complete" => at = "end" /\ passed /\ record.cleanupCompleted
  /\ at = "end" /\ passed /\ Authenticated => record.phase = "complete"

\* What the readiness poll has seen of the log is of the helper it watches.
WatchKept ==
  /\ ~watch.observed => watch.active = NoHelper
  /\ "serving" \in Segment =>
       watch.active \in DOMAIN stage /\ stage[watch.active] = "serving"
  /\ at \in {"window", "helper"} /\ Authenticated =>
       watch.accepted \in DOMAIN stage /\ stage[watch.accepted] = "serving"

MacosInv ==
  /\ MacosTypeOK /\ EvidenceKept /\ VolumesKept /\ OwnersKept /\ PlacesKept
  /\ CleanupKept /\ WatchKept
-----------------------------------------------------------------------------
(* Frames.                                                                   *)

\* The program that runs and what is wrong with its packages stay the same.
LEMMA ModeKept ==
  ASSUME [Next]_vars
  PROVE  mode' = mode /\ flaw' = flaw /\ Authenticated' = Authenticated
  BY DEF Next, vars, program, Program, Failure, Environment, Authenticated, Prepare,
     RefusePreparation, AttachVolume, CopyApp, DetachVolume, WriteAuthKeychain,
     UpdateAuthKeychain, SessionWritten, SessionUpdated, SeedState, RequirePreserved, Launch,
     WaitForInstalledAppPid, ListHelpers, ReadLog, WaitForVisibleWindow, RequireHelper,
     TrayQuit, RequireAbsence, RequireUnchanged, ReplaceApp, WriteReport, StartCleanup,
     RemovePlace, FailRemoval, DeleteAuthKeychain, RequireNoneRemaining, RecordComplete,
     FailStep, FailKeychainWrite, Cancel, AppStarts, AppWrites, AppReadsSession,
     AppWritesItem, AppExits, HelperStarts, HelperExits, HelperLogs, RotateLog

\* Nothing is logged, started or looked at.
LEMMA WatchStill ==
  ASSUME MacosInv, UNCHANGED <<mode, stage, log, watch>>,
         at' \in {"window", "helper"} => at \in {"window", "helper"} \/ ~Authenticated
  PROVE  WatchKept'
  <1>1. Segment' = Segment /\ Authenticated' = Authenticated
    BY DEF Segment, Authenticated
  <1> QED
    BY <1>1 DEF MacosInv, WatchKept

\* Until the cleanup nothing is recorded of it, and no step has failed.
LEMMA InScopeFacts ==
  ASSUME MacosInv, at \in InScope \cup {"prepare"}
  PROVE  passed /\ record \in Records /\ ~record.cleanupCompleted /\ record.phase # "complete"
  BY DEF MacosInv, MacosTypeOK, PlacesKept, CleanupKept, InScope, Launched

NewPhase ==
  \/ UNCHANGED record
  \/ \E phase \in Phases \ {"complete"} : WriteQualificationPhase(phase)

LEMMA PhaseWritten ==
  ASSUME MacosInv, at \in InScope \cup {"prepare"}, NewPhase
  PROVE  record' \in Records /\ ~record'.cleanupCompleted /\ record'.phase # "complete"
  <1>1. record \in Records /\ ~record.cleanupCompleted /\ record.phase # "complete"
    BY InScopeFacts
  <1>2. ASSUME NEW phase \in Phases \ {"complete"},
               record' = [phase |-> phase, cleanupStarted |-> FALSE, cleanupCompleted |-> FALSE]
        PROVE  record' \in Records /\ ~record'.cleanupCompleted /\ record'.phase # "complete"
    BY <1>2 DEF Records
  <1> QED
    BY <1>1, <1>2 DEF NewPhase, WriteQualificationPhase

\* What remains to be shown of a step in the scope, or out of it into the
\* cleanup.
LEMMA ScopeKeeps ==
  ASSUME MacosInv, at \in InScope, at' \in InScope \cup {"cleanup"}, NewPhase,
         \A a \in Accounts : host'[a] \in Candidates => a \in created'
  PROVE  NoForeign /\ CleanupKept'
  <1>1. NoForeign
    BY DEF MacosInv, OwnersKept, InScope, Launched
  <1>2. record' \in Records /\ ~record'.cleanupCompleted /\ record'.phase # "complete"
    BY PhaseWritten
  <1> QED
    BY <1>1, <1>2 DEF CleanupKept, Cleared, AfterApp, AfterRegistration, AfterKeychain,
       InScope, Launched

\* The same when nothing on the host changes.
LEMMA HostStill ==
  ASSUME MacosInv, at \in InScope, at' \in InScope \cup {"cleanup"}, NewPhase,
         UNCHANGED <<mode, host, created>>, at' = "session" => Authenticated
  PROVE  OwnersKept' /\ CleanupKept'
  <1>1. \A a \in Accounts : host'[a] \in Candidates => a \in created'
    BY DEF MacosInv, CleanupKept
  <1>2. NoForeign /\ CleanupKept'
    BY <1>1, ScopeKeeps
  <1>3. NoForeign' /\ Authenticated' = Authenticated
    BY <1>2 DEF NoForeign, Authenticated
  <1> QED
    BY <1>2, <1>3 DEF MacosInv, OwnersKept

LEMMA InitMacosInv == Init => MacosInv
  <1> SUFFICES ASSUME Init PROVE MacosInv
    OBVIOUS
  <1>1. MacosTypeOK
    <2>1. /\ record \in Records
          /\ host \in [Items -> Owners]
      <3>1. host \in [Items -> {"none", "foreign"}]
        BY DEF Init
      <3>2. host \in [Items -> Owners]
        BY <3>1 DEF Owners
      <3> QED
        BY <3>2 DEF Init, NoRecord, Records, Phases
    <2>2. stage \in Seq(Stages) /\ helper \in 0..Len(stage)
      BY DEF Init, NoHelper
    <2>3. log \in [file : Nat, lines : Seq(Stages)]
      BY DEF Init
    <2>4. watch \in [active : Nat, observed : BOOLEAN, cursor : Cursors, accepted : Nat]
      BY DEF Init, NotWatching, NoCursor, NoHelper, Cursors
    <2> QED
      BY <2>1, <2>2, <2>3, <2>4 DEF Init, MacosTypeOK, Candidates
  <1>2. EvidenceKept /\ VolumesKept /\ OwnersKept /\ PlacesKept
    BY DEF Init, EvidenceKept, VolumesKept, OwnersKept, PlacesKept, InScope, Launched,
       Unlaunched, Cleaning, WithCandidate
  <1>3. CleanupKept
    BY DEF Init, CleanupKept, Cleared, AfterApp, AfterRegistration, AfterKeychain,
       NoRecord, Items, Candidates
  <1>4. WatchKept
    BY DEF Init, WatchKept, Segment, NotWatching, NoCursor, NoHelper
  <1> QED
    BY <1>1, <1>2, <1>3, <1>4 DEF MacosInv

-----------------------------------------------------------------------------
(* The steps of the program.                                                 *)

LEMMA PrepareKeeps ==
  ASSUME MacosInv, [Next]_vars, Prepare \/ RefusePreparation
  PROVE  MacosInv'
  <1>1. mode' = mode /\ flaw' = flaw /\ Authenticated' = Authenticated
    BY ModeKept
  <1>2. /\ UNCHANGED <<candidate, report, created, broken, host, mounted, app, helper, stage,
                       log, watch>>
        /\ at = "prepare"
    BY DEF Prepare, RefusePreparation, machine, processes
  <1>3. /\ record' \in Records
        /\ ~record'.cleanupCompleted /\ record'.phase # "complete"
    <2>1. NewPhase
      BY DEF Prepare, RefusePreparation, NewPhase, Phases
    <2> QED
      BY <1>2, <2>1, PhaseWritten
  <1>4. WatchKept'
    BY <1>1, <1>2, WatchStill DEF Prepare, RefusePreparation, Goto
  <1>5. passed
    BY <1>2, InScopeFacts
  <1>6. at' \in {"attach", "end"} /\ passed' \in BOOLEAN /\ (at' = "attach" <=> passed')
    BY <1>5 DEF Prepare, RefusePreparation, Goto, MacosInv, MacosTypeOK
  <1>7. MacosTypeOK'
    BY <1>1, <1>2, <1>3, <1>6 DEF MacosInv, MacosTypeOK
  <1>8. EvidenceKept'
    <2>1. at' = "attach" => flaw \in {NoFlaw} \cup (Candidates \X {"contents"})
                            /\ candidate = "previous"
      <3>1. ASSUME Prepare PROVE flaw \in {NoFlaw} \cup (Candidates \X {"contents"})
        BY <3>1 DEF Prepare, LoadCandidate, RequireTrustedSource, ValidateUpgrade, Flaws,
           Evidence, Candidates, MacosInv, MacosTypeOK, NoFlaw
      <3>2. at' = "attach" => Prepare
        BY DEF Prepare, RefusePreparation, Goto
      <3> QED
        BY <1>2, <3>1, <3>2 DEF MacosInv, PlacesKept
    <2> QED
      BY <1>1, <1>2, <1>6, <2>1 DEF EvidenceKept, WithCandidate, Launched, InScope, Cleaning
  <1>9. VolumesKept'
    BY <1>2, <1>5, <1>6 DEF MacosInv, VolumesKept, InScope, Launched
  <1>10. OwnersKept'
    <2>1. at' = "attach" => NoForeign
      BY DEF Prepare, RefusePreparation, Goto, RequireFreshNativeRunner,
         RequireAuthKeychainAbsent, NoForeign
    <2>2. NoForeign => NoForeign'
      BY <1>1, <1>2 DEF NoForeign
    <2> QED
      BY <1>1, <1>2, <1>6, <2>1, <2>2 DEF MacosInv, OwnersKept
  <1>11. CleanupKept'
    BY <1>1, <1>2, <1>3, <1>6 DEF MacosInv, CleanupKept, Cleared, AfterApp, AfterRegistration,
       AfterKeychain
  <1>12. PlacesKept'
    BY <1>2, <1>6 DEF MacosInv, PlacesKept, Unlaunched, InScope, Launched, WithCandidate
  <1> QED
    BY <1>4, <1>7, <1>8, <1>9, <1>10, <1>12, <1>11 DEF MacosInv

\* Installing a candidate.
LEMMA InstallKeeps ==
  ASSUME MacosInv, [Next]_vars, AttachVolume \/ CopyApp \/ DetachVolume \/ ReplaceApp
  PROVE  MacosInv'
  <1>1. mode' = mode /\ flaw' = flaw /\ Authenticated' = Authenticated
    BY ModeKept
  <1>2. /\ UNCHANGED <<candidate, passed, report, created, broken, app, helper, stage, log, watch>>
        /\ at \in {"attach", "copy", "detach", "replace"}
        /\ at' \in {"attach", "copy", "detach", "session", "seed", "preserved"}
        /\ NewPhase
    BY DEF AttachVolume, CopyApp, DetachVolume, ReplaceApp, processes, Goto, NewPhase, Phases
  <1>3. /\ host' \in [Items -> Owners] /\ mounted' \in BOOLEAN
        /\ \A i \in Items : i # "app" => host'[i] = host[i]
        /\ host'["app"] \in {host["app"], candidate, "none"}
    <2>1. "app" \in Items /\ host \in [Items -> Owners] /\ candidate \in Owners
      BY DEF MacosInv, MacosTypeOK, Items, Places, Candidates, Owners
    <2>2. \E o \in {host["app"], candidate, "none"} : host' = [host EXCEPT !["app"] = o]
      BY <2>1 DEF AttachVolume, CopyApp, DetachVolume, ReplaceApp
    <2> QED
      BY <2>1, <2>2 DEF AttachVolume, CopyApp, DetachVolume, ReplaceApp, MacosInv, MacosTypeOK,
         Owners
  <1>4. at \in InScope /\ at' \in InScope /\ passed
    BY <1>2, InScopeFacts DEF InScope
  <1>5. MacosTypeOK'
    BY <1>1, <1>2, <1>3, <1>4, PhaseWritten DEF MacosInv, MacosTypeOK
  <1>6. \A a \in Accounts : a \in Items /\ a # "app"
    BY MacosAssumption DEF Items, Places
  <1>7. NoForeign /\ CleanupKept'
    BY <1>2, <1>3, <1>4, <1>6, ScopeKeeps DEF MacosInv, CleanupKept
  <1>8. OwnersKept'
    <2>1. at' = "session" => Authenticated
      BY <1>2 DEF DetachVolume, AttachVolume, CopyApp, ReplaceApp, Goto
    <2>2. NoForeign'
      BY <1>1, <1>3, <1>6, <1>7 DEF NoForeign, Places, Items, MacosInv, MacosTypeOK, Candidates
    <2> QED
      BY <1>1, <1>2, <2>1, <2>2 DEF MacosInv, OwnersKept
  <1>9. EvidenceKept'
    BY <1>1, <1>2, <1>4 DEF MacosInv, MacosTypeOK, EvidenceKept, WithCandidate, Launched,
       InScope, Cleaning, Candidates, AttachVolume, CopyApp, DetachVolume, ReplaceApp,
       VerifyInstalledApp, Goto
  <1>10. VolumesKept'
    BY <1>2, <1>4 DEF MacosInv, VolumesKept, InScope, Launched, AttachVolume, CopyApp,
       DetachVolume, ReplaceApp, Goto
  <1>11. PlacesKept'
    <2>1. at' \in WithCandidate \/ (at' = "session" /\ candidate = "previous") =>
            host'["app"] = candidate
      <3>1. CASE DetachVolume
        BY <3>1 DEF DetachVolume, MacosInv, PlacesKept, WithCandidate
      <3>2. CASE CopyApp
        BY <3>2 DEF CopyApp, MacosInv, MacosTypeOK, Items, Places
      <3>3. CASE AttachVolume \/ ReplaceApp
        BY <3>3 DEF AttachVolume, ReplaceApp, Goto, WithCandidate, Launched
      <3> QED
        BY <3>1, <3>2, <3>3
    <2>2. /\ at' = "session" \/ at' = "seed" => candidate = "previous" /\ DetachVolume
          /\ at' = "seed" => ~Authenticated
          /\ at' = "preserved" => candidate = "current"
      BY <1>2 DEF AttachVolume, CopyApp, DetachVolume, ReplaceApp, Goto, MacosInv, MacosTypeOK,
         Candidates
    <2>3. at' = "session" => created = {}
      BY <2>2 DEF DetachVolume, MacosInv, PlacesKept
    <2>4. at' = "attach" => candidate = "current"
      BY DEF AttachVolume, CopyApp, DetachVolume, ReplaceApp, Goto, MacosInv, PlacesKept
    <2> QED
      BY <1>1, <1>2, <1>4, <2>1, <2>2, <2>3, <2>4 DEF MacosInv, PlacesKept, Unlaunched, InScope,
         Launched
  <1>12. WatchKept'
    BY <1>1, <1>2, WatchStill
  <1> QED
    BY <1>5, <1>7, <1>8, <1>9, <1>10, <1>11, <1>12 DEF MacosInv

\* A Keychain item is written, by the step or by one that fails: what it takes
\* on the host to keep the owner's state and the account of what is ours.
LEMMA ItemWritten ==
  ASSUME MacosInv, [Next]_vars, at = "session", NEW a \in Accounts,
         \/ host' = host
         \/ host' = [host EXCEPT ![a] = candidate] /\ a \in created',
         created' \in {created, created \cup {a}},
         at' \in {"session", "cleanup"}, NewPhase
  PROVE  /\ host' \in [Items -> Owners] /\ created' \subseteq Accounts
         /\ \A i \in Items : host'[i] = host[i] \/ (i = a /\ host'[i] = candidate)
         /\ OwnersKept' /\ CleanupKept'
  <1>1. mode' = mode /\ Authenticated' = Authenticated
    BY ModeKept
  <1>2. host \in [Items -> Owners] /\ candidate \in {"previous", "current"} /\ a \in Items
    BY DEF MacosInv, MacosTypeOK, Candidates, Items
  <1>3. /\ host' \in [Items -> Owners]
        /\ \A i \in Items : \/ host'[i] = host[i]
                            \/ i = a /\ host'[i] = candidate /\ a \in created'
    BY <1>2 DEF Owners
  <1>4. \A b \in Accounts : host'[b] \in Candidates => b \in created'
    <2>1. \A b \in Accounts : host[b] \in Candidates => b \in created
      BY DEF MacosInv, CleanupKept
    <2> QED
      BY <1>3, <2>1 DEF Items
  <1>5. NoForeign /\ CleanupKept'
    BY <1>4, ScopeKeeps DEF InScope
  <1>6. NoForeign'
    BY <1>1, <1>2, <1>3, <1>5 DEF NoForeign, Items
  <1>7. Authenticated
    BY DEF MacosInv, OwnersKept
  <1> QED
    BY <1>1, <1>3, <1>5, <1>6, <1>7 DEF OwnersKept, MacosInv, MacosTypeOK

LEMMA WriteKeeps ==
  ASSUME MacosInv, [Next]_vars, NEW a \in Accounts, WriteAuthKeychain(a) \/ UpdateAuthKeychain(a)
  PROVE  MacosInv'
  <1>1. mode' = mode /\ flaw' = flaw /\ Authenticated' = Authenticated
    BY ModeKept
  <1>2. /\ UNCHANGED <<at, candidate, passed, record, report, broken, mounted, app, helper, stage,
                       log, watch>>
        /\ at = "session" /\ host' = [host EXCEPT ![a] = candidate]
        /\ created' \in {created, created \cup {a}}
        /\ candidate = "previous" => created' = created \cup {a}
        /\ candidate = "current" => created' = created
    BY DEF WriteAuthKeychain, UpdateAuthKeychain, program, processes
  <1>3. a \in created'
    <2>1. CASE WriteAuthKeychain(a)
      BY <2>1 DEF WriteAuthKeychain
    <2>2. CASE UpdateAuthKeychain(a)
      BY <2>2, <1>2 DEF UpdateAuthKeychain, MacosInv, PlacesKept, OwnersKept, InScope
    <2> QED
      BY <2>1, <2>2
  <1>4. /\ host' \in [Items -> Owners] /\ created' \subseteq Accounts
        /\ \A i \in Items : host'[i] = host[i] \/ (i = a /\ host'[i] = candidate)
        /\ OwnersKept' /\ CleanupKept'
    BY <1>2, <1>3, ItemWritten DEF NewPhase
  <1>5. MacosTypeOK' /\ EvidenceKept' /\ VolumesKept'
    BY <1>1, <1>2, <1>4 DEF MacosInv, MacosTypeOK, EvidenceKept, VolumesKept
  <1>6. PlacesKept'
    <2>1. host'["app"] = host["app"]
      BY <1>4, MacosAssumption DEF Items, Places
    <2>2. candidate = "previous" => \A b \in created' : host'[b] = "previous"
      BY <1>2, <1>4 DEF MacosInv, MacosTypeOK, PlacesKept, Items
    <2> QED
      BY <1>1, <1>2, <2>1, <2>2 DEF MacosInv, MacosTypeOK, Candidates, PlacesKept, WithCandidate,
         Launched, Unlaunched, InScope
  <1>7. WatchKept'
    BY <1>1, <1>2, WatchStill
  <1> QED
    BY <1>4, <1>5, <1>6, <1>7 DEF MacosInv

\* The session is in the Keychain, or what was seeded is still there.
LEMMA CheckKeeps ==
  ASSUME MacosInv, [Next]_vars, SessionWritten \/ SessionUpdated \/ RequirePreserved
  PROVE  MacosInv'
  <1>1. mode' = mode /\ flaw' = flaw /\ Authenticated' = Authenticated
    BY ModeKept
  <1>2. /\ UNCHANGED <<candidate, passed, record, report, created, broken, host, mounted, app,
                       helper, stage, log, watch>>
        /\ at \in {"session", "preserved"} /\ at' \in {"seed", "replace", "launch"}
    BY DEF SessionWritten, SessionUpdated, RequirePreserved, machine, processes, Goto
  <1>3. at \in InScope /\ at' \in InScope /\ passed
    BY <1>2, InScopeFacts DEF InScope
  <1>4. OwnersKept' /\ CleanupKept'
    BY <1>1, <1>2, <1>3, HostStill DEF NewPhase
  <1>5. MacosTypeOK' /\ VolumesKept'
    BY <1>1, <1>2, <1>3 DEF MacosInv, MacosTypeOK, VolumesKept
  <1>6. EvidenceKept'
    BY <1>1, <1>2, <1>3 DEF MacosInv, MacosTypeOK, EvidenceKept, WithCandidate, Launched,
       InScope, Cleaning, Candidates, SessionWritten, SessionUpdated, RequirePreserved, Goto
  <1>7. PlacesKept'
    <2>1. CASE SessionWritten
      BY <1>1, <1>2, <1>3, <2>1 DEF SessionWritten, Goto, MacosInv, PlacesKept, WithCandidate,
         Launched, RequireAuthKeychainSession, Unlaunched, InScope, MacosTypeOK
    <2>2. CASE SessionUpdated
      BY <1>1, <1>2, <1>3, <2>2 DEF SessionUpdated, Goto, MacosInv, PlacesKept, WithCandidate,
         Launched, Unlaunched, InScope
    <2>3. CASE RequirePreserved
      BY <1>1, <1>2, <1>3, <2>3 DEF RequirePreserved, Goto, MacosInv, PlacesKept, WithCandidate,
         Launched, Unlaunched, InScope, RequireAuthKeychainSession, Preserved
    <2> QED
      BY <2>1, <2>2, <2>3
  <1>8. WatchKept'
    BY <1>1, <1>2, WatchStill
  <1> QED
    BY <1>4, <1>5, <1>6, <1>7, <1>8 DEF MacosInv

LEMMA SeedKeeps ==
  ASSUME MacosInv, [Next]_vars, SeedState
  PROVE  MacosInv'
  <1>1. mode' = mode /\ flaw' = flaw /\ Authenticated' = Authenticated
    BY ModeKept
  <1>2. /\ UNCHANGED <<candidate, passed, record, report, created, broken, mounted, app, helper,
                       stage, log, watch>>
        /\ at = "seed" /\ at' = "launch"
        /\ host' = [host EXCEPT !["data"] = "probe", !["registration"] = "probe"]
    BY DEF SeedState, Goto, processes
  <1>3. at \in InScope /\ at' \in InScope /\ passed
    BY <1>2, InScopeFacts DEF InScope
  <1>4. /\ {"app", "data", "registration"} \subseteq Items
        /\ \A a \in Accounts : a \in Items /\ a \notin {"app", "data", "registration"}
    BY MacosAssumption DEF Items, Places
  <1>5. /\ host' \in [Items -> Owners] /\ host'["data"] = "probe" /\ host'["registration"] = "probe"
        /\ \A i \in Items : i \notin {"data", "registration"} => host'[i] = host[i]
    BY <1>2, <1>4 DEF MacosInv, MacosTypeOK, Owners
  <1>6. NoForeign /\ CleanupKept'
    BY <1>2, <1>3, <1>4, <1>5, ScopeKeeps DEF NewPhase, MacosInv, CleanupKept
  <1>7. OwnersKept'
    <2>1. NoForeign'
      BY <1>1, <1>4, <1>5, <1>6 DEF NoForeign, Places
    <2> QED
      BY <1>1, <1>2, <2>1 DEF MacosInv, OwnersKept
  <1>8. MacosTypeOK' /\ EvidenceKept' /\ VolumesKept'
    BY <1>1, <1>2, <1>3, <1>5 DEF MacosInv, MacosTypeOK, EvidenceKept, VolumesKept,
       WithCandidate, Launched, InScope, Cleaning
  <1>9. PlacesKept'
    <2>1. Preserved' /\ host'["app"] = host["app"]
      BY <1>4, <1>5 DEF Preserved
    <2>2. Authenticated => RequireAuthKeychainSession(candidate)'
      BY <1>2, <1>4, <1>5 DEF MacosInv, PlacesKept, RequireAuthKeychainSession
    <2> QED
      BY <1>1, <1>2, <1>3, <2>1, <2>2 DEF MacosInv, PlacesKept, WithCandidate, Launched,
         Unlaunched, InScope
  <1>10. WatchKept'
    BY <1>1, <1>2, WatchStill
  <1> QED
    BY <1>6, <1>7, <1>8, <1>9, <1>10 DEF MacosInv

\* Launching the candidate: the log is read from its present end.
LEMMA LaunchKeeps ==
  ASSUME MacosInv, [Next]_vars, Launch
  PROVE  MacosInv'
  <1>1. mode' = mode /\ flaw' = flaw /\ Authenticated' = Authenticated
    BY ModeKept
  <1>2. /\ UNCHANGED <<candidate, passed, report, created, broken, host, mounted, helper, stage,
                       log>>
        /\ at = "launch" /\ at' = "admission" /\ app' = "starting" /\ NewPhase
        /\ watch' = [NotWatching EXCEPT !.cursor = CaptureLogCursor]
    BY DEF Launch, Goto, machine, NewPhase, Phases
  <1>3. at \in InScope /\ at' \in InScope /\ passed
    BY <1>2, InScopeFacts DEF InScope, Launched
  <1>4. OwnersKept' /\ CleanupKept'
    BY <1>1, <1>2, <1>3, HostStill
  <1>5. /\ log.file \in Nat /\ log.lines \in Seq(Stages) /\ Len(log.lines) \in Nat
        /\ watch' = [active |-> NoHelper, observed |-> FALSE, accepted |-> NoHelper,
                     cursor |-> [file |-> log.file, offset |-> Len(log.lines)]]
    <2>1. log \in [file : Nat, lines : Seq(Stages)]
      BY DEF MacosInv, MacosTypeOK
    <2>2. log.file \in Nat /\ log.lines \in Seq(Stages) /\ Len(log.lines) \in Nat
      BY <2>1
    <2>3. watch' = [NotWatching EXCEPT !.cursor = [file |-> log.file, offset |-> Len(log.lines)]]
      BY <1>2 DEF CaptureLogCursor
    <2> QED
      BY <2>2, <2>3 DEF NotWatching
  <1>6. MacosTypeOK'
    <2>1. watch' \in [active : Nat, observed : BOOLEAN, cursor : Cursors, accepted : Nat]
      BY <1>5 DEF Cursors, NoHelper
    <2>2. record' \in Records
      BY <1>2, <1>3, PhaseWritten
    <2> QED
      BY <1>1, <1>2, <2>1, <2>2 DEF MacosInv, MacosTypeOK
  <1>7. EvidenceKept' /\ VolumesKept' /\ PlacesKept'
    BY <1>1, <1>2, <1>3 DEF MacosInv, EvidenceKept, VolumesKept, PlacesKept, WithCandidate,
       Launched, Unlaunched, InScope, Cleaning
  <1>8. WatchKept'
    BY <1>2, <1>5 DEF WatchKept, Segment
  <1> QED
    BY <1>4, <1>6, <1>7, <1>8 DEF MacosInv

\* A round of the readiness poll: another helper's lines are never in the
\* segment that is read for this one.
LEMMA PollKeepsWatch ==
  ASSUME MacosInv, ListHelpers \/ ReadLog, UNCHANGED <<mode, helper, stage, log>>
  PROVE  /\ watch' \in [active : Nat, observed : BOOLEAN, cursor : Cursors, accepted : Nat]
         /\ WatchKept'
  <1>1. /\ watch \in [active : Nat, observed : BOOLEAN, cursor : Cursors, accepted : Nat]
        /\ log.file \in Nat /\ log.lines \in Seq(Stages) /\ Len(log.lines) \in Nat
        /\ helper \in Nat /\ stage \in Seq(Stages)
    BY DEF MacosInv, MacosTypeOK
  <1>2. /\ ~watch.observed => watch.active = NoHelper
        /\ "serving" \in Segment =>
             watch.active \in DOMAIN stage /\ stage[watch.active] = "serving"
    BY DEF MacosInv, WatchKept
  <1>3. CASE ListHelpers
    <2>1. at' = "read"
      BY <1>3 DEF ListHelpers, Goto
    <2>2. CASE helper = watch.active
      <3>1. watch' = watch
        BY <1>3, <2>2 DEF ListHelpers
      <3> QED
        BY <1>1, <1>2, <2>1, <3>1 DEF WatchKept, Segment
    <2>3. CASE helper # watch.active /\ watch.observed
      <3>1. watch' = [watch EXCEPT !.cursor = [file |-> log.file, offset |-> Len(log.lines)],
                                   !.active = helper, !.observed = TRUE]
        BY <1>1, <1>3, <2>3 DEF ListHelpers, CaptureLogCursor
      <3>2. /\ watch' \in [active : Nat, observed : BOOLEAN, cursor : Cursors, accepted : Nat]
            /\ watch'.observed /\ watch'.cursor = [file |-> log.file, offset |-> Len(log.lines)]
        BY <1>1, <3>1 DEF Cursors
      <3>3. Segment' = {}
        BY <1>1, <3>2 DEF Segment
      <3> QED
        BY <2>1, <3>2, <3>3 DEF WatchKept
    <2>4. CASE helper # watch.active /\ ~watch.observed
      <3>1. /\ watch'.cursor = watch.cursor /\ watch'.active = helper
            /\ watch'.observed = (helper # NoHelper)
            /\ watch' \in [active : Nat, observed : BOOLEAN, cursor : Cursors, accepted : Nat]
        BY <1>1, <1>3, <2>4 DEF ListHelpers
      <3>2. "serving" \notin Segment
        BY <1>1, <1>2, <2>4 DEF NoHelper
      <3>3. Segment' = Segment
        BY <3>1 DEF Segment
      <3> QED
        BY <2>1, <3>1, <3>2, <3>3 DEF WatchKept
    <2> QED
      BY <2>2, <2>3, <2>4
  <1>4. CASE ReadLog
    <2>1. /\ watch' \in [active : Nat, observed : BOOLEAN, cursor : Cursors, accepted : Nat]
          /\ watch'.active = watch.active /\ watch'.observed = watch.observed
          /\ watch'.cursor = IF watch.active # NoHelper /\ log.file # watch.cursor.file
                             THEN [file |-> log.file, offset |-> 0] ELSE watch.cursor
          /\ watch'.accepted = IF Ready THEN watch.active ELSE watch.accepted
      BY <1>1, <1>4 DEF ReadLog, Cursors
    <2>2. Segment' = Segment
      BY <1>1, <2>1 DEF Segment
    <2>3. at' = "window" => Ready
      BY <1>4 DEF ReadLog, Goto
    <2>4. at' \in {"window", "helper"} =>
            watch'.accepted \in DOMAIN stage /\ stage[watch'.accepted] = "serving"
      BY <1>2, <1>4, <2>1, <2>3 DEF Ready, ReadLog, Goto
    <2> QED
      BY <1>2, <2>1, <2>2, <2>4 DEF WatchKept
  <1> QED
    BY <1>3, <1>4

LEMMA WatchingKeeps ==
  ASSUME MacosInv, [Next]_vars,
         \/ WaitForInstalledAppPid \/ ListHelpers \/ ReadLog \/ WaitForVisibleWindow
         \/ RequireHelper \/ TrayQuit \/ RequireAbsence
  PROVE  MacosInv'
  <1>1. mode' = mode /\ flaw' = flaw /\ Authenticated' = Authenticated
    BY ModeKept
  <1>2. /\ UNCHANGED <<candidate, passed, report, created, broken, host, mounted, app, helper,
                       stage, log>>
        /\ at \in Launched /\ at' \in Launched \cup {"unchanged"}
        /\ at' = "unchanged" => app = "none" /\ helper = NoHelper
    BY DEF WaitForInstalledAppPid, ListHelpers, ReadLog, WaitForVisibleWindow, RequireHelper,
       TrayQuit, RequireAbsence, machine, processes, Goto, Launched
  <1>3. NewPhase
    BY DEF WaitForInstalledAppPid, ListHelpers, ReadLog, WaitForVisibleWindow, RequireHelper,
       TrayQuit, RequireAbsence, NewPhase, Phases
  <1>4. at \in InScope /\ at' \in InScope /\ passed
    BY <1>2, InScopeFacts DEF InScope, Launched
  <1>5. OwnersKept' /\ CleanupKept'
    BY <1>1, <1>2, <1>3, <1>4, HostStill DEF Launched
  <1>6. /\ watch' \in [active : Nat, observed : BOOLEAN, cursor : Cursors, accepted : Nat]
        /\ WatchKept'
    <2>1. CASE ListHelpers \/ ReadLog
      BY <1>1, <1>2, <2>1, PollKeepsWatch
    <2>2. CASE ~ListHelpers /\ ~ReadLog
      <3>1. watch' = watch
        BY <2>2 DEF WaitForInstalledAppPid, WaitForVisibleWindow, RequireHelper, TrayQuit,
           RequireAbsence
      <3>2. at' \in {"window", "helper"} => at \in {"window", "helper"} \/ ~Authenticated
        BY <2>2 DEF WaitForInstalledAppPid, WaitForVisibleWindow, RequireHelper, TrayQuit,
           RequireAbsence, Goto
      <3> QED
        BY <1>1, <1>2, <3>1, <3>2, WatchStill DEF MacosInv, MacosTypeOK
    <2> QED
      BY <2>1, <2>2
  <1>7. MacosTypeOK'
    BY <1>1, <1>2, <1>3, <1>4, <1>6, PhaseWritten DEF MacosInv, MacosTypeOK
  <1>8. EvidenceKept' /\ VolumesKept' /\ PlacesKept'
    BY <1>1, <1>2, <1>4 DEF MacosInv, EvidenceKept, VolumesKept, PlacesKept, WithCandidate,
       Launched, Unlaunched, InScope, Cleaning
  <1> QED
    BY <1>5, <1>6, <1>7, <1>8 DEF MacosInv

\* A launch that changed nothing, and the report.
LEMMA ConcludeKeeps ==
  ASSUME MacosInv, [Next]_vars, RequireUnchanged \/ WriteReport
  PROVE  MacosInv'
  <1>1. mode' = mode /\ flaw' = flaw /\ Authenticated' = Authenticated
    BY ModeKept
  <1>2. /\ UNCHANGED <<passed, created, broken, host, mounted, app, helper, stage, log, watch>>
        /\ at \in {"unchanged", "report"} /\ NewPhase
    BY DEF RequireUnchanged, WriteReport, machine, processes, NewPhase, Phases
  <1>3. at \in InScope /\ passed /\ candidate \in Candidates
    BY <1>2, InScopeFacts DEF InScope, MacosInv, MacosTypeOK
  <1>4. CASE RequireUnchanged
    <2>1. /\ at = "unchanged" /\ candidate' = "current" /\ report' = report
          /\ at' = CASE candidate = "current" -> "report"
                     [] candidate = "previous" /\ Authenticated -> "session"
                     [] OTHER -> "replace"
      BY <1>4 DEF RequireUnchanged, Goto
    <2>2. /\ at' \in {"report", "session", "replace"}
          /\ at' = "report" => candidate = "current"
          /\ at' = "session" => Authenticated
      BY <2>1
    <2>3. OwnersKept' /\ CleanupKept'
      BY <1>1, <1>2, <1>3, <2>2, HostStill DEF InScope
    <2>4. MacosTypeOK' /\ VolumesKept'
      BY <1>1, <1>2, <1>3, <2>1, <2>2, PhaseWritten DEF MacosInv, MacosTypeOK, VolumesKept,
         Candidates
    <2>5. EvidenceKept' /\ PlacesKept'
      BY <1>1, <1>2, <1>3, <2>1, <2>2 DEF MacosInv, EvidenceKept, PlacesKept, WithCandidate,
         Launched, Unlaunched, InScope, Cleaning, Candidates
    <2>6. WatchKept'
      BY <1>1, <1>2, <2>2, WatchStill
    <2> QED
      BY <2>3, <2>4, <2>5, <2>6 DEF MacosInv
  <1>5. CASE WriteReport
    <2>1. at = "report" /\ at' = "cleanup" /\ report' = TRUE /\ candidate' = candidate
      BY <1>5 DEF WriteReport, Goto
    <2>2. OwnersKept' /\ CleanupKept'
      BY <1>1, <1>2, <1>3, <2>1, HostStill DEF InScope
    <2>3. MacosTypeOK' /\ VolumesKept'
      BY <1>1, <1>2, <1>3, <2>1, PhaseWritten DEF MacosInv, MacosTypeOK, VolumesKept
    <2>4. EvidenceKept' /\ PlacesKept'
      BY <1>1, <1>2, <1>3, <2>1 DEF MacosInv, EvidenceKept, PlacesKept, WithCandidate,
         Launched, Unlaunched, InScope, Cleaning, Candidates
    <2>5. WatchKept'
      BY <1>1, <1>2, <2>1, WatchStill
    <2> QED
      BY <2>2, <2>3, <2>4, <2>5 DEF MacosInv
  <1> QED
    BY <1>4, <1>5

-----------------------------------------------------------------------------
(* Failing.                                                                  *)

\* The cleanup that a failure goes to has everything to do.
LEMMA FailedKeeps ==
  ASSUME MacosInv, at \in InScope, at' = "cleanup", passed' = FALSE,
         MacosTypeOK', OwnersKept', CleanupKept', WatchKept'
  PROVE  MacosInv'
  <1>1. EvidenceKept' /\ VolumesKept' /\ PlacesKept'
    BY DEF EvidenceKept, VolumesKept, PlacesKept, WithCandidate, Launched, Unlaunched, InScope,
       Cleaning
  <1> QED
    BY <1>1 DEF MacosInv

LEMMA FailStepKeeps ==
  ASSUME MacosInv, [Next]_vars, FailStep
  PROVE  MacosInv'
  <1>1. mode' = mode /\ flaw' = flaw /\ Authenticated' = Authenticated
    BY ModeKept
  <1>2. /\ UNCHANGED <<candidate, record, report, created, broken, stage, log, watch>>
        /\ at \in InScope /\ at' = "cleanup" /\ passed' = FALSE
        /\ host' \in PartialEffect
    BY DEF FailStep, Goto
  <1>3. mounted' \in BOOLEAN /\ app' \in {app, "none"} /\ helper' \in {helper, NoHelper}
    <2>1. mounted' \in BOOLEAN
      BY DEF FailStep, MacosInv, MacosTypeOK
    <2>2. EndLaunch
      BY DEF FailStep
    <2> QED
      BY <2>1, <2>2 DEF EndLaunch, Terminated
  <1>4. /\ {"app", "data", "registration"} = Places /\ Places \subseteq Items
        /\ \A a \in Accounts : a \in Items /\ a \notin Places
    BY MacosAssumption DEF Items, Places
  <1>5. /\ host' \in [Items -> Owners]
        /\ \A i \in Items : \/ host'[i] = host[i]
                            \/ i \in Places /\ host'[i] \in {candidate, "probe", "none"}
    <2>1. candidate \in Owners /\ {"none", "probe"} \subseteq Owners /\ host \in [Items -> Owners]
      BY DEF MacosInv, MacosTypeOK, Candidates, Owners
    <2>2. \/ host' = host
          \/ \E i \in Places, o \in {candidate, "probe", "none"} : host' = [host EXCEPT ![i] = o]
      BY <1>2, <1>4 DEF PartialEffect
    <2> QED
      BY <1>4, <2>1, <2>2
  <1>6. \A a \in Accounts : host'[a] = host[a]
    BY <1>4, <1>5
  <1>7. NoForeign /\ CleanupKept'
    BY <1>2, <1>6, ScopeKeeps DEF NewPhase, MacosInv, CleanupKept
  <1>8. OwnersKept'
    <2>1. NoForeign'
      BY <1>1, <1>4, <1>5, <1>6, <1>7 DEF NoForeign, MacosInv, MacosTypeOK, Candidates
    <2> QED
      BY <1>1, <1>2, <2>1 DEF MacosInv, OwnersKept
  <1>9. MacosTypeOK'
    <2>1. helper' \in 0..Len(stage)
      BY <1>3 DEF MacosInv, MacosTypeOK, NoHelper
    <2> QED
      BY <1>1, <1>2, <1>3, <1>5, <2>1 DEF MacosInv, MacosTypeOK
  <1>10. WatchKept'
    BY <1>1, <1>2, WatchStill
  <1> QED
    BY <1>2, <1>7, <1>8, <1>9, <1>10, FailedKeeps

LEMMA FailWriteKeeps ==
  ASSUME MacosInv, [Next]_vars, NEW a \in Accounts, FailKeychainWrite(a)
  PROVE  MacosInv'
  <1>1. mode' = mode /\ flaw' = flaw /\ Authenticated' = Authenticated
    BY ModeKept
  <1>2. /\ UNCHANGED <<candidate, record, report, broken, mounted, app, helper, stage, log, watch>>
        /\ at = "session" /\ at' = "cleanup" /\ passed' = FALSE
        /\ host' \in {host, [host EXCEPT ![a] = candidate]}
        /\ created' \in {created, created \cup {a}}
        /\ candidate = "previous" => created' = created \cup {a}
        /\ candidate # "previous" => created' = created
    BY DEF FailKeychainWrite, Goto, processes
  <1>3. a \in created' /\ at \in InScope
    BY <1>2 DEF MacosInv, PlacesKept, OwnersKept, InScope
  <1>4. /\ host' \in [Items -> Owners] /\ created' \subseteq Accounts
        /\ OwnersKept' /\ CleanupKept'
    BY <1>2, <1>3, ItemWritten DEF NewPhase
  <1>5. MacosTypeOK'
    BY <1>1, <1>2, <1>4 DEF MacosInv, MacosTypeOK
  <1>6. WatchKept'
    BY <1>1, <1>2, WatchStill
  <1> QED
    BY <1>2, <1>3, <1>4, <1>5, <1>6, FailedKeeps

LEMMA CancelKeeps ==
  ASSUME MacosInv, [Next]_vars, Cancel
  PROVE  MacosInv'
  <1>1. mode' = mode /\ flaw' = flaw /\ Authenticated' = Authenticated
    BY ModeKept
  <1>2. /\ UNCHANGED <<candidate, record, report, created, broken, host, mounted, app, helper,
                       stage, log, watch>>
        /\ at \notin {"end", "cancelled"} /\ at' = "cancelled" /\ passed' = FALSE
    BY DEF Cancel, Goto, machine, processes
  <1>3. MacosTypeOK'
    BY <1>1, <1>2 DEF MacosInv, MacosTypeOK
  <1>4. OwnersKept'
    <2>1. NoForeign' <=> NoForeign
      BY <1>1, <1>2 DEF NoForeign
    <2> QED
      BY <1>1, <1>2, <2>1 DEF MacosInv, OwnersKept
  <1>5. CleanupKept'
    BY <1>1, <1>2 DEF MacosInv, CleanupKept, Cleared, AfterApp, AfterRegistration,
       AfterKeychain
  <1>6. EvidenceKept' /\ VolumesKept' /\ PlacesKept'
    BY <1>2 DEF EvidenceKept, VolumesKept, PlacesKept, WithCandidate, Launched, Unlaunched,
       InScope, Cleaning
  <1>7. WatchKept'
    BY <1>1, <1>2, WatchStill
  <1> QED
    BY <1>3, <1>4, <1>5, <1>6, <1>7 DEF MacosInv

-----------------------------------------------------------------------------
(* Cleaning up.                                                              *)

\* What a step of the cleanup leaves to be shown.
LEMMA CleaningKeeps ==
  ASSUME MacosInv, [Next]_vars, at \in Cleaning,
         UNCHANGED <<candidate, report, created, mounted, stage, log, watch>>,
         at' \in (Cleaning \ {"cleanup"}) \cup {"end"},
         passed' \in BOOLEAN, passed' => passed, broken' \in BOOLEAN,
         record' \in Records, app' \in {app, "none"}, helper' \in {helper, NoHelper},
         host' \in [Items -> Owners],
         \A i \in Items : host'[i] \in {host[i], "none"},
         CleanupKept'
  PROVE  MacosInv'
  <1>1. mode' = mode /\ flaw' = flaw /\ Authenticated' = Authenticated
    BY ModeKept
  <1>2. MacosTypeOK'
    <2>1. helper' \in 0..Len(stage)
      BY DEF MacosInv, MacosTypeOK, NoHelper
    <2> QED
      BY <1>1, <2>1 DEF MacosInv, MacosTypeOK
  <1>3. OwnersKept'
    <2>1. NoForeign
      BY DEF MacosInv, OwnersKept, Cleaning
    <2>2. NoForeign'
      BY <1>1, <2>1 DEF NoForeign, Items
    <2> QED
      BY <1>1, <2>2 DEF MacosInv, OwnersKept, Cleaning
  <1>4. EvidenceKept' /\ VolumesKept' /\ PlacesKept'
    BY <1>1 DEF MacosInv, EvidenceKept, VolumesKept, PlacesKept, WithCandidate, Launched,
       Unlaunched, InScope, Cleaning
  <1>5. WatchKept'
    BY <1>1, WatchStill DEF Cleaning
  <1> QED
    BY <1>2, <1>3, <1>4, <1>5 DEF MacosInv

\* During the cleanup nothing is recorded of its end.
LEMMA NotCleared ==
  ASSUME MacosInv, at \in Cleaning \ {"complete"}
  PROVE  ~Cleared /\ ~record.cleanupCompleted /\ record.phase # "complete"
  BY DEF MacosInv, CleanupKept, Cleared, Cleaning

LEMMA StartCleanupKeeps ==
  ASSUME MacosInv, [Next]_vars, StartCleanup
  PROVE  MacosInv'
  <1>1. /\ UNCHANGED <<candidate, passed, report, created, broken, host, mounted, stage, log,
                       watch>>
        /\ at = "cleanup" /\ at' = "app"
        /\ record' \in {record, [record EXCEPT !.cleanupStarted = TRUE]}
        /\ app' \in {app, "none"} /\ helper' \in {helper, NoHelper}
    BY DEF StartCleanup, Terminated, Goto, machine
  <1>2. ~record.cleanupCompleted /\ record.phase # "complete" /\ record \in Records
    BY <1>1, NotCleared DEF Cleaning, MacosInv, MacosTypeOK
  <1>3. record' \in Records /\ ~record'.cleanupCompleted /\ record'.phase # "complete"
    BY <1>1, <1>2 DEF Records
  <1>4. CleanupKept'
    BY <1>1, <1>3 DEF MacosInv, CleanupKept, Cleared, AfterApp, AfterRegistration,
       AfterKeychain
  <1> QED
    BY <1>1, <1>3, <1>4, CleaningKeeps DEF Cleaning, MacosInv, MacosTypeOK

LEMMA RemoveKeeps ==
  ASSUME MacosInv, [Next]_vars, RemovePlace \/ FailRemoval
  PROVE  MacosInv'
  <1>1. /\ UNCHANGED <<candidate, record, report, created, mounted, app, helper, stage, log, watch>>
        /\ at \in Places
    BY DEF RemovePlace, FailRemoval, machine, processes
  <1>2. at \in Cleaning \ {"complete"}
    BY <1>1 DEF Places, Cleaning
  <1>3. ~Cleared /\ ~record.cleanupCompleted /\ record.phase # "complete"
    BY <1>2, NotCleared
  <1>4. /\ AfterRemoval["app"] = "registration" /\ AfterRemoval["registration"] = "data"
        /\ AfterRemoval["data"] = "keychain"
    BY DEF AfterRemoval
  <1>5. Places \subseteq Items /\ \A a \in Accounts : a \in Items /\ a \notin Places
    BY MacosAssumption DEF Items
  <1>6. CASE RemovePlace
    <2>1. /\ host' = [host EXCEPT ![at] = "none"] /\ passed' = passed /\ broken' = broken
          /\ at' = AfterRemoval[at]
      BY <1>6 DEF RemovePlace, Goto
    <2>2. /\ host' \in [Items -> Owners] /\ host'[at] = "none"
          /\ \A i \in Items : i # at => host'[i] = host[i]
          /\ \A i \in Items : host'[i] \in {host[i], "none"}
      BY <1>1, <1>5, <2>1 DEF MacosInv, MacosTypeOK, Owners
    <2>3. at' \in {"registration", "data", "keychain"}
      BY <1>1, <1>4, <2>1 DEF Places
    <2>4. CleanupKept'
      <3>1. \A a \in Accounts : host'[a] \in Candidates => a \in created'
        BY <1>1, <1>5, <2>2 DEF MacosInv, CleanupKept
      <3>2. ~broken /\ at' \in AfterApp => host'["app"] = "none"
        BY <1>1, <1>4, <1>5, <2>1, <2>2, <2>3 DEF MacosInv, CleanupKept, Places, AfterApp,
           AfterRegistration, AfterKeychain
      <3>3. ~broken /\ at' \in AfterRegistration => host'["registration"] = "none"
        BY <1>1, <1>4, <1>5, <2>1, <2>2, <2>3 DEF MacosInv, CleanupKept, Places,
           AfterRegistration, AfterKeychain
      <3> QED
        BY <1>1, <1>3, <2>1, <2>3, <3>1, <3>2, <3>3 DEF CleanupKept, Cleared, AfterKeychain
    <2> QED
      BY <1>1, <1>2, <2>1, <2>2, <2>3, <2>4, CleaningKeeps DEF Cleaning, MacosInv, MacosTypeOK
  <1>7. CASE FailRemoval
    <2>1. /\ host' = host /\ passed' = FALSE /\ broken' = TRUE
          /\ at' \in {AfterRemoval[at], "end"}
      BY <1>7 DEF FailRemoval, machine, Goto
    <2>2. at' \in {"registration", "data", "keychain", "end"}
      BY <1>1, <1>4, <2>1 DEF Places
    <2>3. CleanupKept'
      BY <1>1, <1>3, <2>1, <2>2 DEF MacosInv, CleanupKept, Cleared
    <2> QED
      BY <1>1, <1>2, <2>1, <2>2, <2>3, CleaningKeeps DEF Cleaning, MacosInv, MacosTypeOK
  <1> QED
    BY <1>6, <1>7

LEMMA DeleteKeeps ==
  ASSUME MacosInv, [Next]_vars, NEW kept \in SUBSET Accounts, DeleteAuthKeychain(kept)
  PROVE  MacosInv'
  <1>1. /\ UNCHANGED <<candidate, passed, record, report, created, mounted, app, helper, stage, log,
                       watch>>
        /\ at = "keychain" /\ at' = "remaining" /\ kept \subseteq created
        /\ host' = [i \in Items |-> IF i \in created \ kept THEN "none" ELSE host[i]]
        /\ broken' = (broken \/ kept # {})
    BY DEF DeleteAuthKeychain, Goto, processes
  <1>2. ~Cleared /\ ~record.cleanupCompleted /\ record.phase # "complete"
    BY <1>1, NotCleared DEF Cleaning
  <1>3. /\ host' \in [Items -> Owners]
        /\ \A i \in Items : host'[i] = IF i \in created \ kept THEN "none" ELSE host[i]
        /\ \A i \in Items : host'[i] \in {host[i], "none"}
    BY <1>1 DEF MacosInv, MacosTypeOK, Owners
  <1>4. {"app", "registration"} \subseteq Items /\ Accounts \subseteq Items
    BY DEF Items, Places
  <1>5. broken' \in BOOLEAN /\ (~broken' => ~broken /\ kept = {})
    BY <1>1 DEF MacosInv, MacosTypeOK
  <1>6. CleanupKept'
    <2>1. \A a \in Accounts : host[a] \in Candidates => a \in created
      BY DEF MacosInv, CleanupKept
    <2>2. \A a \in Accounts : host'[a] \in Candidates => a \in created'
      BY <1>1, <1>3, <1>4, <2>1 DEF Candidates
    <2>3. ~broken' => \A a \in Accounts : host'[a] \notin Candidates
      BY <1>3, <1>4, <1>5, <2>1 DEF Candidates
    <2>4. ~broken' => host'["app"] = "none" /\ host'["registration"] = "none"
      BY <1>1, <1>3, <1>4, <1>5 DEF MacosInv, CleanupKept, AfterApp, AfterRegistration
    <2> QED
      BY <1>1, <1>2, <2>2, <2>3, <2>4 DEF CleanupKept, Cleared
  <1> QED
    BY <1>1, <1>3, <1>5, <1>6, CleaningKeeps DEF Cleaning, MacosInv, MacosTypeOK

\* The last step of the cleanup, and the record of the run.
LEMMA FinishKeeps ==
  ASSUME MacosInv, [Next]_vars, RequireNoneRemaining \/ RecordComplete
  PROVE  MacosInv'
  <1>1. /\ UNCHANGED <<candidate, report, created, broken, host, mounted, app, helper, stage, log,
                       watch>>
        /\ at \in {"remaining", "complete"}
    BY DEF RequireNoneRemaining, RecordComplete, machine, processes
  <1>2. CASE RequireNoneRemaining
    <2>1. /\ at = "remaining" /\ passed' = (passed /\ CleanedUp)
          /\ record' = IF Authenticated /\ CleanedUp
                       THEN [record EXCEPT !.cleanupCompleted = TRUE] ELSE record
          /\ at' = IF Authenticated /\ passed' THEN "complete" ELSE "end"
      BY <1>2 DEF RequireNoneRemaining, Goto
    <2>2. ~record.cleanupCompleted /\ record.phase # "complete" /\ record \in Records
      BY <2>1, NotCleared DEF Cleaning, MacosInv, MacosTypeOK
    <2>3. /\ record' \in Records /\ record'.phase # "complete"
          /\ record'.cleanupCompleted => CleanedUp
      BY <2>1, <2>2 DEF Records
    <2>4. passed' \in BOOLEAN /\ (passed' => passed /\ CleanedUp)
      BY <2>1 DEF CleanedUp, MacosInv, MacosTypeOK
    <2>5. /\ at' \in {"complete", "end"} /\ (at' = "complete" => passed')
          /\ at' = "end" /\ Authenticated => ~passed'
      BY <2>1
    <2>6. CleanupKept'
      <3>1. Cleared' => CleanedUp
        BY <2>3, <2>4, <2>5 DEF Cleared
      <3>2. ~broken => /\ host["app"] = "none" /\ host["registration"] = "none"
                       /\ \A a \in Accounts : host[a] \notin Candidates
        BY <2>1 DEF MacosInv, CleanupKept, AfterApp, AfterRegistration, AfterKeychain
      <3>3. at' = "complete" \/ record'.cleanupCompleted \/ (at' = "end" /\ passed') => CleanedUp
        BY <2>3, <2>4, <2>5
      <3>4. Authenticated' = Authenticated
        BY ModeKept
      <3>5. (~broken' /\ at' \in AfterApp) \/ Cleared' => ~broken
        BY <1>1, <3>1 DEF CleanedUp
      <3>6. (~broken' /\ at' \in AfterRegistration) \/ Cleared' => ~broken
        BY <1>1, <3>1 DEF CleanedUp
      <3>7. (~broken' /\ at' \in AfterKeychain) \/ Cleared' => ~broken
        BY <1>1, <3>1 DEF CleanedUp
      <3>8. Cleared' => app # "running" /\ helper = NoHelper
        BY <3>1 DEF CleanedUp
      <3>9. \A a \in Accounts : host'[a] \in Candidates <=> host[a] \in Candidates
        BY <1>1
      <3>10. \A a \in Accounts : host[a] \in Candidates => a \in created
        BY DEF MacosInv, CleanupKept
      <3> QED
        BY <1>1, <2>3, <2>5, <3>2, <3>4, <3>5, <3>6, <3>7, <3>8, <3>9, <3>10 DEF CleanupKept
    <2> QED
      BY <1>1, <2>1, <2>3, <2>4, <2>5, <2>6, CleaningKeeps DEF Cleaning, MacosInv, MacosTypeOK
  <1>3. CASE RecordComplete
    <2>1. /\ at = "complete" /\ at' = "end" /\ passed' = passed
          /\ record' = [phase |-> "complete", cleanupStarted |-> TRUE, cleanupCompleted |-> TRUE]
      BY <1>3 DEF RecordComplete, Goto
    <2>2. passed /\ Cleared
      BY <2>1 DEF MacosInv, CleanupKept, Cleared
    <2>3. record' \in Records /\ record'.cleanupCompleted /\ record'.phase = "complete"
      BY <2>1 DEF Records, Phases
    <2>4. CleanupKept'
      BY <1>1, <2>1, <2>2, <2>3 DEF MacosInv, CleanupKept, AfterApp, AfterRegistration,
         AfterKeychain
    <2> QED
      BY <1>1, <2>1, <2>2, <2>3, <2>4, CleaningKeeps DEF Cleaning, MacosInv, MacosTypeOK
  <1> QED
    BY <1>2, <1>3

-----------------------------------------------------------------------------
(* The app and its helper.                                                   *)

\* What the app does leaves to be shown: it runs only once it was launched.
LEMMA AppKeeps ==
  ASSUME MacosInv, [Next]_vars, UNCHANGED program, UNCHANGED <<mounted, stage, log, watch>>,
         app # "none" \/ helper # NoHelper,
         app' \in {app, "none"} \/ (app = "starting" /\ app' = "running" /\ host["app"] # "none"),
         helper' \in {helper, NoHelper},
         host' \in [Items -> Owners],
         \A i \in Items : \/ host'[i] = host[i]
                          \/ i = "data" /\ app = "running" /\ host'[i] # "foreign"
                          \/ i \in Accounts /\ app = "running" /\ host'[i] \in {"refreshed", "none"}
  PROVE  MacosInv'
  <1>1. /\ UNCHANGED <<mode, flaw, at, candidate, passed, record, report, created, broken>>
        /\ Authenticated' = Authenticated
    BY DEF program, Authenticated
  <1>2. at \notin Unlaunched \cup {"prepare"}
    BY DEF MacosInv, PlacesKept
  <1>3. /\ {"app", "registration"} \subseteq Items /\ Accounts \subseteq Items
        /\ Accounts \cap {"app", "registration", "data"} = {}
    BY MacosAssumption DEF Items, Places
  <1>4. host'["app"] = host["app"] /\ host'["registration"] = host["registration"]
    BY <1>3
  <1>5. MacosTypeOK'
    <2>1. helper' \in 0..Len(stage)
      BY DEF MacosInv, MacosTypeOK, NoHelper
    <2>2. app' \in {"none", "starting", "running"}
      BY DEF MacosInv, MacosTypeOK
    <2> QED
      BY <1>1, <2>1, <2>2 DEF MacosInv, MacosTypeOK
  <1>6. EvidenceKept' /\ VolumesKept'
    BY <1>1 DEF MacosInv, EvidenceKept, VolumesKept
  <1>7. OwnersKept'
    <2>1. CASE NoForeign
      <3>1. NoForeign'
        BY <1>1, <1>3, <2>1 DEF NoForeign, Items
      <3> QED
        BY <1>1, <3>1 DEF MacosInv, OwnersKept
    <2>2. CASE ~NoForeign
      <3>1. app = "none" /\ created = {} /\ at \in {"prepare", "end", "cancelled"}
            /\ ~(at = "end" /\ passed)
        BY <2>2 DEF MacosInv, OwnersKept
      <3>2. app' = "none"
        BY <3>1
      <3> QED
        BY <1>1, <3>1, <3>2 DEF OwnersKept
    <2> QED
      BY <2>1, <2>2
  <1>8. PlacesKept'
    <2>1. at \notin {"launch", "session", "seed"}
      BY <1>2 DEF Unlaunched, InScope, Launched
    <2> QED
      BY <1>1, <1>2, <1>4, <2>1 DEF MacosInv, PlacesKept
  <1>9. CleanupKept'
    <2>1. \A a \in Accounts : host'[a] \in Candidates => host[a] \in Candidates
      BY <1>3 DEF Candidates
    <2>2. Cleared' <=> Cleared
      BY <1>1 DEF Cleared
    <2>3. Cleared => app' # "running" /\ helper' = NoHelper
      BY DEF MacosInv, CleanupKept
    <2> QED
      BY <1>1, <1>4, <2>1, <2>2, <2>3 DEF MacosInv, CleanupKept
  <1>10. WatchKept'
    BY <1>1, WatchStill
  <1> QED
    BY <1>5, <1>6, <1>7, <1>8, <1>9, <1>10 DEF MacosInv

LEMMA AppStepKeeps ==
  ASSUME MacosInv, [Next]_vars,
         \/ AppStarts
         \/ \E says \in {"probe", "altered"} : AppWrites(says)
         \/ AppReadsSession
         \/ \E a \in Accounts, says \in {"refreshed", "none"} : AppWritesItem(a, says)
         \/ \E stopped \in BOOLEAN : AppExits(stopped)
         \/ HelperExits
  PROVE  MacosInv'
  <1>1. host \in [Items -> Owners] /\ "data" \in Items /\ Accounts \subseteq Items
    BY DEF MacosInv, MacosTypeOK, Items, Places
  <1>2. CASE AppStarts
    BY <1>1, <1>2, AppKeeps DEF AppStarts, machine
  <1>3. ASSUME NEW says \in {"probe", "altered"}, AppWrites(says) PROVE MacosInv'
    <2>1. /\ UNCHANGED program /\ UNCHANGED <<mounted, app, helper, stage, log, watch>>
          /\ app = "running" /\ host' = [host EXCEPT !["data"] = says]
      BY <1>3 DEF AppWrites, processes
    <2>2. /\ host' \in [Items -> Owners] /\ host'["data"] = says
          /\ \A i \in Items : i # "data" => host'[i] = host[i]
      BY <1>1, <2>1 DEF Owners
    <2> QED
      BY <2>1, <2>2, AppKeeps
  <1>7. CASE AppReadsSession
    BY <1>1, <1>7, AppKeeps DEF AppReadsSession, machine
  <1>4. ASSUME NEW a \in Accounts, NEW says \in {"refreshed", "none"}, AppWritesItem(a, says)
        PROVE  MacosInv'
    <2>1. /\ UNCHANGED program /\ UNCHANGED <<mounted, app, helper, stage, log, watch>>
          /\ app = "running" /\ host' = [host EXCEPT ![a] = says]
      BY <1>4 DEF AppWritesItem, processes
    <2>2. /\ host' \in [Items -> Owners] /\ host'[a] = says
          /\ \A i \in Items : i # a => host'[i] = host[i]
      BY <1>1, <2>1 DEF Owners
    <2> QED
      BY <2>1, <2>2, AppKeeps
  <1>5. ASSUME NEW stopped \in BOOLEAN, AppExits(stopped) PROVE MacosInv'
    BY <1>1, <1>5, AppKeeps DEF AppExits, machine
  <1>6. CASE HelperExits
    BY <1>1, <1>6, AppKeeps DEF HelperExits, machine
  <1> QED
    BY <1>2, <1>3, <1>4, <1>5, <1>6, <1>7

\* A line is added to the log, or the log is replaced by an empty one.
LEMMA LineLogged ==
  ASSUME MacosInv, watch' = watch, NEW s \in Stages, log' = [log EXCEPT !.lines = Append(@, s)]
  PROVE  log' \in [file : Nat, lines : Seq(Stages)] /\ Segment' \subseteq Segment \cup {s}
  <1>1. /\ log.file \in Nat /\ log.lines \in Seq(Stages)
        /\ watch.cursor.offset \in Nat /\ log \in [file : Nat, lines : Seq(Stages)]
    BY DEF MacosInv, MacosTypeOK, Cursors
  <1> DEFINE old == log.lines
             new == Append(old, s)
             from == watch.cursor.offset
             other == log.file # watch.cursor.file
             first == IF other \/ Len(old) < from THEN 0 ELSE from
             next == IF other \/ Len(new) < from THEN 0 ELSE from
  <1>2. log'.file = log.file /\ log'.lines = new /\ log' \in [file : Nat, lines : Seq(Stages)]
    <2>1. new \in Seq(Stages)
      BY <1>1
    <2> HIDE DEF new
    <2>2. log' = [log EXCEPT !.lines = new]
      BY DEF new
    <2> QED
      BY <1>1, <2>1, <2>2
  <1>3. /\ Len(old) \in Nat /\ Len(new) = Len(old) + 1
        /\ \A n \in 1..Len(old) : new[n] = old[n]
        /\ new[Len(old) + 1] = s
    BY <1>1
  <1>4. Segment = {old[n] : n \in (first + 1)..Len(old)}
    BY DEF Segment
  <1>5. Segment' = {new[n] : n \in (next + 1)..Len(new)}
    BY <1>2 DEF Segment
  <1> HIDE DEF old, new, from, other
  <1>6. first \in Nat /\ next \in Nat /\ (first <= next)
    BY <1>1, <1>3 DEF from
  <1> HIDE DEF first, next
  <1>7. ASSUME NEW n \in (next + 1)..Len(new) PROVE new[n] \in Segment \cup {s}
    BY <1>3, <1>4, <1>6
  <1> QED
    BY <1>2, <1>5, <1>7

LEMMA HelperKeeps ==
  ASSUME MacosInv, [Next]_vars, HelperStarts \/ HelperLogs \/ RotateLog
  PROVE  MacosInv'
  <1>1. /\ UNCHANGED <<mode, flaw, at, candidate, passed, record, report, created, broken, host,
                       mounted, app, watch>>
        /\ Authenticated' = Authenticated
    BY DEF HelperStarts, HelperLogs, RotateLog, program, machine, Authenticated
  <1>2. /\ stage \in Seq(Stages) /\ helper \in 0..Len(stage) /\ Len(stage) \in Nat
        /\ log \in [file : Nat, lines : Seq(Stages)]
        /\ "serving" \in Segment =>
             watch.active \in DOMAIN stage /\ stage[watch.active] = "serving"
        /\ at \in {"window", "helper"} /\ Authenticated =>
             watch.accepted \in DOMAIN stage /\ stage[watch.accepted] = "serving"
    BY DEF MacosInv, MacosTypeOK, WatchKept
  <1>3. /\ stage' \in Seq(Stages) /\ helper' \in 0..Len(stage')
        /\ log' \in [file : Nat, lines : Seq(Stages)]
        /\ DOMAIN stage \subseteq DOMAIN stage'
        /\ \A h \in DOMAIN stage : stage[h] = "serving" => stage'[h] = "serving"
        /\ "serving" \in Segment' =>
             watch.active \in DOMAIN stage' /\ stage'[watch.active] = "serving"
    <2>1. CASE HelperStarts
      <3>1. stage' = Append(stage, "silent") /\ helper' = Len(stage) + 1 /\ log' = log
        BY <2>1 DEF HelperStarts
      <3>2. Segment' = Segment
        BY <1>1, <3>1 DEF Segment
      <3>3. /\ stage' \in Seq(Stages) /\ Len(stage') = Len(stage) + 1
            /\ \A h \in DOMAIN stage : stage'[h] = stage[h]
        BY <1>2, <3>1 DEF Stages
      <3> QED
        BY <1>2, <3>1, <3>2, <3>3
    <2>2. CASE HelperLogs
      <3>1. PICK s \in {"authenticated", "serving"} :
              /\ Reach(s) /\ helper # NoHelper /\ helper' = helper /\ stage[helper] # "serving"
              /\ s = "serving" => watch.active = helper
        BY <2>2 DEF HelperLogs
      <3>2. helper \in DOMAIN stage
        BY <1>2, <3>1 DEF NoHelper
      <3>3. stage' = [stage EXCEPT ![helper] = s] /\ log' = [log EXCEPT !.lines = Append(@, s)]
        BY <3>1 DEF Reach
      <3>4. /\ stage' \in Seq(Stages) /\ DOMAIN stage' = DOMAIN stage /\ Len(stage') = Len(stage)
            /\ \A h \in DOMAIN stage : stage'[h] = IF h = helper THEN s ELSE stage[h]
        BY <1>2, <3>2, <3>3 DEF Stages
      <3>5. log' \in [file : Nat, lines : Seq(Stages)] /\ Segment' \subseteq Segment \cup {s}
        BY <1>1, <3>3, LineLogged DEF Stages
      <3> QED
        BY <1>2, <3>1, <3>2, <3>4, <3>5
    <2>3. CASE RotateLog
      <3>1. /\ log' = [file |-> log.file + 1, lines |-> <<>>] /\ stage' = stage
            /\ helper' = helper
        BY <2>3 DEF RotateLog
      <3>2. Segment' = {} /\ log' \in [file : Nat, lines : Seq(Stages)]
        <4>1. log'.lines = <<>> /\ watch'.cursor.offset \in Nat
          BY <1>1, <3>1 DEF MacosInv, MacosTypeOK, Cursors
        <4> QED
          BY <1>2, <3>1, <4>1 DEF Segment
      <3> QED
        BY <1>2, <3>1, <3>2
    <2> QED
      BY <2>1, <2>2, <2>3
  <1>4. HelperStarts => app = "running"
    BY DEF HelperStarts
  <1>5. ~HelperStarts => helper' = helper
    BY DEF HelperLogs, RotateLog
  <1>6. MacosTypeOK'
    BY <1>1, <1>3 DEF MacosInv, MacosTypeOK
  <1>7. EvidenceKept' /\ VolumesKept'
    BY <1>1 DEF MacosInv, EvidenceKept, VolumesKept
  <1>8. OwnersKept'
    <2>1. NoForeign' <=> NoForeign
      BY <1>1 DEF NoForeign
    <2> QED
      BY <1>1, <2>1 DEF MacosInv, OwnersKept
  <1>9. PlacesKept'
    <2>1. at \in Unlaunched \cup {"prepare"} => helper' = NoHelper
      BY <1>4, <1>5 DEF MacosInv, PlacesKept
    <2>2. /\ Preserved' <=> Preserved
          /\ RequireAuthKeychainSession(candidate)' <=> RequireAuthKeychainSession(candidate)
      BY <1>1 DEF Preserved, RequireAuthKeychainSession
    <2> QED
      BY <1>1, <2>1, <2>2 DEF MacosInv, PlacesKept
  <1>10. CleanupKept'
    <2>1. Cleared' <=> Cleared
      BY <1>1 DEF Cleared
    <2>2. Cleared => helper' = NoHelper
      BY <1>4, <1>5 DEF MacosInv, CleanupKept
    <2> QED
      BY <1>1, <2>1, <2>2 DEF MacosInv, CleanupKept
  <1>11. WatchKept'
    BY <1>1, <1>2, <1>3 DEF MacosInv, WatchKept
  <1> QED
    BY <1>6, <1>7, <1>8, <1>9, <1>10, <1>11 DEF MacosInv

LEMMA StepMacosInv == MacosInv /\ [Next]_vars => MacosInv'
  <1> SUFFICES ASSUME MacosInv, [Next]_vars PROVE MacosInv'
    OBVIOUS
  <1>1. CASE Prepare \/ RefusePreparation
    BY <1>1, PrepareKeeps
  <1>2. CASE AttachVolume \/ CopyApp \/ DetachVolume \/ ReplaceApp
    BY <1>2, InstallKeeps
  <1>3. CASE \E a \in Accounts : WriteAuthKeychain(a) \/ UpdateAuthKeychain(a)
    BY <1>3, WriteKeeps
  <1>4. CASE SessionWritten \/ SessionUpdated \/ RequirePreserved
    BY <1>4, CheckKeeps
  <1>5. CASE SeedState
    BY <1>5, SeedKeeps
  <1>6. CASE Launch
    BY <1>6, LaunchKeeps
  <1>7. CASE \/ WaitForInstalledAppPid \/ ListHelpers \/ ReadLog \/ WaitForVisibleWindow
             \/ RequireHelper \/ TrayQuit \/ RequireAbsence
    BY <1>7, WatchingKeeps
  <1>8. CASE RequireUnchanged \/ WriteReport
    BY <1>8, ConcludeKeeps
  <1>9. CASE StartCleanup
    BY <1>9, StartCleanupKeeps
  <1>10. CASE RemovePlace \/ FailRemoval
    BY <1>10, RemoveKeeps
  <1>11. CASE \E kept \in SUBSET Accounts : DeleteAuthKeychain(kept)
    BY <1>11, DeleteKeeps
  <1>12. CASE RequireNoneRemaining \/ RecordComplete
    BY <1>12, FinishKeeps
  <1>13. CASE FailStep
    BY <1>13, FailStepKeeps
  <1>14. CASE \E a \in Accounts : FailKeychainWrite(a)
    BY <1>14, FailWriteKeeps
  <1>15. CASE Cancel
    BY <1>15, CancelKeeps
  <1>16. CASE \/ AppStarts
              \/ \E says \in {"probe", "altered"} : AppWrites(says)
              \/ AppReadsSession
              \/ \E a \in Accounts, says \in {"refreshed", "none"} : AppWritesItem(a, says)
              \/ \E stopped \in BOOLEAN : AppExits(stopped)
              \/ HelperExits
    BY <1>16, AppStepKeeps
  <1>17. CASE HelperStarts \/ HelperLogs \/ RotateLog
    BY <1>17, HelperKeeps
  <1>18. CASE UNCHANGED vars
    <2>1. UNCHANGED <<mode, flaw, at, candidate, passed, record, report, created, broken, host,
                      mounted, app, helper, stage, log, watch>>
      BY <1>18 DEF vars, program, machine, processes
    <2>2. MacosTypeOK' /\ EvidenceKept' /\ VolumesKept'
      BY <2>1 DEF MacosInv, MacosTypeOK, EvidenceKept, VolumesKept
    <2>3. OwnersKept' /\ PlacesKept'
      BY <2>1 DEF MacosInv, OwnersKept, NoForeign, Authenticated, PlacesKept, Preserved,
         RequireAuthKeychainSession
    <2>4. CleanupKept' /\ WatchKept'
      BY <2>1, WatchStill DEF MacosInv, CleanupKept, Cleared, Authenticated
    <2> QED
      BY <2>2, <2>3, <2>4 DEF MacosInv
  <1> QED
    BY <1>1, <1>2, <1>3, <1>4, <1>5, <1>6, <1>7, <1>8, <1>9, <1>10, <1>11, <1>12, <1>13, <1>14,
       <1>15, <1>16, <1>17, <1>18 DEF Next, Program, Failure, Environment

-----------------------------------------------------------------------------
(* Theorems.                                                                 *)

\* The inductive invariant of the program, the host, the app and its helper.
THEOREM MacosInvHolds == Spec => []MacosInv
  BY InitMacosInv, StepMacosInv, PTL DEF Spec

\* A cleanup recorded as completed has restored the host, a run that passed
\* has restored it, reported and had flawless packages, and "complete" is
\* recorded of no other run: for any accounts, helpers and log rotations.
THEOREM OutcomesTell == Spec => []OutcomeTells
  <1>1. MacosInv => OutcomeTells
    <2> SUFFICES ASSUME MacosInv PROVE OutcomeTells
      OBVIOUS
    <2>1. Cleared => Restored
      <3> SUFFICES ASSUME Cleared PROVE Restored
        OBVIOUS
      <3>1. app # "running" /\ helper = NoHelper
        BY DEF MacosInv, CleanupKept
      <3>2. host["app"] = "none" /\ host["registration"] = "none"
        BY DEF MacosInv, CleanupKept
      <3>3. \A a \in Accounts : host[a] \notin Candidates
        BY DEF MacosInv, CleanupKept
      <3> QED
        BY <3>1, <3>2, <3>3 DEF Restored, Ours
    <2>2. at = "end" /\ passed => report /\ ~mounted /\ flaw = NoFlaw
      BY DEF MacosInv, EvidenceKept, VolumesKept
    <2> QED
      BY <2>1, <2>2 DEF OutcomeTells, Cleared, MacosInv, CleanupKept
  <1> QED
    BY <1>1, MacosInvHolds, PTL

\* The steps that take the program from one place to the next.
LEMMA StepsBetween ==
  ASSUME Next
  PROVE  /\ at = "launch" /\ at' = "admission" => Launch
         /\ at = "helper" /\ at' = "quit" => RequireHelper
  <1>1. CASE Cancel \/ Failure
    BY <1>1 DEF Cancel, Failure, FailStep, FailKeychainWrite, Goto
  <1>2. CASE Environment
    <2>1. UNCHANGED program
      BY <1>2 DEF Environment, AppStarts, AppWrites, AppReadsSession, AppWritesItem,
         AppExits, HelperStarts, HelperExits, HelperLogs, RotateLog
    <2> QED
      BY <2>1 DEF program
  <1>3. CASE Program
    <2>1. CASE RemovePlace \/ FailRemoval
      BY <2>1 DEF RemovePlace, FailRemoval, Places
    <2>2. CASE \E a \in Accounts : WriteAuthKeychain(a) \/ UpdateAuthKeychain(a)
      BY <2>2 DEF WriteAuthKeychain, UpdateAuthKeychain, program
    <2>3. CASE \E kept \in SUBSET Accounts : DeleteAuthKeychain(kept)
      BY <2>3 DEF DeleteAuthKeychain
    <2>4. CASE Prepare \/ RefusePreparation \/ AttachVolume \/ CopyApp \/ DetachVolume
               \/ SessionWritten \/ SessionUpdated \/ SeedState \/ RequirePreserved
      BY <2>4 DEF Prepare, RefusePreparation, AttachVolume, CopyApp, DetachVolume,
         SessionWritten, SessionUpdated, SeedState, RequirePreserved
    <2>5. CASE WaitForInstalledAppPid \/ ListHelpers \/ ReadLog \/ WaitForVisibleWindow
               \/ TrayQuit \/ RequireAbsence \/ RequireUnchanged \/ ReplaceApp
      BY <2>5 DEF WaitForInstalledAppPid, ListHelpers, ReadLog, WaitForVisibleWindow,
         TrayQuit, RequireAbsence, RequireUnchanged, ReplaceApp
    <2>6. CASE WriteReport \/ StartCleanup \/ RequireNoneRemaining \/ RecordComplete
      BY <2>6 DEF WriteReport, StartCleanup, RequireNoneRemaining, RecordComplete
    <2>7. CASE Launch
      BY <2>7 DEF Launch
    <2>8. CASE RequireHelper
      BY <2>8 DEF RequireHelper
    <2> QED
      BY <1>3, <2>1, <2>2, <2>3, <2>4, <2>5, <2>6, <2>7, <2>8 DEF Program
  <1> QED
    BY <1>1, <1>2, <1>3 DEF Next

\* A launch finds the candidate installed and what it is to keep in place.
THEOREM LaunchesAreOfTheCandidate == Spec => LaunchesTheCandidateAlone
  <1>1. MacosInv /\ [Next]_vars =>
          [at = "launch" /\ at' = "admission" =>
             /\ host["app"] = candidate /\ app = "none" /\ helper = NoHelper
             /\ ~mounted /\ Preserved
             /\ Authenticated => RequireAuthKeychainSession(candidate)]_vars
    BY StepsBetween DEF MacosInv, PlacesKept, VolumesKept, WithCandidate, Unlaunched, InScope,
       Launched
  <1> QED
    BY <1>1, MacosInvHolds, PTL DEF Spec, LaunchesTheCandidateAlone

\* The helper that runs at the tray's Quit has itself served.
THEOREM QuitsAreOfTheQualified == Spec => QuitsWhatItQualified
  <1>1. MacosInv /\ [Next]_vars =>
          [at = "helper" /\ at' = "quit" =>
             IF Authenticated THEN helper # NoHelper /\ stage[helper] = "serving"
             ELSE helper = NoHelper]_vars
    <2> SUFFICES ASSUME MacosInv, Next, at = "helper", at' = "quit"
                 PROVE  IF Authenticated THEN helper # NoHelper /\ stage[helper] = "serving"
                        ELSE helper = NoHelper
      OBVIOUS
    <2>1. helper = (IF Authenticated THEN watch.accepted ELSE NoHelper)
      BY StepsBetween DEF RequireHelper
    <2>2. Authenticated =>
            watch.accepted \in DOMAIN stage /\ stage[watch.accepted] = "serving"
      BY DEF MacosInv, WatchKept
    <2>3. NoHelper \notin DOMAIN stage
      BY DEF MacosInv, MacosTypeOK, NoHelper
    <2> QED
      BY <2>1, <2>2, <2>3
  <1> QED
    BY <1>1, MacosInvHolds, PTL DEF Spec, QuitsWhatItQualified

\* What the program found of the runner's owner before it touched anything
\* stays: the paths in both modes, and the Keychain items when the run needs a
\* session.  The program, the app, which renews whatever session it read, and
\* the cleanup leave all of them alone, wherever the run fails or is cancelled.
THEOREM OwnersStateSurvives == Spec => ForeignStateSurvives
  <1>1. MacosInv /\ [Next]_vars =>
          [\A i \in Places \cup (IF Authenticated THEN Accounts ELSE {}) :
             host[i] = "foreign" => host'[i] = "foreign"]_vars
    <2> SUFFICES ASSUME MacosInv, Next, host' # host,
                        NEW i \in Places \cup (IF Authenticated THEN Accounts ELSE {})
                 PROVE  host[i] # "foreign"
      OBVIOUS
    <2>1. app = "none" => at \notin {"prepare", "end", "cancelled"}
      BY DEF Next, Program, Failure, Environment, Prepare, RefusePreparation, AttachVolume,
         CopyApp, DetachVolume, WriteAuthKeychain, UpdateAuthKeychain, SessionWritten,
         SessionUpdated, SeedState, RequirePreserved, Launch, WaitForInstalledAppPid,
         ListHelpers, ReadLog, WaitForVisibleWindow, RequireHelper, TrayQuit,
         RequireAbsence, RequireUnchanged, ReplaceApp, WriteReport, StartCleanup,
         RemovePlace, FailRemoval, DeleteAuthKeychain, RequireNoneRemaining,
         RecordComplete, FailStep, FailKeychainWrite, Cancel, AppStarts, AppWrites,
         AppReadsSession, AppWritesItem, AppExits, HelperStarts, HelperExits, HelperLogs,
         RotateLog, machine, InScope, Launched, Places
    <2>2. NoForeign
      BY <2>1 DEF MacosInv, OwnersKept
    <2> QED
      BY <2>2 DEF NoForeign
  <1> QED
    BY <1>1, MacosInvHolds, PTL DEF Spec, ForeignStateSurvives

=============================================================================
