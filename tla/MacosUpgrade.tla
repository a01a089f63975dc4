--------------------------- MODULE MacosUpgrade ---------------------------
(***************************************************************************)
(* The two programs that qualify an upgrade of the signed macOS package on  *)
(* a native runner: qualify_desktop_macos_upgrade.py with the helper Off,   *)
(* and qualify_desktop_macos_authenticated_upgrade.py with a QA session in  *)
(* the Keychain and the helper On.  Both install the previous package,      *)
(* launch it, quit it from the tray, replace it by the current one, launch  *)
(* and quit again, report, and clean the host up.                           *)
(*                                                                          *)
(* The desktop app and its helper run beside the program: they start late   *)
(* or never, die, restart, and write the log the program polls.  Every step *)
(* of the program may fail (a command, a check, a deadline), and the runner *)
(* may cancel it between any two steps.                                     *)
(***************************************************************************)
EXTENDS Naturals, Sequences, FiniteSets

CONSTANTS
  Accounts,         \* KEYCHAIN_ACCOUNTS
  MaxGenerations,   \* bound: helper processes that start
  MaxRotations      \* bound: times the helper's log is replaced

Modes == {"off", "authenticated"}
Places == {"app", "registration", "data"}   \* the paths the program owns
Items == Places \cup Accounts

ASSUME MacosAssumption ==
  /\ Accounts \cap Places = {}            \* Keychain items are no paths
  /\ MaxGenerations \in Nat /\ MaxRotations \in Nat

Candidates == {"previous", "current"}
NoHelper == 0
NoCursor == [file |-> 0, offset |-> 0]

\* What can be wrong with the packages a run is given; one thing per run.
Evidence == {"producer", "identity", "package", "channel"}
NoFlaw == <<"neither", "none">>
Flaws == {NoFlaw, <<"both", "order">>}
           \cup (Candidates \X (Evidence \cup {"source", "contents"}))

VARIABLES
  mode,      \* which of the two programs runs
  flaw,      \* what is wrong with its packages
  at,        \* the step the program is in
  candidate, \* the package it works on: "previous" or "current"
  passed,    \* whether no step has failed so far
  record,    \* qualification-phase.json
  report,    \* whether the upgrade report was written
  host,      \* who put each path and Keychain item there, "none" when absent
  mounted,   \* whether a package volume is attached
  created,   \* created_accounts: items a create was attempted for
  broken,    \* whether a cleanup step failed
  app,       \* the installed app's process: "none", "starting", "running"
  session,   \* whether that process has read a stored session to restore
  helper,    \* the running helper's generation, or NoHelper
  stage,     \* how far each helper generation started so far has come
  log,       \* the helper's log file: its number and its lines
  watch      \* what the readiness poll remembers

program == <<mode, flaw, at, candidate, passed, record, report, created, broken>>
machine == <<host, mounted>>
processes == <<app, session, helper, stage, log>>
vars == <<program, machine, processes, watch>>

-----------------------------------------------------------------------------
NotWatching == [active |-> NoHelper, observed |-> FALSE, cursor |-> NoCursor,
                accepted |-> NoHelper]

NoRecord == [phase |-> "none", cleanupStarted |-> FALSE, cleanupCompleted |-> FALSE]

\* The runner may hold anything of these already, put there by its owner.
Init ==
  /\ mode \in Modes /\ flaw \in Flaws
  /\ host \in [Items -> {"none", "foreign"}]
  /\ at = "prepare" /\ candidate = "previous" /\ passed = TRUE
  /\ record = NoRecord /\ report = FALSE
  /\ mounted = FALSE /\ created = {} /\ broken = FALSE
  /\ app = "none" /\ session = FALSE /\ helper = NoHelper /\ stage = <<>>
  /\ log = [file |-> 0, lines |-> <<>>]
  /\ watch = NotWatching

Authenticated == mode = "authenticated"
Ours(i) == host[i] \notin {"none", "foreign"}

\* The authenticated program writes each phase; the other keeps no record.
WriteQualificationPhase(phase) ==
  record' = IF Authenticated
            THEN [phase |-> phase, cleanupStarted |-> FALSE, cleanupCompleted |-> FALSE]
            ELSE record

Goto(step) == at' = step

-----------------------------------------------------------------------------
(* Preparation: the packages' evidence is checked, and everything that could *)
(* damage an owner's state is looked for, before the scope whose end cleans  *)
(* up.                                                                      *)

RequireFreshNativeRunner ==
  /\ app = "none" /\ helper = NoHelper
  /\ \A i \in Places : host[i] = "none"

\* Fault: one absent item passes for all.
AnyKeychainItemAbsent == \E a \in Accounts : host[a] = "none"

RequireAuthKeychainAbsent == \A a \in Accounts : host[a] = "none"

\* The producing run, the sealed identity, the package's digest and
\* notarization, and the compiled channel.
LoadCandidate(c) == flaw \notin {c} \X Evidence

\* Same architecture, and the current package strictly newer.
ValidateUpgrade == flaw # <<"both", "order">>

\* The source is in main's history, or a pinned baseline merged into it.
RequireTrustedSource(c) == flaw # <<c, "source">>

\* Code signatures, notarization, Gatekeeper, bundle identity and native
\* architectures; of the volume's app, then of the installed one.
VerifyInstalledApp(c) == flaw # <<c, "contents">>

Prepare ==
  /\ at = "prepare"
  /\ RequireFreshNativeRunner
  /\ Authenticated => RequireAuthKeychainAbsent
  /\ \A c \in Candidates : LoadCandidate(c) /\ RequireTrustedSource(c)
  /\ ValidateUpgrade
  /\ WriteQualificationPhase("installing")
  /\ Goto("attach")
  /\ UNCHANGED <<mode, flaw, candidate, passed, report, created, broken,
                 machine, processes, watch>>

\* A guard, a package's evidence or a native tool refuses: nothing was
\* touched, and nothing is cleaned up.
RefusePreparation ==
  /\ at = "prepare"
  /\ passed' = FALSE
  /\ WriteQualificationPhase("preparing")
  /\ Goto("end")
  /\ UNCHANGED <<mode, flaw, candidate, report, created, broken, machine,
                 processes, watch>>

-----------------------------------------------------------------------------
(* Installing a candidate and seeding the state it is to keep.              *)

AttachVolume ==
  /\ at = "attach"
  /\ mounted' = TRUE
  /\ Goto("copy")
  /\ UNCHANGED <<mode, flaw, candidate, passed, record, report, created, broken,
                 host, processes, watch>>

CopyApp ==
  /\ at = "copy"
  /\ VerifyInstalledApp(candidate)
  /\ host' = [host EXCEPT !["app"] = candidate]
  /\ Goto("detach")
  /\ UNCHANGED <<mode, flaw, candidate, passed, record, report, created, broken,
                 mounted, processes, watch>>

DetachVolume ==
  /\ at = "detach"
  /\ mounted' = FALSE
  /\ Goto(IF candidate = "current" THEN "preserved"
          ELSE IF Authenticated THEN "session" ELSE "seed")
  /\ IF candidate = "previous" THEN WriteQualificationPhase("seedingKeychain")
     ELSE UNCHANGED record
  /\ UNCHANGED <<mode, flaw, candidate, passed, report, created, broken, host,
                 processes, watch>>

\* A fresh session goes into the Keychain, one account after the other.  An
\* account counts as created before its write is tried.
WriteAuthKeychain(a) ==
  /\ at = "session" /\ candidate = "previous"
  /\ a \notin created
  /\ created' = created \cup {a}
  /\ host' = [host EXCEPT ![a] = candidate]
  /\ UNCHANGED <<mode, flaw, at, candidate, passed, record, report, broken,
                 mounted, processes, watch>>

\* The session written is still valid for the launch to come.
SessionWritten ==
  /\ at = "session" /\ candidate = "previous"
  /\ created = Accounts
  /\ Goto("seed")
  /\ UNCHANGED <<mode, flaw, candidate, passed, record, report, created, broken,
                 machine, processes, watch>>

SeedState ==
  /\ at = "seed"
  /\ host' = [host EXCEPT !["data"] = "probe", !["registration"] = "probe"]
  /\ Goto("launch")
  /\ UNCHANGED <<mode, flaw, candidate, passed, record, report, created, broken,
                 mounted, processes, watch>>

\* Sentinels and registration are as seeded; the Keychain holds session c.
Preserved == host["data"] = "probe" /\ host["registration"] = "probe"
RequireAuthKeychainSession(c) == \A a \in Accounts : host[a] = c

\* After the replacement, before the second launch.
RequirePreserved ==
  /\ at = "preserved"
  /\ Preserved
  /\ Authenticated => RequireAuthKeychainSession("current")
  /\ Goto("launch")
  /\ UNCHANGED <<mode, flaw, candidate, passed, record, report, created, broken,
                 machine, processes, watch>>

-----------------------------------------------------------------------------
(* Launching and quitting.                                                  *)

\* open -n -W asks the system to start the app; the log's end is remembered.
CaptureLogCursor == [file |-> log.file, offset |-> Len(log.lines)]

Launch ==
  /\ at = "launch"
  /\ app' = "starting"
  /\ watch' = [NotWatching EXCEPT !.cursor = CaptureLogCursor]
  /\ WriteQualificationPhase("processAdmission")
  /\ Goto("admission")
  /\ UNCHANGED <<mode, flaw, candidate, passed, report, created, broken, machine,
                 session, helper, stage, log>>

\* One installed app process appeared.
WaitForInstalledAppPid ==
  /\ at = "admission"
  /\ app = "running"
  /\ WriteQualificationPhase("helperReadiness")
  /\ Goto(IF Authenticated THEN "poll" ELSE "window")
  /\ UNCHANGED <<mode, flaw, candidate, passed, report, created, broken, machine,
                 processes, watch>>

\* Fault: a new generation keeps reading the old one's segment.
KeepSegment ==
  /\ at = "poll"
  /\ app = "running"
  /\ watch' = [watch EXCEPT !.active = helper, !.observed = @ \/ helper # NoHelper]
  /\ Goto("read")
  /\ UNCHANGED <<mode, flaw, candidate, passed, record, report, created, broken,
                 machine, processes>>

\* A round of the readiness poll, first half: the launcher runs still; list
\* the helper processes.  A generation other than the last one seen starts a
\* new log segment at the present end of the log, except the first ever seen.
ListHelpers ==
  /\ at = "poll"
  /\ app = "running"
  /\ watch' = IF helper = watch.active THEN watch
              ELSE [watch EXCEPT
                !.cursor = IF watch.observed THEN CaptureLogCursor ELSE @,
                !.active = helper,
                !.observed = @ \/ helper # NoHelper]
  /\ Goto("read")
  /\ UNCHANGED <<mode, flaw, candidate, passed, record, report, created, broken,
                 machine, processes>>

\* The segment's lines: all of them when the file is another or shorter one.
Segment ==
  LET offset == IF log.file # watch.cursor.file \/ Len(log.lines) < watch.cursor.offset
                THEN 0 ELSE watch.cursor.offset
  IN {log.lines[n] : n \in (offset + 1)..Len(log.lines)}

Ready == watch.active # NoHelper /\ {"authenticated", "serving"} \subseteq Segment

\* Second half: read the segment, and accept the helper or poll again.
ReadLog ==
  /\ at = "read"
  /\ watch' = [watch EXCEPT
       !.cursor = IF watch.active # NoHelper /\ log.file # @.file
                  THEN [file |-> log.file, offset |-> 0] ELSE @,
       !.accepted = IF Ready THEN watch.active ELSE @]
  /\ Goto(IF Ready THEN "window" ELSE "poll")
  /\ IF Ready THEN WriteQualificationPhase("visibleWindow") ELSE UNCHANGED record
  /\ UNCHANGED <<mode, flaw, candidate, passed, report, created, broken, machine,
                 processes>>

WaitForVisibleWindow ==
  /\ at = "window"
  /\ app = "running"
  /\ Goto("helper")
  /\ UNCHANGED <<mode, flaw, candidate, passed, record, report, created, broken,
                 machine, processes, watch>>

\* The helper must be the accepted one still; with it Off none may run.
RequireHelper ==
  /\ at = "helper"
  /\ helper = (IF Authenticated THEN watch.accepted ELSE NoHelper)
  /\ WriteQualificationPhase("trayQuit")
  /\ Goto("quit")
  /\ UNCHANGED <<mode, flaw, candidate, passed, report, created, broken, machine,
                 processes, watch>>

\* The tray's Quit ended the app with exit code 0 within its deadline.
TrayQuit ==
  /\ at = "quit"
  /\ app = "none"
  /\ WriteQualificationPhase("postQuit")
  /\ Goto("absence")
  /\ UNCHANGED <<mode, flaw, candidate, passed, report, created, broken, machine,
                 processes, watch>>

\* Fault: only the app is looked for.
RequireAppAbsence ==
  /\ at = "absence"
  /\ app = "none"
  /\ Goto("unchanged")
  /\ UNCHANGED <<mode, flaw, candidate, passed, record, report, created, broken,
                 machine, processes, watch>>

\* Neither app nor helper remains or came back.
RequireAbsence ==
  /\ at = "absence"
  /\ app = "none" /\ helper = NoHelper
  /\ Goto("unchanged")
  /\ UNCHANGED <<mode, flaw, candidate, passed, record, report, created, broken,
                 machine, processes, watch>>

\* The launch changed nothing of what was seeded.
RequireUnchanged ==
  /\ at = "unchanged"
  /\ Preserved
  /\ Authenticated => RequireAuthKeychainSession(candidate)
  /\ candidate' = "current"
  /\ Goto(CASE candidate = "current" -> "report"
            [] candidate = "previous" /\ Authenticated -> "session"
            [] OTHER -> "replace")
  /\ IF candidate = "previous" THEN WriteQualificationPhase("seedingKeychain")
     ELSE UNCHANGED record
  /\ UNCHANGED <<mode, flaw, passed, report, created, broken, machine, processes,
                 watch>>

\* The Keychain gets a second session, again one account after the other.
UpdateAuthKeychain(a) ==
  /\ at = "session" /\ candidate = "current"
  /\ host[a] # "current"
  /\ host' = [host EXCEPT ![a] = "current"]
  /\ UNCHANGED <<program, mounted, processes, watch>>

SessionUpdated ==
  /\ at = "session" /\ candidate = "current"
  /\ RequireAuthKeychainSession("current")
  /\ Goto("replace")
  /\ UNCHANGED <<mode, flaw, candidate, passed, record, report, created, broken,
                 machine, processes, watch>>

\* The previous app is removed before the current one is installed.
ReplaceApp ==
  /\ at = "replace"
  /\ host' = [host EXCEPT !["app"] = "none"]
  /\ WriteQualificationPhase("installing")
  /\ Goto("attach")
  /\ UNCHANGED <<mode, flaw, candidate, passed, report, created, broken, mounted,
                 processes, watch>>

WriteReport ==
  /\ at = "report"
  /\ report' = TRUE
  /\ Goto("cleanup")
  /\ UNCHANGED <<mode, flaw, candidate, passed, record, created, broken, machine,
                 processes, watch>>

-----------------------------------------------------------------------------
(* Failing.                                                                 *)

Launched == {"admission", "poll", "read", "window", "helper", "quit", "absence"}
InScope == Launched \cup {"attach", "copy", "detach", "session", "seed", "launch",
                          "preserved", "unchanged", "replace", "report"}

\* TERM, a second, KILL, for the app and its helper.  An app the system has
\* yet to start is not a process and is not hit.
Terminated == app' = (IF app = "running" THEN "none" ELSE app) /\ helper' = NoHelper

\* A launch that fails ends its processes: the authenticated program both of
\* them, the other sends the app SIGTERM, and the app may stop its helper.
EndLaunch ==
  IF at \notin Launched THEN UNCHANGED <<app, helper>>
  ELSE IF Authenticated THEN Terminated
  ELSE app' \in {app, "none"} /\ helper' \in {helper, NoHelper}

\* What a failing command may have left of its effect.
PartialEffect ==
  CASE at = "copy" -> {host, [host EXCEPT !["app"] = candidate]}
    [] at = "seed" -> {host, [host EXCEPT !["data"] = "probe"]}
    [] at = "replace" -> {host, [host EXCEPT !["app"] = "none"]}
    [] OTHER -> {host}

FailStep ==
  /\ at \in InScope
  /\ passed' = FALSE
  /\ host' \in PartialEffect
  /\ mounted' \in (IF at \in {"attach", "copy", "detach"} THEN BOOLEAN ELSE {mounted})
  /\ EndLaunch
  /\ Goto("cleanup")
  /\ UNCHANGED <<mode, flaw, candidate, record, report, created, broken, session,
                 stage, log, watch>>

\* The write of a Keychain item fails or times out, done or not.
FailKeychainWrite(a) ==
  /\ at = "session"
  /\ IF candidate = "previous" THEN a \notin created /\ created' = created \cup {a}
     ELSE UNCHANGED created
  /\ host' \in {host, [host EXCEPT ![a] = candidate]}
  /\ passed' = FALSE
  /\ Goto("cleanup")
  /\ UNCHANGED <<mode, flaw, candidate, record, report, broken, mounted,
                 processes, watch>>

\* The runner cancels the job, or is lost: nothing more of the program runs.
Cancel ==
  /\ at \notin {"end", "cancelled"}
  /\ passed' = FALSE
  /\ Goto("cancelled")
  /\ UNCHANGED <<mode, flaw, candidate, record, report, created, broken, machine,
                 processes, watch>>

-----------------------------------------------------------------------------
(* Cleaning up.                                                             *)

\* The authenticated program records that it starts, and ends the processes;
\* the other goes straight to the files.
StartCleanup ==
  /\ at = "cleanup"
  /\ IF Authenticated
     THEN record' = [record EXCEPT !.cleanupStarted = TRUE] /\ Terminated
     ELSE UNCHANGED <<record, app, helper>>
  /\ Goto("app")
  /\ UNCHANGED <<mode, flaw, candidate, passed, report, created, broken, machine,
                 session, stage, log, watch>>

AfterRemoval == [app |-> "registration", registration |-> "data",
                 data |-> "keychain"]

\* The app, the login registration and the state roots go, in this order.
RemovePlace ==
  /\ at \in Places
  /\ host' = [host EXCEPT ![at] = "none"]
  /\ Goto(AfterRemoval[at])
  /\ UNCHANGED <<mode, flaw, candidate, passed, record, report, created, broken,
                 mounted, processes, watch>>

\* Removing one fails, with part of it gone or not: the authenticated program
\* notes it and goes on, the other's finally block ends there.
FailRemoval ==
  /\ at \in Places
  /\ host[at] # "none"
  /\ broken' = TRUE /\ passed' = FALSE
  /\ Goto(IF Authenticated THEN AfterRemoval[at] ELSE "end")
  /\ UNCHANGED <<mode, flaw, candidate, record, report, created, machine,
                 processes, watch>>

\* Every created account is deleted, failures noted; absence is success.
DeleteAuthKeychain(kept) ==
  /\ at = "keychain"
  /\ kept \subseteq created
  /\ host' = [i \in Items |-> IF i \in created \ kept THEN "none" ELSE host[i]]
  /\ broken' = (broken \/ kept # {})
  /\ Goto("remaining")
  /\ UNCHANGED <<mode, flaw, candidate, passed, record, report, created, mounted,
                 processes, watch>>

\* Fault: failures of earlier cleanup steps are forgotten.
NoneRemaining == app # "running" /\ helper = NoHelper

\* Last, no owned process may remain.  Only a clean cleanup is recorded as
\* completed.
CleanedUp == ~broken /\ app # "running" /\ helper = NoHelper

\* Fault: the program waits until no owned process remains.
AwaitNoneRemaining ==
  /\ at = "remaining"
  /\ app # "running" /\ helper = NoHelper
  /\ passed' = (passed /\ ~broken)
  /\ record' = IF Authenticated /\ ~broken
               THEN [record EXCEPT !.cleanupCompleted = TRUE] ELSE record
  /\ Goto(IF Authenticated /\ passed' THEN "complete" ELSE "end")
  /\ UNCHANGED <<mode, flaw, candidate, report, created, broken, machine,
                 processes, watch>>

RequireNoneRemaining ==
  /\ at = "remaining"
  /\ passed' = (passed /\ CleanedUp)
  /\ record' = IF Authenticated /\ CleanedUp
               THEN [record EXCEPT !.cleanupCompleted = TRUE] ELSE record
  /\ Goto(IF Authenticated /\ passed' THEN "complete" ELSE "end")
  /\ UNCHANGED <<mode, flaw, candidate, report, created, broken, machine,
                 processes, watch>>

\* And only a run that passed, after its cleanup, is recorded as complete.
RecordComplete ==
  /\ at = "complete"
  /\ record' = [phase |-> "complete", cleanupStarted |-> TRUE, cleanupCompleted |-> TRUE]
  /\ Goto("end")
  /\ UNCHANGED <<mode, flaw, candidate, passed, report, created, broken, machine,
                 processes, watch>>

-----------------------------------------------------------------------------
(* The app and its helper.                                                  *)

\* The system starts the app it was asked for, while it is installed.
AppStarts ==
  /\ app = "starting"
  /\ app' = IF host["app"] = "none" THEN "none" ELSE "running"
  /\ session' = FALSE
  /\ UNCHANGED <<program, machine, helper, stage, log, watch>>

\* A running app writes its state, or changes what was seeded.
AppWrites(says) ==
  /\ app = "running"
  /\ host' = [host EXCEPT !["data"] = says]
  /\ UNCHANGED <<program, mounted, processes, watch>>

\* At its start, whatever the helper's state, it reads a stored session, the
\* run's or the owner's, and asks the servers to renew its tokens.
AppReadsSession ==
  /\ app = "running"
  /\ \E a \in Accounts : host[a] # "none"
  /\ session' = TRUE
  /\ UNCHANGED <<program, machine, app, helper, stage, log, watch>>

\* The answer comes whenever it comes: the item gets newer content, or goes
\* with a session the servers reject.
AppWritesItem(a, says) ==
  /\ app = "running" /\ session
  /\ host' = [host EXCEPT ![a] = says]
  /\ UNCHANGED <<program, mounted, processes, watch>>

\* It never comes up, quits or crashes; its helper stops with it or stays.
AppExits(stopped) ==
  /\ app # "none"
  /\ app' = "none"
  /\ helper' = IF stopped THEN NoHelper ELSE helper
  /\ UNCHANGED <<program, machine, session, stage, log, watch>>

\* The app starts a helper when none runs (with the helper Off, by a fault).
HelperStarts ==
  /\ app = "running" /\ helper = NoHelper
  /\ Len(stage) < MaxGenerations
  /\ stage' = Append(stage, "silent") /\ helper' = Len(stage) + 1
  /\ UNCHANGED <<program, machine, app, session, log, watch>>

HelperExits ==
  /\ helper # NoHelper
  /\ helper' = NoHelper
  /\ UNCHANGED <<program, machine, app, session, stage, log, watch>>

Reach(s) ==
  /\ stage' = [stage EXCEPT ![helper] = s]
  /\ log' = [log EXCEPT !.lines = Append(@, s)]

\* The helper logs that it is authenticated, then that it serves.  Both are
\* round trips to servers: no helper gets to the second within one poll
\* interval of 0.1 s, so one that serves was seen by a poll.
HelperLogs ==
  /\ helper # NoHelper
  /\ \/ stage[helper] = "silent" /\ Reach("authenticated")
     \/ stage[helper] = "authenticated" /\ watch.active = helper /\ Reach("serving")
  /\ UNCHANGED <<program, machine, app, session, helper, watch>>

\* The log is rotated: the path names a new, empty file.
RotateLog ==
  /\ helper # NoHelper
  /\ log.file < MaxRotations
  /\ log' = [file |-> log.file + 1, lines |-> <<>>]
  /\ UNCHANGED <<program, machine, app, session, helper, stage, watch>>

-----------------------------------------------------------------------------
Program ==
  \/ Prepare \/ RefusePreparation
  \/ AttachVolume \/ CopyApp \/ DetachVolume
  \/ \E a \in Accounts : WriteAuthKeychain(a) \/ UpdateAuthKeychain(a)
  \/ SessionWritten \/ SessionUpdated \/ SeedState \/ RequirePreserved
  \/ Launch \/ WaitForInstalledAppPid \/ ListHelpers \/ ReadLog
  \/ WaitForVisibleWindow \/ RequireHelper \/ TrayQuit
  \/ RequireAbsence \/ RequireUnchanged \/ ReplaceApp \/ WriteReport
  \/ StartCleanup \/ RemovePlace \/ FailRemoval
  \/ \E kept \in SUBSET Accounts : DeleteAuthKeychain(kept)
  \/ RequireNoneRemaining \/ RecordComplete

Failure == FailStep \/ \E a \in Accounts : FailKeychainWrite(a)

Environment ==
  \/ AppStarts
  \/ \E says \in {"probe", "altered"} : AppWrites(says)
  \/ AppReadsSession
  \/ \E a \in Accounts, says \in {"refreshed", "none"} : AppWritesItem(a, says)
  \/ \E stopped \in BOOLEAN : AppExits(stopped)
  \/ HelperStarts \/ HelperExits \/ HelperLogs \/ RotateLog

Next == Program \/ Failure \/ Cancel \/ Environment

Spec == Init /\ [][Next]_vars

\* The program goes on, and each of its waits has a deadline, which is one
\* way for its step to fail.  The app and its helper promise nothing.
Fairness == WF_vars(Program) /\ WF_vars(FailStep)

FairSpec == Spec /\ Fairness

-----------------------------------------------------------------------------
(* Properties.                                                              *)

\* Nothing the run put on the host is there and nothing of it runs.  What the
\* app writes is not part of it, the data and renewed tokens: one that the
\* system starts so late that it escapes the cleanup's TERM and KILL may write
\* them after their removal.
Restored ==
  /\ app # "running" /\ helper = NoHelper
  /\ ~Ours("app") /\ ~Ours("registration")
  /\ \A a \in Accounts : host[a] \notin Candidates

\* What the program leaves behind tells the truth.  A cleanup recorded as
\* completed has removed app, registration and the sessions it wrote and left no
\* process, also when the run failed half-way or was cancelled later; a run
\* that passed has in addition written its report, detached its volumes and
\* had flawless packages; "complete" is recorded of no other run.
OutcomeTells ==
  /\ record.cleanupCompleted => Restored
  /\ at = "end" /\ passed =>
       /\ Restored /\ report /\ ~mounted /\ flaw = NoFlaw
       /\ Authenticated => record.phase = "complete"
  /\ record.phase = "complete" => passed /\ record.cleanupCompleted

\* What the program looked for before it touched anything, and found of the
\* runner's owner, is never changed or removed, whatever fails, wherever the run
\* ends and whatever the app does: the paths, and the Keychain items when the run
\* needs a session of its own.  With the helper Off the Keychain is not looked at,
\* and the app may renew or clear an owner's session there.
ForeignStateSurvives ==
  [][\A i \in Places \cup (IF Authenticated THEN Accounts ELSE {}) :
       host[i] = "foreign" => host'[i] = "foreign"]_vars

\* A launch starts the candidate under test and nothing else: it is the one
\* that is installed, nothing of an earlier launch runs, its volume is gone,
\* and the seeded state and this candidate's own session are in place.
LaunchesTheCandidateAlone ==
  [][at = "launch" /\ at' = "admission" =>
       /\ host["app"] = candidate /\ app = "none" /\ helper = NoHelper
       /\ ~mounted /\ Preserved
       /\ Authenticated => RequireAuthKeychainSession(candidate)]_vars

\* The tray's Quit is tested on the helper that proved itself: the one that
\* runs then has itself logged that it is authenticated and serves, whatever
\* helpers came and went and however the log was rotated; with the helper Off
\* none runs.
QuitsWhatItQualified ==
  [][at = "helper" /\ at' = "quit" =>
       IF Authenticated THEN helper # NoHelper /\ stage[helper] = "serving"
       ELSE helper = NoHelper]_vars

\* Every run that was not cancelled ends, whatever the app and its helper do.
QualificationEnds == at = "attach" ~> at \in {"end", "cancelled"}
=============================================================================
