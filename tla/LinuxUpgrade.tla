--------------------------- MODULE LinuxUpgrade ---------------------------
(***************************************************************************)
(* The programs that qualify the signed Linux app in a desktop session of   *)
(* their own: qualify_desktop_linux_session.py the upgrade of the package   *)
(* without an account ("anonymous") and its launch by a display manager's   *)
(* login ("login"), qualify_desktop_linux_appimage.py the replacement of    *)
(* the AppImage, and qualify_desktop_linux_authenticated_upgrade.py the     *)
(* upgrade with an account.                                                 *)
(*                                                                          *)
(* Each follows a fixed plan of installations, launches of the signed app   *)
(* and probes, which are unsigned programs that write and read the app's    *)
(* own storage between launches.  With an account, the first probe logs in, *)
(* the app's helper registers a temporary bridge at the server, and a       *)
(* cleanup that surrounds the plan stops app and helper and unregisters.    *)
(* The app and its helper run beside the program, and any step may fail.    *)
(***************************************************************************)
EXTENDS Naturals, Sequences, FiniteSets

CONSTANT MaxHelpers   \* bound: helper processes that start

ASSUME MaxHelpersAssumption == MaxHelpers \in Nat

Modes == {"anonymous", "login", "appimage", "authenticated"}
NoHelper == 0

VARIABLES
  mode,        \* which of the programs runs
  at,          \* what it is doing
  step,        \* how much of the plan is done
  passed,      \* whether no step has failed
  result,      \* whether result.json was written
  installed,   \* the installed package: "none", "previous", "current"
  gui,         \* whether the app runs
  helpers,     \* the helpers so far: the launch, progress, and whether alive
  seen,        \* helper_pid: the helper the readiness check first found
  log,         \* the markers in the bridge log
  keyring,     \* whether the Secret Service is on the bus
  secret,      \* the stored secret: "none", "written", "lost"
  intent,      \* the persisted helper intent
  session,     \* whether the account is logged in
  registered,  \* whether the server knows the temporary bridge
  autostart    \* whether the app is registered to start at login

control == <<mode, at, step, passed, result, seen>>
machine == <<installed, gui, helpers>>
storage == <<log, keyring, secret, intent, session, registered, autostart>>
vars == <<control, machine, storage>>

-----------------------------------------------------------------------------
(* The plans.                                                               *)

Install(c) == [do |-> "install", candidate |-> c, arg |-> "none"]
Probe(c, operation) == [do |-> "probe", candidate |-> c, arg |-> operation]
Open(c, helper) == [do |-> "launch", candidate |-> c, arg |-> helper]
Keyring(wanted) == [do |-> "keyring", candidate |-> "current", arg |-> wanted]

\* Fault: the secret is read back before the Secret Service is taken away.
AnonymousPlanReadingEarly ==
  <<Probe("previous", "write"),
    Install("previous"), Open("previous", "off"),
    Install("current"), Open("current", "off"), Probe("current", "read"),
    Keyring("absent"), Probe("current", "unavailable"), Open("current", "off"),
    Keyring("present")>>

AnonymousPlan ==
  <<Probe("previous", "write"),
    Install("previous"), Open("previous", "off"),
    Install("current"), Open("current", "off"),
    Keyring("absent"), Probe("current", "unavailable"), Open("current", "off"),
    Keyring("present"), Probe("current", "read")>>

AuthenticatedPlan ==
  <<Install("previous"), Probe("previous", "loginOn"),
    Open("previous", "on"), Probe("previous", "onToOff"), Open("previous", "off"),
    Install("current"), Open("current", "off"),
    Probe("current", "offToOn"), Open("current", "on")>>

\* An image replaces the other in place; the replacement starts as the login
\* registration made in the first says.
AppImagePlan ==
  <<Probe("previous", "write"),
    Install("previous"), Open("previous", "enableLogin"),
    Install("current"), Open("current", "hidden"), Probe("current", "read")>>

\* The registration is written and a display manager logs the user in.
LoginPlan == <<Install("current"), Open("current", "login")>>

Authenticated == mode = "authenticated"
Plan == CASE mode = "anonymous" -> AnonymousPlan
          [] mode = "login" -> LoginPlan
          [] mode = "appimage" -> AppImagePlan
          [] mode = "authenticated" -> AuthenticatedPlan
Now == Plan[step + 1]
Doing(what) == at = "plan" /\ step < Len(Plan) /\ Now.do = what

\* Only what follows the login is inside authenticated_cleanup.
CleanupSurrounds == Authenticated /\ step >= 2

Init ==
  /\ mode \in Modes /\ at = "plan" /\ step = 0 /\ passed = TRUE /\ result = FALSE
  /\ installed = "none" /\ gui = FALSE /\ helpers = <<>>
  /\ seen = NoHelper /\ log = {} /\ keyring = "present"
  /\ secret = "none" /\ intent = "off" /\ session = FALSE /\ registered = FALSE
  /\ autostart = FALSE

Alive == {h \in DOMAIN helpers : helpers[h].alive}
Kill(gone) ==
  helpers' = [h \in DOMAIN helpers |->
                IF h \in gone THEN [helpers[h] EXCEPT !.alive = FALSE] ELSE helpers[h]]

Goto(where) == at' = where
NextStep == at' = "plan" /\ step' = step + 1

-----------------------------------------------------------------------------
(* Installing, probing, and the Secret Service.                             *)

InstallPackage ==
  /\ Doing("install")
  /\ installed' = Now.candidate
  /\ NextStep
  /\ UNCHANGED <<mode, passed, result, seen, gui, helpers, storage>>

\* Fault: as on macOS, a listing of several helpers counts as no helper.
OneHelperAbsent == Cardinality(Alive) # 1

\* pgrep finds no helper (finding more than one is an error).
InstalledHelperAbsent == Alive = {}

\* The authenticated program starts a probe only when no helper runs.
StartProbe ==
  /\ Doing("probe")
  /\ Authenticated => InstalledHelperAbsent
  /\ Goto("probing")
  /\ UNCHANGED <<mode, step, passed, result, seen, machine, storage>>

\* What a probe requires of the storage, and what it leaves there.
ProbeFinds ==
  CASE Now.arg = "onToOff" -> session /\ intent = "on"
    [] Now.arg = "offToOn" -> session /\ intent = "off"
    [] Now.arg = "loginOn" -> ~session
    [] Now.arg = "read" -> secret = "written" /\ keyring = "present"
    [] Now.arg = "unavailable" -> keyring = "absent"
    [] OTHER -> keyring = "present"

ProbeWrites ==
  /\ intent' = CASE Now.arg \in {"loginOn", "offToOn"} -> "on"
                 [] Now.arg = "onToOff" -> "off"
                 [] OTHER -> intent
  /\ session' = (session \/ Now.arg = "loginOn")
  /\ secret' = IF Now.arg = "write" THEN "written" ELSE secret

\* It exited with 0 and its receipt is the PASS of this very operation.
FinishProbe ==
  /\ at = "probing"
  /\ ProbeFinds
  /\ ProbeWrites
  /\ Authenticated => InstalledHelperAbsent
  /\ NextStep
  /\ UNCHANGED <<mode, passed, result, seen, machine, log, keyring, registered,
                 autostart>>

\* stop_process and start_keyring, each awaited on the bus.
SwitchKeyring ==
  /\ Doing("keyring")
  /\ keyring' = Now.arg
  /\ NextStep
  /\ UNCHANGED <<mode, passed, result, seen, machine, log, secret, intent,
                 session, registered, autostart>>

-----------------------------------------------------------------------------
(* Launching the signed app and quitting it.                                *)

\* Fault: the log of the launch before is not removed.
LaunchOnOldLog ==
  /\ Doing("launch")
  /\ gui' = TRUE
  /\ seen' = NoHelper
  /\ Goto("window")
  /\ UNCHANGED <<mode, step, passed, result, installed, helpers, storage>>

Launch ==
  /\ Doing("launch")
  /\ gui' = TRUE
  /\ log' = IF Authenticated THEN {} ELSE log
  /\ seen' = NoHelper
  /\ Goto("window")
  /\ autostart' = (autostart \/ mode = "login")
  /\ UNCHANGED <<mode, step, passed, result, installed, helpers, keyring,
                 secret, intent, session, registered>>

\* The window is up and rendered.
WaitForWindow ==
  /\ at = "window"
  /\ gui
  /\ Goto(CASE mode = "appimage" -> "menu"
            [] mode \in {"anonymous", "login"} -> "closing"
            [] Authenticated /\ Now.arg = "on" -> "listing"
            [] Authenticated /\ Now.arg # "on" -> "off")
  /\ UNCHANGED <<mode, step, passed, result, seen, machine, storage>>

\* helper_ready, first half: the app runs, and its one helper, the same one
\* as before, is found, or none yet.
ListHelper ==
  /\ at = "listing"
  /\ gui
  /\ Cardinality(Alive) <= 1
  /\ seen # NoHelper => Alive = {seen}
  /\ \A h \in Alive : helpers[h].launch = step
  /\ seen' = IF Alive = {} THEN NoHelper ELSE CHOOSE h \in Alive : TRUE
  /\ Goto(IF Alive = {} THEN "listing" ELSE "reading")
  /\ UNCHANGED <<mode, step, passed, result, machine, storage>>

\* Second half: both markers are in the log, or the check is repeated.
ReadLog ==
  /\ at = "reading"
  /\ Goto(IF log = {"authenticated", "serving"} THEN "closing" ELSE "listing")
  /\ UNCHANGED <<mode, step, passed, result, seen, machine, storage>>

\* With the helper Off none was found for five seconds.
WatchOff ==
  /\ at = "off"
  /\ gui /\ InstalledHelperAbsent
  /\ Goto("closing")
  /\ UNCHANGED <<mode, step, passed, result, seen, machine, storage>>

\* The image's tray menu: the first image is made to register itself for the
\* login, and the file is awaited; the second must show that it still is.
UseMenu ==
  /\ at = "menu"
  /\ gui
  /\ IF Now.arg = "enableLogin" THEN autostart' = TRUE
     ELSE autostart /\ UNCHANGED autostart
  /\ Goto("closing")
  /\ UNCHANGED <<mode, step, passed, result, seen, machine, log, keyring, secret,
                 intent, session, registered>>

\* The window is closed and the tray's Quit activated; in the login session
\* the user logs out.
CloseAndQuit ==
  /\ at = "closing"
  /\ gui
  /\ Goto("quitting")
  /\ UNCHANGED <<mode, step, passed, result, seen, machine, storage>>

\* The app exited, and no helper remains.
FinishQuit ==
  /\ at = "quitting"
  /\ ~gui /\ InstalledHelperAbsent
  /\ NextStep
  /\ UNCHANGED <<mode, passed, result, seen, machine, storage>>

-----------------------------------------------------------------------------
(* Failing.                                                                 *)

InPlan == {"plan", "probing", "window", "listing", "reading", "off", "menu",
           "closing", "quitting"}
InCleanup == {"stopGui", "awaitHelper", "awaitKilled", "unregister", "unregistering"}

\* A program ends by stopping its processes; in the login session it has
\* started none.  One that fails before passes the account's cleanup first.
Finally == IF mode = "login" THEN "end" ELSE "stopAll"
Unwind == IF CleanupSurrounds THEN "stopGui" ELSE Finally

\* What an unfinished probe or installation may have done all the same.
LeftBehind ==
  /\ CASE at = "probing" -> ProbeWrites \/ UNCHANGED <<intent, session, secret>>
       [] at = "unregistering" -> session' \in {session, FALSE} /\ UNCHANGED <<intent, secret>>
       [] OTHER -> UNCHANGED <<intent, session, secret>>
  /\ registered' \in (IF at = "unregistering" THEN {registered, FALSE} ELSE {registered})
  /\ installed' \in (IF Doing("install") THEN {installed, Now.candidate} ELSE {installed})
  /\ UNCHANGED <<mode, step, result, seen, gui, helpers, log, keyring, autostart>>

FailStep ==
  /\ at \in InPlan
  /\ at = "plan" => step < Len(Plan)
  /\ passed' = FALSE
  /\ Goto(Unwind)
  /\ LeftBehind

\* SIGINT, and with an account SIGTERM, unwinds the program: out of the plan
\* through the account's cleanup, out of that one past what is left of it, so
\* that nothing may be unregistered.  SIGTERM of another program or the loss of
\* the runner unwinds nothing.
Terminate(forced) ==
  /\ at \in InPlan \cup InCleanup \cup {"remove"}
  /\ passed' = FALSE
  /\ Goto(IF forced THEN "lost" ELSE IF at \in InPlan THEN Unwind ELSE Finally)
  /\ LeftBehind

-----------------------------------------------------------------------------
(* authenticated_cleanup.                                                   *)

StartCleanup ==
  /\ at = "plan" /\ step = Len(Plan)
  /\ Goto(IF Authenticated THEN "stopGui" ELSE "remove")
  /\ UNCHANGED <<mode, step, passed, result, seen, machine, storage>>

\* The app's process group gets SIGTERM and after ten seconds SIGKILL; its
\* helper is of the group, but shuts down by itself.
StopGui(gone) ==
  /\ at = "stopGui"
  /\ gone \subseteq Alive
  /\ gui' = FALSE
  /\ Kill(gone)
  /\ Goto("awaitHelper")
  /\ UNCHANGED <<mode, step, passed, result, seen, installed, storage>>

HelperGone ==
  /\ at \in {"awaitHelper", "awaitKilled"}
  /\ InstalledHelperAbsent
  /\ Goto("unregister")
  /\ UNCHANGED <<mode, step, passed, result, seen, machine, storage>>

\* Fault: a helper that does not exit is waited for.
AwaitHelperFurther == at = "awaitHelper" /\ UNCHANGED vars

\* After thirty seconds a helper that has not exited is killed.
KillHelper ==
  /\ at = "awaitHelper"
  /\ Cardinality(Alive) = 1
  /\ Kill(Alive)
  /\ Goto("awaitKilled")
  /\ UNCHANGED <<mode, step, passed, result, seen, installed, gui, storage>>

\* The app's group survived its SIGKILL, or more than one helper is found:
\* the cleanup itself raises, and nothing is unregistered.
AbortCleanup ==
  /\ \/ at = "stopGui"
     \/ at = "awaitHelper" /\ Cardinality(Alive) > 1
  /\ passed' = FALSE
  /\ Goto("stopAll")
  /\ UNCHANGED <<mode, step, result, seen, machine, storage>>

\* The last probe logs out and has the server delete the bridge; it checks for
\* helpers as every probe does.
StartUnregister ==
  /\ at = "unregister"
  /\ InstalledHelperAbsent
  /\ Goto("unregistering")
  /\ UNCHANGED <<mode, step, passed, result, seen, machine, storage>>

FinishUnregister ==
  /\ at = "unregistering"
  /\ session' = FALSE /\ registered' = FALSE
  /\ Goto(IF passed THEN "remove" ELSE "stopAll")
  /\ UNCHANGED <<mode, step, passed, result, seen, machine, log, keyring, secret,
                 intent, autostart>>

FailUnregister ==
  /\ at \in {"unregister", "unregistering"}
  /\ passed' = FALSE
  /\ session' \in {session, FALSE}
  /\ registered' \in {registered, FALSE}
  /\ Goto("stopAll")
  /\ UNCHANGED <<mode, step, result, seen, machine, log, keyring, secret, intent,
                 autostart>>

-----------------------------------------------------------------------------
(* The end.                                                                 *)

\* The package is removed (an image stays) and the result written.
WriteResult ==
  /\ at = "remove"
  /\ installed' = IF mode = "appimage" THEN installed ELSE "none"
  /\ result' = TRUE
  /\ Goto(Finally)
  /\ UNCHANGED <<mode, step, passed, seen, gui, helpers, storage>>

FailRemoval ==
  /\ at = "remove"
  /\ passed' = FALSE
  /\ Goto(Finally)
  /\ UNCHANGED <<mode, step, result, seen, machine, storage>>

\* All processes are stopped, last started first.  One that survives (its
\* SIGKILL, or the AppImage program's SIGTERM), or a signal to the program
\* meanwhile, may leave those before it.
StopAll(survived) ==
  /\ at = "stopAll"
  /\ gui' = (gui /\ survived)
  /\ keyring' \in (IF survived THEN {keyring, "absent"} ELSE {"absent"})
  /\ Goto("end")
  /\ UNCHANGED <<mode, step, passed, result, seen, installed, helpers, log, secret,
                 intent, session, registered, autostart>>

-----------------------------------------------------------------------------
(* The app and its helper.                                                  *)

GuiExits ==
  /\ gui
  /\ gui' = FALSE
  /\ UNCHANGED <<control, installed, helpers, storage>>

\* The app starts a helper when it is wanted On, or by a fault.
HelperStarts ==
  /\ gui
  /\ Len(helpers) < MaxHelpers
  /\ helpers' = Append(helpers, [alive |-> TRUE, stage |-> "silent", launch |-> step])
  /\ UNCHANGED <<control, installed, gui, storage>>

\* Fairness owes it nothing: a helper may never exit.
HelperExits(h) ==
  /\ h \in Alive
  /\ Kill({h})
  /\ UNCHANGED <<control, installed, gui, storage>>

Reach(h, marker) ==
  /\ helpers' = [helpers EXCEPT ![h].stage = marker]
  /\ log' = log \cup {marker}

\* An authenticated helper registers its bridge.
HelperAuthenticates(h) ==
  /\ h \in Alive /\ helpers[h].stage = "silent"
  /\ session
  /\ Reach(h, "authenticated")
  /\ registered' = TRUE
  /\ UNCHANGED <<control, installed, gui, keyring, secret, intent, session,
                 autostart>>

\* It then waits for relay events.
HelperServes(h) ==
  /\ h \in Alive /\ helpers[h].stage = "authenticated"
  /\ Reach(h, "serving")
  /\ UNCHANGED <<control, installed, gui, keyring, secret, intent, session,
                 registered, autostart>>

\* A running app may lose the stored secret, the session with it.
AppLosesSecret ==
  /\ gui /\ secret = "written"
  /\ secret' = "lost"
  /\ UNCHANGED <<control, machine, log, keyring, intent, session, registered,
                 autostart>>

\* A running app may drop its login registration.
AppDropsRegistration ==
  /\ gui /\ autostart
  /\ autostart' = FALSE
  /\ UNCHANGED <<control, machine, log, keyring, secret, intent, session, registered>>

-----------------------------------------------------------------------------
Program ==
  \/ InstallPackage \/ StartProbe \/ FinishProbe \/ SwitchKeyring
  \/ Launch \/ WaitForWindow \/ ListHelper \/ ReadLog \/ WatchOff
  \/ UseMenu \/ CloseAndQuit \/ FinishQuit \/ StartCleanup
  \/ \E gone \in SUBSET Alive : StopGui(gone)
  \/ HelperGone \/ KillHelper \/ AbortCleanup
  \/ StartUnregister \/ FinishUnregister \/ FailUnregister
  \/ WriteResult \/ FailRemoval
  \/ \E survived \in BOOLEAN : StopAll(survived)

Environment ==
  \/ GuiExits \/ HelperStarts \/ AppLosesSecret \/ AppDropsRegistration
  \/ \E h \in DOMAIN helpers :
       HelperExits(h) \/ HelperAuthenticates(h) \/ HelperServes(h)

Next ==
  \/ Program \/ FailStep
  \/ \E forced \in BOOLEAN : Terminate(forced)
  \/ Environment

Spec == Init /\ [][Next]_vars

\* The program goes on, and each of its waits has a deadline, which is one
\* way for its step to fail.
Fairness == WF_vars(Program) /\ WF_vars(FailStep)

FairSpec == Spec /\ Fairness

-----------------------------------------------------------------------------
(* Properties.                                                              *)

\* result.json is written of nothing less than it says: the account's session
\* and its temporary bridge are gone ("temporaryBridgeCleanupCompleted"), the
\* secret written before the upgrade or the replacement has survived it (and
\* the absence of the Secret Service), the package is removed, and no app or
\* helper runs, also after a logout.
ResultTells ==
  result =>
    /\ passed /\ ~gui /\ Alive = {}
    /\ mode # "appimage" => installed = "none"
    /\ Authenticated => ~session /\ ~registered
    /\ mode \in {"anonymous", "appimage"} => secret = "written"

\* A probe of the authenticated program opens the app's storage only while no
\* app and no helper runs, in the plan and in the cleanup, where they may have
\* been killed a moment before.
ProbesRunAlone ==
  Authenticated /\ at \in {"probing", "unregistering"} => ~gui /\ Alive = {}

\* Readiness is fresh: the helper a launch finds ready is the app's own of this
\* launch, and the markers it rests on were written in this launch, whatever
\* earlier launches logged.  They need not be that helper's own: one that
\* served and died while the window was awaited, before the first look at the
\* helpers, leaves its lines to its successor.
ReadinessIsFresh ==
  [][at = "reading" /\ at' = "closing" =>
       /\ helpers[seen].launch = step
       /\ \E h \in DOMAIN helpers :
            helpers[h].launch = step /\ helpers[h].stage = "serving"]_vars

\* Once logged in, every run but one whose runner is lost comes to its end,
\* also when the app or its helper never exit.
SessionEnds == CleanupSurrounds ~> at \in {"end", "lost"}
=============================================================================
