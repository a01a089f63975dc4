---------------------------- MODULE LinuxProofs ----------------------------
(***************************************************************************)
(* Proofs about the programs that qualify the signed Linux app: whatever    *)
(* number of helpers the app starts, whenever app and helper exit, fail to  *)
(* or lose the secret, and wherever a step fails or the program is          *)
(* interrupted, the result tells the truth, the probes run alone and the    *)
(* readiness of an authenticated launch is of that launch.                  *)
(*                                                                          *)
(* The strengthening says what each place of the program may rely on: which *)
(* item of the plan it carries out, that neither app nor helper runs        *)
(* between launches, and that a launch's helpers and log lines are its own. *)
(***************************************************************************)
EXTENDS LinuxUpgrade, TLAPS

Helper == [alive : BOOLEAN, stage : {"silent", "authenticated", "serving"}, launch : Nat]

Launching == {"window", "listing", "reading", "off", "menu", "closing", "quitting"}
Quiet == {"plan", "probing", "unregister", "unregistering", "remove"}

LinuxTypeOK ==
  /\ mode \in Modes
  /\ step \in Nat
  /\ passed \in BOOLEAN /\ result \in BOOLEAN /\ gui \in BOOLEAN
  /\ helpers \in Seq(Helper)
  /\ session \in BOOLEAN /\ registered \in BOOLEAN

\* The program is where the plan says, and has not failed so far.
Aligned ==
  /\ at \in Launching => Now.do = "launch"
  /\ at = "probing" => Now.do = "probe"
  /\ at \in Launching \cup {"probing"} => step < Len(Plan)
  /\ at \in InPlan \cup {"remove"} => passed
  /\ at \in InCleanup => Authenticated

\* Between the launches neither app nor helper runs.
QuietAlone ==
  /\ at \in Quiet \/ result => ~gui /\ Alive = {}
  /\ at \in {"awaitHelper", "awaitKilled"} => ~gui

\* What the result says holds from the moment it may be written.
ResultKept ==
  /\ result => /\ at \in {"stopAll", "end"} /\ passed
               /\ mode # "appimage" => installed = "none"
  /\ result \/ at = "remove" => (Authenticated => ~session /\ ~registered)

\* The plans with a secret end by reading it.
SecretKept ==
  /\ mode \in {"anonymous", "appimage"}
  /\ result \/ at = "remove" \/ (at = "plan" /\ step = Len(Plan))
  => secret = "written"

\* The helpers and the log of an authenticated launch are of this launch.
Fresh ==
  /\ at \in Launching => \A h \in Alive : helpers[h].launch = step
  /\ Authenticated /\ at \in Launching /\ "serving" \in log =>
       \E h \in DOMAIN helpers : helpers[h].launch = step /\ helpers[h].stage = "serving"
  /\ at \in {"listing", "reading"} => Authenticated
  /\ at = "reading" => seen \in DOMAIN helpers /\ helpers[seen].launch = step

LinuxInv ==
  /\ LinuxTypeOK /\ Aligned /\ QuietAlone /\ ResultKept /\ SecretKept /\ Fresh
-----------------------------------------------------------------------------
(* Operators.                                                                *)

LEMMA PlanFacts ==
  ASSUME mode \in Modes
  PROVE  /\ Len(Plan) \in Nat \ {0}
         /\ mode \in {"anonymous", "appimage"} =>
              Plan[Len(Plan)].do = "probe" /\ Plan[Len(Plan)].arg = "read"
  <1>1. CASE mode = "anonymous"
    <2>1. Plan = AnonymousPlan
      BY <1>1 DEF Plan
    <2>2. Len(AnonymousPlan) = 10 /\ AnonymousPlan[10] = Probe("current", "read")
      BY DEF AnonymousPlan
    <2> QED
      BY <2>1, <2>2 DEF Probe
  <1>2. CASE mode = "login"
    <2>1. Plan = LoginPlan
      BY <1>2 DEF Plan
    <2> QED
      BY <1>2, <2>1 DEF LoginPlan
  <1>3. CASE mode = "appimage"
    <2>1. Plan = AppImagePlan
      BY <1>3 DEF Plan
    <2>2. Len(AppImagePlan) = 6 /\ AppImagePlan[6] = Probe("current", "read")
      BY DEF AppImagePlan
    <2> QED
      BY <2>1, <2>2 DEF Probe
  <1>4. CASE mode = "authenticated"
    <2>1. Plan = AuthenticatedPlan
      BY <1>4 DEF Plan
    <2>2. Len(AuthenticatedPlan) = 9
      BY DEF AuthenticatedPlan
    <2> QED
      BY <1>4, <2>1, <2>2
  <1> QED
    BY <1>1, <1>2, <1>3, <1>4 DEF Modes

\* The program that runs stays the same, and so does its plan.
LEMMA ModeKept ==
  ASSUME [Next]_vars
  PROVE  mode' = mode /\ Plan' = Plan /\ Authenticated' = Authenticated
  <1>1. mode' = mode
    BY DEF Next, vars, control, machine, storage, Program, FailStep, Terminate, LeftBehind,
       Environment, InstallPackage, StartProbe, FinishProbe, SwitchKeyring, Launch, WaitForWindow,
       ListHelper, ReadLog, WatchOff, UseMenu, CloseAndQuit, FinishQuit, StartCleanup,
       StopGui, HelperGone, KillHelper, AbortCleanup, StartUnregister, FinishUnregister,
       FailUnregister, WriteResult, FailRemoval, StopAll, GuiExits, HelperStarts,
       HelperExits, HelperAuthenticates, HelperServes, AppLosesSecret, AppDropsRegistration
  <1> QED
    BY <1>1 DEF Plan, Authenticated

LEMMA SameHelpers == helpers' = helpers => Alive' = Alive
  BY DEF Alive

LEMMA Killed ==
  ASSUME helpers \in Seq(Helper), NEW gone, Kill(gone)
  PROVE  /\ helpers' \in Seq(Helper) /\ DOMAIN helpers' = DOMAIN helpers
         /\ \A h \in DOMAIN helpers : /\ helpers'[h].launch = helpers[h].launch
                                      /\ helpers'[h].stage = helpers[h].stage
         /\ Alive' = Alive \ gone
  <1>1. \A h \in DOMAIN helpers : helpers[h] \in Helper
    OBVIOUS
  <1>2. DOMAIN helpers' = DOMAIN helpers /\ DOMAIN helpers = 1..Len(helpers)
    BY DEF Kill
  <1>3. \A h \in DOMAIN helpers :
          helpers'[h] = IF h \in gone THEN [helpers[h] EXCEPT !.alive = FALSE] ELSE helpers[h]
    BY DEF Kill
  <1>4. \A h \in DOMAIN helpers : /\ helpers'[h] \in Helper
                                  /\ helpers'[h].launch = helpers[h].launch
                                  /\ helpers'[h].stage = helpers[h].stage
                                  /\ helpers'[h].alive <=> helpers[h].alive /\ h \notin gone
    BY <1>1, <1>3 DEF Helper
  <1>5. helpers' \in Seq(Helper)
    <2>1. Len(helpers) \in Nat /\ helpers' = [h \in 1..Len(helpers) |-> helpers'[h]]
      BY <1>2 DEF Kill
    <2> QED
      BY <1>2, <1>4, <2>1
  <1>6. Alive' = Alive \ gone
    BY <1>2, <1>4 DEF Alive
  <1> QED
    BY <1>2, <1>4, <1>5, <1>6

-----------------------------------------------------------------------------
(* The steps.                                                                *)

LEMMA InitLinuxInv == Init => LinuxInv
  <1> SUFFICES ASSUME Init PROVE LinuxInv
    OBVIOUS
  <1>1. Alive = {} /\ helpers \in Seq(Helper)
    BY DEF Init, Alive
  <1>2. Len(Plan) \in Nat \ {0}
    BY PlanFacts DEF Init
  <1> QED
    BY <1>1, <1>2 DEF Init, LinuxInv, LinuxTypeOK, Aligned, QuietAlone, ResultKept,
       SecretKept, Fresh, Launching, InCleanup, Quiet, InPlan

\* Between two launches.
LEMMA PreparingKeeps ==
  ASSUME LinuxInv, [Next]_vars,
         InstallPackage \/ StartProbe \/ FinishProbe \/ SwitchKeyring \/ StartCleanup
  PROVE  LinuxInv'
  <1>1. mode' = mode /\ Plan' = Plan /\ Authenticated' = Authenticated
    BY ModeKept
  <1>2. helpers' = helpers /\ gui' = gui /\ Alive' = Alive /\ UNCHANGED <<passed, result>>
    BY SameHelpers DEF InstallPackage, StartProbe, FinishProbe, SwitchKeyring, StartCleanup,
       machine, NextStep, Goto
  <1>3. ~gui /\ Alive = {} /\ passed /\ ~result
    BY DEF LinuxInv, QuietAlone, Aligned, ResultKept, Quiet, InPlan, InstallPackage, StartProbe,
       FinishProbe, SwitchKeyring, StartCleanup, Doing
  <1>4. LinuxTypeOK'
    <2>1. step' \in Nat
      BY DEF LinuxInv, LinuxTypeOK, InstallPackage, StartProbe, FinishProbe, SwitchKeyring,
         StartCleanup, NextStep
    <2>2. session' \in BOOLEAN /\ registered' = registered
      BY DEF LinuxInv, LinuxTypeOK, InstallPackage, StartProbe, FinishProbe, SwitchKeyring,
         StartCleanup, ProbeWrites, storage
    <2> QED
      BY <1>1, <1>2, <2>1, <2>2 DEF LinuxInv, LinuxTypeOK
  <1>5. at' \in {"plan", "probing"} \/ (at = "plan" /\ step = Len(Plan) /\ step' = step
             /\ at' = IF Authenticated THEN "stopGui" ELSE "remove")
    BY DEF InstallPackage, StartProbe, FinishProbe, SwitchKeyring, StartCleanup, NextStep, Goto
  <1>6. at' = "probing" => step' = step /\ Doing("probe")
    BY DEF InstallPackage, StartProbe, FinishProbe, SwitchKeyring, StartCleanup, NextStep, Goto
  <1>7. Aligned' /\ QuietAlone' /\ ResultKept' /\ Fresh'
    <2>1. at' = "probing" => Now'.do = "probe" /\ step' < Len(Plan)'
      BY <1>1, <1>6 DEF Doing, Now
    <2> QED
      BY <1>1, <1>2, <1>3, <1>5, <2>1 DEF Aligned, QuietAlone, ResultKept, Fresh, Launching,
         InCleanup, Quiet, InPlan
  <1>8. SecretKept'
    <2> SUFFICES ASSUME mode \in {"anonymous", "appimage"},
                        at' = "remove" \/ (at' = "plan" /\ step' = Len(Plan))
                 PROVE  secret' = "written"
      BY <1>1, <1>2, <1>3 DEF SecretKept
    <2>1. /\ Plan[Len(Plan)].do = "probe" /\ Plan[Len(Plan)].arg = "read"
          /\ step \in Nat /\ ~Authenticated
      BY PlanFacts DEF LinuxInv, LinuxTypeOK, Authenticated
    <2>2. CASE InstallPackage \/ SwitchKeyring
      BY <2>1, <2>2 DEF InstallPackage, SwitchKeyring, Doing, NextStep, Now
    <2>3. CASE StartProbe
      BY <2>3 DEF StartProbe, Goto
    <2>4. CASE FinishProbe
      <3>1. Now.arg = "read"
        BY <2>1, <2>4 DEF FinishProbe, NextStep, Now
      <3> QED
        BY <2>4, <3>1 DEF FinishProbe, ProbeFinds, ProbeWrites
    <2>5. CASE StartCleanup
      BY <1>5, <2>5 DEF StartCleanup, storage, LinuxInv, SecretKept
    <2> QED
      BY <2>2, <2>3, <2>4, <2>5
  <1> QED
    BY <1>4, <1>7, <1>8 DEF LinuxInv

\* A launch begins on a cleared log, with no helper.
LEMMA LaunchKeeps ==
  ASSUME LinuxInv, [Next]_vars, Launch
  PROVE  LinuxInv'
  <1>1. mode' = mode /\ Plan' = Plan /\ Authenticated' = Authenticated
    BY ModeKept
  <1>2. UNCHANGED <<passed, result, step, helpers, installed, secret, session, registered>>
        /\ Alive' = Alive
    BY SameHelpers DEF Launch
  <1>3. ~gui /\ Alive = {} /\ passed /\ ~result
    BY DEF LinuxInv, QuietAlone, Aligned, ResultKept, Quiet, InPlan, Launch, Doing
  <1>4. /\ Now'.do = "launch" /\ step' < Len(Plan)'
        /\ at' = "window" /\ gui' = TRUE
        /\ Authenticated => log' = {}
    BY <1>1, <1>2 DEF Launch, Doing, Now, Goto
  <1>5. LinuxTypeOK'
    BY <1>2, <1>4, <1>1 DEF LinuxInv, LinuxTypeOK
  <1> QED
    BY <1>1, <1>2, <1>3, <1>4, <1>5 DEF LinuxInv, Aligned, QuietAlone, ResultKept, SecretKept,
       Fresh, Launching, InCleanup, Quiet, InPlan

\* Watching a launch, and quitting the app.
LEMMA WatchingKeeps ==
  ASSUME LinuxInv, [Next]_vars,
         \/ WaitForWindow \/ ListHelper \/ ReadLog \/ WatchOff \/ UseMenu \/ CloseAndQuit
         \/ FinishQuit
  PROVE  LinuxInv'
  <1>1. mode' = mode /\ Plan' = Plan /\ Authenticated' = Authenticated
    BY ModeKept
  <1>2. UNCHANGED <<passed, result, helpers, gui, installed, secret, session, registered, log>>
        /\ Alive' = Alive
    BY SameHelpers DEF WaitForWindow, ListHelper, ReadLog, WatchOff, UseMenu, CloseAndQuit,
       FinishQuit, machine, storage
  <1>3. at \in Launching /\ passed /\ ~result /\ Now.do = "launch" /\ step < Len(Plan)
    BY DEF LinuxInv, Aligned, ResultKept, Launching, InPlan, WaitForWindow, ListHelper,
       ReadLog, WatchOff, UseMenu, CloseAndQuit, FinishQuit
  <1>4. CASE FinishQuit
    <2>1. ~gui /\ Alive = {} /\ at' = "plan" /\ step' = step + 1 /\ step' \in Nat
      BY <1>4 DEF FinishQuit, InstalledHelperAbsent, NextStep, LinuxInv, LinuxTypeOK
    <2>2. SecretKept'
      BY <1>1, <1>2, <1>3, <2>1, PlanFacts DEF SecretKept, Now, LinuxInv, LinuxTypeOK
    <2>3. LinuxTypeOK'
      BY <1>1, <1>2, <2>1 DEF LinuxInv, LinuxTypeOK
    <2> QED
      BY <1>1, <1>2, <1>3, <2>1, <2>2, <2>3 DEF LinuxInv, Aligned, QuietAlone, ResultKept,
         Fresh, Launching, InCleanup, Quiet, InPlan
  <1>5. CASE ~FinishQuit
    <2>1. step' = step /\ at' \in Launching \ {"window"}
      <3>1. CASE WaitForWindow
        <4>1. at' = CASE mode = "appimage" -> "menu"
                    [] mode \in {"anonymous", "login"} -> "closing"
                    [] Authenticated /\ Now.arg = "on" -> "listing"
                    [] Authenticated /\ Now.arg # "on" -> "off"
          BY <3>1 DEF WaitForWindow, Goto
        <4> QED
          BY <3>1, <4>1 DEF WaitForWindow, Launching, Authenticated, LinuxInv, LinuxTypeOK,
             Modes
      <3>2. CASE ListHelper \/ ReadLog \/ WatchOff \/ UseMenu \/ CloseAndQuit
        BY <3>2 DEF ListHelper, ReadLog, WatchOff, UseMenu, CloseAndQuit, Goto, Launching
      <3> QED
        BY <1>5, <3>1, <3>2
    <2>2. Now' = Now
      BY <1>1, <2>1 DEF Now
    <2>3. at' \in {"listing", "reading"} => Authenticated
      <3>1. CASE WaitForWindow
        <4>1. at' = CASE mode = "appimage" -> "menu"
                    [] mode \in {"anonymous", "login"} -> "closing"
                    [] Authenticated /\ Now.arg = "on" -> "listing"
                    [] Authenticated /\ Now.arg # "on" -> "off"
          BY <3>1 DEF WaitForWindow, Goto
        <4> QED
          BY <4>1 DEF Authenticated, LinuxInv, LinuxTypeOK, Modes
      <3>2. CASE ListHelper \/ ReadLog
        BY <3>2 DEF ListHelper, ReadLog, LinuxInv, Fresh
      <3>3. CASE WatchOff \/ UseMenu \/ CloseAndQuit
        BY <3>3 DEF WatchOff, UseMenu, CloseAndQuit, Goto
      <3> QED
        BY <1>5, <3>1, <3>2, <3>3
    <2>4. at' = "reading" => seen' \in DOMAIN helpers /\ helpers[seen'].launch = step
      <3> SUFFICES ASSUME at' = "reading" PROVE seen' \in Alive /\ helpers[seen'].launch = step
        BY DEF Alive
      <3>1. ListHelper
        <4>1. ~WaitForWindow
          <5>1. ASSUME WaitForWindow PROVE FALSE
            <6>1. at' = CASE mode = "appimage" -> "menu"
                        [] mode \in {"anonymous", "login"} -> "closing"
                        [] Authenticated /\ Now.arg = "on" -> "listing"
                        [] Authenticated /\ Now.arg # "on" -> "off"
              BY <5>1 DEF WaitForWindow, Goto
            <6> QED
              BY <6>1 DEF Authenticated, LinuxInv, LinuxTypeOK, Modes
          <5> QED
            BY <5>1
        <4> QED
          BY <1>5, <4>1 DEF ReadLog, WatchOff, UseMenu, CloseAndQuit, Goto
      <3>2. Alive # {} /\ seen' = CHOOSE h \in Alive : TRUE
        BY <3>1 DEF ListHelper, Goto
      <3> QED
        BY <3>1, <3>2 DEF ListHelper
    <2>5. LinuxTypeOK'
      BY <1>1, <1>2, <2>1 DEF LinuxInv, LinuxTypeOK
    <2> QED
      BY <1>1, <1>2, <1>3, <2>1, <2>2, <2>3, <2>4, <2>5 DEF LinuxInv, Aligned, QuietAlone,
         ResultKept, SecretKept, Fresh, Launching, InCleanup, Quiet, InPlan
  <1> QED
    BY <1>4, <1>5

\* A step of the plan fails, or the program is interrupted.
LEMMA FailingKeeps ==
  ASSUME LinuxInv, [Next]_vars, FailStep \/ \E forced \in BOOLEAN : Terminate(forced)
  PROVE  LinuxInv'
  <1>1. mode' = mode /\ Plan' = Plan /\ Authenticated' = Authenticated
    BY ModeKept
  <1>2. UNCHANGED <<step, result, helpers, gui>> /\ Alive' = Alive
        /\ at \in InPlan \cup InCleanup \cup {"remove"} /\ passed' = FALSE
    BY SameHelpers DEF FailStep, Terminate, LeftBehind
  <1>3. /\ at' \in {"lost", "end", "stopAll", "stopGui"}
        /\ at' = "stopGui" => Authenticated
        /\ session' \in BOOLEAN /\ registered' \in BOOLEAN
    BY DEF FailStep, Terminate, LeftBehind, Goto, Unwind, Finally, CleanupSurrounds, ProbeWrites,
       LinuxInv, LinuxTypeOK
  <1>4. ~result
    BY <1>2 DEF LinuxInv, ResultKept, InPlan, InCleanup
  <1>5. LinuxTypeOK'
    BY <1>1, <1>2, <1>3 DEF LinuxInv, LinuxTypeOK
  <1> QED
    BY <1>1, <1>2, <1>3, <1>4, <1>5 DEF LinuxInv, Aligned, QuietAlone, ResultKept, SecretKept,
       Fresh, Launching, InCleanup, Quiet, InPlan

\* authenticated_cleanup, and the end.
LEMMA CleanupKeeps ==
  ASSUME LinuxInv, [Next]_vars,
         \/ \E gone \in SUBSET Alive : StopGui(gone)
         \/ HelperGone \/ KillHelper \/ AbortCleanup \/ StartUnregister \/ FinishUnregister
         \/ FailUnregister
  PROVE  LinuxInv'
  <1>1. mode' = mode /\ Plan' = Plan /\ Authenticated' = Authenticated
    BY ModeKept
  <1>2. /\ UNCHANGED <<step, result, secret, installed>> /\ at \in InCleanup
        /\ passed' \in {passed, FALSE} /\ gui' \in {gui, FALSE}
        /\ session' \in {session, FALSE} /\ registered' \in {registered, FALSE}
    BY DEF StopGui, HelperGone, KillHelper, AbortCleanup, StartUnregister, FinishUnregister,
       FailUnregister, machine, storage, InCleanup
  <1>3. ~result /\ Authenticated
    BY <1>2 DEF LinuxInv, ResultKept, Aligned, InCleanup
  <1>4. helpers' \in Seq(Helper)
    <2>1. CASE helpers' = helpers
      BY <2>1 DEF LinuxInv, LinuxTypeOK
    <2>2. CASE \E gone : Kill(gone)
      BY <2>2, Killed DEF LinuxInv, LinuxTypeOK
    <2> QED
      BY <2>1, <2>2 DEF StopGui, HelperGone, KillHelper, AbortCleanup, StartUnregister,
         FinishUnregister, FailUnregister, machine
  <1>5. LinuxTypeOK'
    BY <1>1, <1>2, <1>4 DEF LinuxInv, LinuxTypeOK
  <1>6. /\ at' \in (InCleanup \ {"stopGui"}) \cup {"stopAll", "remove"}
        /\ at' \in {"awaitHelper", "awaitKilled"} => ~gui'
        /\ at' \in Quiet => ~gui' /\ Alive' = {}
        /\ at' = "remove" => passed' /\ ~session' /\ ~registered'
    <2>1. CASE \E gone \in SUBSET Alive : StopGui(gone)
      BY <2>1 DEF StopGui, Goto, InCleanup, Quiet
    <2>2. CASE KillHelper
      BY <2>2 DEF KillHelper, Goto, InCleanup, Quiet, LinuxInv, QuietAlone
    <2>3. CASE HelperGone
      BY <2>3, SameHelpers DEF HelperGone, InstalledHelperAbsent, Goto, InCleanup, Quiet,
         LinuxInv, QuietAlone, machine
    <2>4. CASE StartUnregister \/ FinishUnregister
      BY <2>4, SameHelpers DEF StartUnregister, FinishUnregister, Goto, InCleanup, Quiet,
         LinuxInv, QuietAlone, machine
    <2>5. CASE AbortCleanup \/ FailUnregister
      BY <2>5 DEF AbortCleanup, FailUnregister, Goto, InCleanup, Quiet
    <2> QED
      BY <2>1, <2>2, <2>3, <2>4, <2>5
  <1> QED
    BY <1>1, <1>2, <1>3, <1>5, <1>6 DEF LinuxInv, Aligned, QuietAlone, ResultKept, SecretKept,
       Fresh, Launching, InCleanup, Quiet, InPlan, Authenticated

LEMMA EndKeeps ==
  ASSUME LinuxInv, [Next]_vars,
         WriteResult \/ FailRemoval \/ \E survived \in BOOLEAN : StopAll(survived)
  PROVE  LinuxInv'
  <1>1. mode' = mode /\ Plan' = Plan /\ Authenticated' = Authenticated
    BY ModeKept
  <1>2. UNCHANGED <<step, helpers, secret, session, registered>> /\ Alive' = Alive
        /\ at' \in {"stopAll", "end"}
    BY SameHelpers DEF WriteResult, FailRemoval, StopAll, machine, storage, Goto, Finally
  <1>3. LinuxTypeOK'
    BY <1>1, <1>2 DEF WriteResult, FailRemoval, StopAll, machine, LinuxInv, LinuxTypeOK
  <1>4. Aligned' /\ Fresh'
    BY <1>2 DEF Aligned, Fresh, Launching, InCleanup, InPlan
  <1>5. CASE WriteResult
    BY <1>1, <1>2, <1>3, <1>4, <1>5 DEF WriteResult, LinuxInv, Aligned, QuietAlone, ResultKept,
       SecretKept, Quiet
  <1>6. CASE FailRemoval
    <2>1. ~result
      BY <1>6 DEF FailRemoval, LinuxInv, ResultKept
    <2> QED
      BY <1>1, <1>2, <1>3, <1>4, <1>6, <2>1 DEF FailRemoval, LinuxInv, QuietAlone, ResultKept,
         SecretKept, Quiet, machine
  <1>7. CASE \E survived \in BOOLEAN : StopAll(survived)
    <2>1. UNCHANGED <<passed, result, installed>> /\ (gui' => gui)
      BY <1>7 DEF StopAll
    <2> QED
      BY <1>1, <1>2, <1>3, <1>4, <2>1 DEF LinuxInv, QuietAlone, ResultKept, SecretKept, Quiet
  <1> QED
    BY <1>5, <1>6, <1>7

\* The app and its helpers.
LEMMA AppKeeps ==
  ASSUME LinuxInv, [Next]_vars,
         GuiExits \/ HelperStarts \/ AppLosesSecret \/ AppDropsRegistration
  PROVE  LinuxInv'
  <1>1. mode' = mode /\ Plan' = Plan /\ Authenticated' = Authenticated
    BY ModeKept
  <1>2. UNCHANGED <<at, step, passed, result, seen, installed, log, session, registered>>
        /\ (gui' => gui)
        /\ gui
    BY DEF GuiExits, HelperStarts, AppLosesSecret, AppDropsRegistration, control, machine, storage
  <1>3. at \notin Quiet /\ ~result /\ Now' = Now
    BY <1>1, <1>2 DEF LinuxInv, QuietAlone, Now
  <1>4. /\ helpers' \in Seq(Helper) /\ DOMAIN helpers \subseteq DOMAIN helpers'
        /\ \A h \in DOMAIN helpers : helpers'[h] = helpers[h]
        /\ \A h \in Alive' : h \in Alive \/ helpers'[h].launch = step
    <2>1. CASE HelperStarts
      <3> DEFINE new == [alive |-> TRUE, stage |-> "silent", launch |-> step]
      <3>1. /\ helpers' = Append(helpers, new) /\ helpers \in Seq(Helper) /\ new \in Helper
            /\ new.launch = step
        BY <2>1 DEF HelperStarts, LinuxInv, LinuxTypeOK, Helper
      <3> HIDE DEF new
      <3>2. /\ helpers' \in Seq(Helper) /\ DOMAIN helpers \subseteq DOMAIN helpers'
            /\ \A h \in DOMAIN helpers : helpers'[h] = helpers[h]
            /\ \A h \in DOMAIN helpers' : h \in DOMAIN helpers \/ helpers'[h] = new
        BY <3>1
      <3> QED
        BY <3>1, <3>2 DEF Alive
    <2>2. CASE ~HelperStarts
      <3>1. helpers' = helpers
        BY <2>2 DEF GuiExits, AppLosesSecret, AppDropsRegistration, machine
      <3> QED
        BY <3>1, SameHelpers DEF LinuxInv, LinuxTypeOK
    <2> QED
      BY <2>1, <2>2
  <1>5. LinuxTypeOK'
    BY <1>1, <1>2, <1>4 DEF LinuxInv, LinuxTypeOK, GuiExits, HelperStarts, AppLosesSecret,
       AppDropsRegistration, machine
  <1>6. Fresh'
    <2>1. at \in Launching => \A h \in Alive' : helpers'[h].launch = step
      <3> SUFFICES ASSUME at \in Launching, NEW h \in Alive' PROVE helpers'[h].launch = step
        OBVIOUS
      <3>1. h \in Alive => h \in DOMAIN helpers /\ helpers[h].launch = step
        BY DEF LinuxInv, Fresh, Alive
      <3> QED
        BY <1>4, <3>1
    <2>2. Authenticated /\ at \in Launching /\ "serving" \in log =>
            \E h \in DOMAIN helpers' : helpers'[h].launch = step /\ helpers'[h].stage = "serving"
      BY <1>4 DEF LinuxInv, Fresh
    <2>3. /\ at \in {"listing", "reading"} => Authenticated
          /\ at = "reading" => seen \in DOMAIN helpers' /\ helpers'[seen].launch = step
      BY <1>4 DEF LinuxInv, Fresh
    <2> QED
      BY <1>1, <1>2, <2>1, <2>2, <2>3 DEF Fresh
  <1> QED
    BY <1>1, <1>2, <1>3, <1>5, <1>6 DEF LinuxInv, Aligned, QuietAlone, ResultKept, SecretKept,
       Quiet

LEMMA HelperKeeps ==
  ASSUME LinuxInv, [Next]_vars, NEW h \in DOMAIN helpers,
         HelperExits(h) \/ HelperAuthenticates(h) \/ HelperServes(h)
  PROVE  LinuxInv'
  <1>1. mode' = mode /\ Plan' = Plan /\ Authenticated' = Authenticated
    BY ModeKept
  <1>2. UNCHANGED <<at, step, passed, result, seen, installed, gui, session, secret>> /\ h \in Alive
    BY DEF HelperExits, HelperAuthenticates, HelperServes, control, storage
  <1>3. at \notin Quiet /\ ~result /\ Now' = Now
    BY <1>1, <1>2 DEF LinuxInv, QuietAlone, Now
  <1>4. /\ helpers' \in Seq(Helper) /\ DOMAIN helpers' = DOMAIN helpers
        /\ \A k \in DOMAIN helpers : helpers'[k].launch = helpers[k].launch
        /\ \A k \in DOMAIN helpers : helpers[k].stage = "serving" => helpers'[k].stage = "serving"
        /\ Alive' \subseteq Alive
    <2>1. CASE HelperExits(h)
      BY <2>1, Killed DEF HelperExits, LinuxInv, LinuxTypeOK
    <2>2. ASSUME NEW marker \in {"authenticated", "serving"}, Reach(h, marker),
                 helpers[h].stage # "serving"
          PROVE  <1>4
      <3>1. helpers \in Seq(Helper) /\ helpers[h] \in Helper
        BY DEF LinuxInv, LinuxTypeOK
      <3>2. /\ DOMAIN helpers' = DOMAIN helpers
            /\ \A k \in DOMAIN helpers : k # h => helpers'[k] = helpers[k]
            /\ helpers'[h] = [helpers[h] EXCEPT !.stage = marker]
        BY <2>2, <3>1 DEF Reach
      <3>3. /\ helpers'[h] \in Helper /\ helpers'[h].launch = helpers[h].launch
            /\ helpers'[h].alive = helpers[h].alive
        BY <3>1, <3>2 DEF Helper
      <3>4. helpers' \in Seq(Helper)
        <4>1. helpers' = [helpers EXCEPT ![h] = helpers'[h]]
          BY <2>2, <3>1, <3>2 DEF Reach
        <4> QED
          BY <3>1, <3>3, <4>1
      <3> QED
        BY <2>2, <3>2, <3>3, <3>4 DEF Alive
    <2> QED
      BY <2>1, <2>2 DEF HelperAuthenticates, HelperServes
  <1>5. LinuxTypeOK'
    BY <1>1, <1>2, <1>4 DEF LinuxInv, LinuxTypeOK, HelperExits, HelperAuthenticates,
       HelperServes, storage
  <1>6. Fresh'
    <2>1. "serving" \in log' =>
            "serving" \in log \/ helpers'[h].stage = "serving"
      <3>1. CASE HelperExits(h)
        BY <3>1 DEF HelperExits, storage
      <3>2. CASE HelperAuthenticates(h)
        <4>1. log' = log \cup {"authenticated"}
          BY <3>2 DEF HelperAuthenticates, Reach
        <4> QED
          BY <4>1
      <3>3. CASE HelperServes(h)
        <4>1. helpers' = [helpers EXCEPT ![h].stage = "serving"] /\ helpers[h] \in Helper
          BY <3>3 DEF HelperServes, Reach, LinuxInv, LinuxTypeOK
        <4> QED
          BY <4>1 DEF Helper
      <3> QED
        BY <3>1, <3>2, <3>3
    <2>2. at \in Launching => \A k \in Alive' : helpers'[k].launch = step
      <3> SUFFICES ASSUME at \in Launching, NEW k \in Alive' PROVE helpers'[k].launch = step
        OBVIOUS
      <3>1. k \in DOMAIN helpers /\ helpers[k].launch = step
        BY <1>4 DEF LinuxInv, Fresh, Alive
      <3> QED
        BY <1>4, <3>1
    <2>3. Authenticated /\ at \in Launching /\ "serving" \in log' =>
            \E k \in DOMAIN helpers' : helpers'[k].launch = step /\ helpers'[k].stage = "serving"
      <3> SUFFICES ASSUME Authenticated, at \in Launching, "serving" \in log'
                   PROVE  \E k \in DOMAIN helpers : /\ helpers'[k].launch = step
                                                    /\ helpers'[k].stage = "serving"
        BY <1>4
      <3>1. CASE "serving" \in log
        <4>1. PICK k \in DOMAIN helpers : helpers[k].launch = step /\ helpers[k].stage = "serving"
          BY <3>1 DEF LinuxInv, Fresh
        <4> QED
          BY <1>4, <4>1
      <3>2. CASE "serving" \notin log
        <4>1. helpers[h].launch = step
          BY <1>2 DEF LinuxInv, Fresh
        <4> QED
          BY <1>4, <2>1, <3>2, <4>1
      <3> QED
        BY <3>1, <3>2
    <2>4. /\ at \in {"listing", "reading"} => Authenticated
          /\ at = "reading" => seen \in DOMAIN helpers' /\ helpers'[seen].launch = step
      BY <1>4 DEF LinuxInv, Fresh
    <2> QED
      BY <1>1, <1>2, <2>2, <2>3, <2>4 DEF Fresh
  <1> QED
    BY <1>1, <1>2, <1>3, <1>5, <1>6 DEF LinuxInv, Aligned, QuietAlone, ResultKept, SecretKept,
       Quiet

LEMMA StepLinuxInv == LinuxInv /\ [Next]_vars => LinuxInv'
  <1> SUFFICES ASSUME LinuxInv, [Next]_vars PROVE LinuxInv'
    OBVIOUS
  <1>1. CASE InstallPackage \/ StartProbe \/ FinishProbe \/ SwitchKeyring \/ StartCleanup
    BY <1>1, PreparingKeeps
  <1>2. CASE Launch
    BY <1>2, LaunchKeeps
  <1>3. CASE \/ WaitForWindow \/ ListHelper \/ ReadLog \/ WatchOff \/ UseMenu \/ CloseAndQuit
             \/ FinishQuit
    BY <1>3, WatchingKeeps
  <1>4. CASE FailStep \/ \E forced \in BOOLEAN : Terminate(forced)
    BY <1>4, FailingKeeps
  <1>5. CASE \/ \E gone \in SUBSET Alive : StopGui(gone)
             \/ HelperGone \/ KillHelper \/ AbortCleanup \/ StartUnregister \/ FinishUnregister
             \/ FailUnregister
    BY <1>5, CleanupKeeps
  <1>6. CASE WriteResult \/ FailRemoval \/ \E survived \in BOOLEAN : StopAll(survived)
    BY <1>6, EndKeeps
  <1>7. CASE GuiExits \/ HelperStarts \/ AppLosesSecret \/ AppDropsRegistration
    BY <1>7, AppKeeps
  <1>8. CASE \E h \in DOMAIN helpers :
               HelperExits(h) \/ HelperAuthenticates(h) \/ HelperServes(h)
    BY <1>8, HelperKeeps
  <1>9. CASE UNCHANGED vars
    <2>1. UNCHANGED <<mode, at, step, passed, result, seen, installed, gui, helpers, log, secret,
                      session, registered>>
      BY <1>9 DEF vars, control, machine, storage
    <2>2. Alive' = Alive /\ Plan' = Plan /\ Authenticated' = Authenticated /\ Now' = Now
      BY <2>1, ModeKept, SameHelpers DEF Now
    <2> QED
      BY <2>1, <2>2 DEF LinuxInv, LinuxTypeOK, Aligned, QuietAlone, ResultKept, SecretKept, Fresh
  <1> QED
    BY <1>1, <1>2, <1>3, <1>4, <1>5, <1>6, <1>7, <1>8, <1>9 DEF Next, Program, Environment

-----------------------------------------------------------------------------
(* Theorems.                                                                 *)

\* The inductive invariant of the program, the app and its helpers.
THEOREM LinuxInvHolds == Spec => []LinuxInv
  BY InitLinuxInv, StepLinuxInv, PTL DEF Spec

\* The result is written of nothing less than it says, whatever the app does,
\* whatever number of helpers starts, and wherever a step fails.
THEOREM ResultsTell == Spec => []ResultTells
  <1>1. LinuxInv => ResultTells
    BY DEF LinuxInv, ResultTells, QuietAlone, ResultKept, SecretKept
  <1> QED
    BY <1>1, LinuxInvHolds, PTL

\* No app and no helper runs beside a probe with an account.
THEOREM ProbesAlwaysAlone == Spec => []ProbesRunAlone
  <1>1. LinuxInv => ProbesRunAlone
    BY DEF LinuxInv, ProbesRunAlone, QuietAlone, Quiet
  <1> QED
    BY <1>1, LinuxInvHolds, PTL

\* A launch is found ready by what its own helpers did.
THEOREM ReadinessAlwaysFresh == Spec => ReadinessIsFresh
  <1>1. LinuxInv /\ [Next]_vars =>
          [at = "reading" /\ at' = "closing" =>
             /\ helpers[seen].launch = step
             /\ \E h \in DOMAIN helpers :
                  helpers[h].launch = step /\ helpers[h].stage = "serving"]_vars
    <2> SUFFICES ASSUME LinuxInv, Next, at = "reading", at' = "closing"
                 PROVE  /\ helpers[seen].launch = step
                        /\ \E h \in DOMAIN helpers :
                             helpers[h].launch = step /\ helpers[h].stage = "serving"
      OBVIOUS
    <2>1. ReadLog
      BY DEF Next, Program, Environment, FailStep, Terminate, Unwind, Finally, InstallPackage,
         StartProbe, FinishProbe, SwitchKeyring, Launch, WaitForWindow, ListHelper, WatchOff,
         UseMenu, CloseAndQuit, FinishQuit, StartCleanup, StopGui, HelperGone, KillHelper,
         AbortCleanup, StartUnregister, FinishUnregister, FailUnregister, WriteResult,
         FailRemoval, StopAll, GuiExits, HelperStarts, HelperExits, HelperAuthenticates,
         HelperServes, AppLosesSecret, AppDropsRegistration, Doing, Goto, NextStep, control
    <2> QED
      BY <2>1 DEF ReadLog, Goto, LinuxInv, Fresh, Launching
  <1> QED
    BY <1>1, LinuxInvHolds, PTL DEF Spec, ReadinessIsFresh
=============================================================================
