------------------------------ MODULE PluginSlot ------------------------------
(***************************************************************************)
(* One slot of PluginRuntime: a plugin is started on demand as a new       *)
(* generation, operations hold leases on it and enter durable commits, and *)
(* a command (stop, restart, disable), a failure, an authentication loss   *)
(* or the disposal of the runtime takes it down.  Each of these is a       *)
(* coroutine that suspends between the actions below and finds the slot    *)
(* changed when it resumes.  A plugin, its start and its residency         *)
(* controller are named by their generation; 0 is null.                    *)
(* shutdown() of a plugin is idempotent: all its callers await one end.    *)
(***************************************************************************)
EXTENDS Naturals, FiniteSets

CONSTANTS Ops,             \* concurrent callers of use, useAndCommit, commitCurrentGeneration
          MaxGenerations,  \* bound: generations started
          MaxFailures,     \* bound: shutdowns of a plugin that fail
          MaxDisposals     \* bound: whether dispose() is called

ASSUME SlotAssumption ==
  MaxGenerations \in Nat /\ MaxFailures \in Nat /\ MaxDisposals \in {0, 1}

VARIABLES
  gate, startAllowed,           \* accessGate; startAllowed
  generation, state, transition,
  plugin,                       \* the generation whose plugin the slot holds
  residency,                    \* the generation whose residency controller it holds
  startFuture, startAt,         \* the start under way, and where it is suspended
  aborted, outcome,             \* starts that were aborted; how each start ended
  cmd,                          \* commandTransition and the locals of its command
  cleanups, cleanupFuture,      \* the cleanup coroutines; the slot's latest
  ops,                          \* the operations' phases and the generation of their leases
  life,                         \* each generation's backend
  shuttingDown, disposal

access == <<gate, startAllowed>>
starts == <<startFuture, startAt, aborted, outcome>>
waiters == <<cmd, cleanups, disposal>>
vars == <<access, generation, state, transition, plugin, residency, starts,
          cleanupFuture, ops, life, shuttingDown, waiters>>

Gens == 1..MaxGenerations
Cleanups == Gens \X {"retire", "auth"}
NoCleanup == <<0, "none">>
NoCommand == [kind |-> "none", force |-> FALSE, at |-> "none", wait |-> "none",
              start |-> 0, cleanup |-> NoCleanup, plugin |-> 0, failed |-> FALSE]

Cleanup(at) == [at |-> at, wait |-> "none", start |-> 0, clean |-> FALSE]

Leased == {o \in Ops : ops[o].phase \in {"leased", "committing"}}
Committing == {o \in Ops : ops[o].phase = "committing"}

Init ==
  /\ gate = "enabled" /\ startAllowed = TRUE
  /\ generation = 0 /\ state = "dormant" /\ transition = "none"
  /\ plugin = 0 /\ residency = 0
  /\ startFuture = 0 /\ startAt = "none" /\ aborted = {}
  /\ outcome = [g \in Gens |-> "none"]
  /\ cmd = NoCommand
  /\ cleanups = [k \in Cleanups |-> Cleanup("none")]
  /\ cleanupFuture = NoCleanup
  /\ ops = [o \in Ops |-> [phase |-> "idle", gen |-> 0]]
  /\ life = [g \in Gens |-> "none"]
  /\ shuttingDown = FALSE
  /\ disposal = [at |-> "none", wait |-> "none", start |-> 0, cleanup |-> NoCleanup,
                 plugin |-> 0]

Blocks == transition \in {"stopping", "restarting"}
Routable == /\ gate = "enabled" /\ startAllowed
            /\ ~Blocks
            /\ plugin # 0 /\ state = "active"
HadPlugin == plugin # 0 \/ startFuture # 0

StartEnded(g) == g # 0 => outcome[g] # "none"
CleanupEnded(k) == k # NoCleanup => cleanups[k].at = "done"
ShutDown(g) == g # 0 => life[g] \in {"down", "failed"}
Closing(g) == [h \in Gens |-> IF h = g /\ life[h] = "alive" THEN "closing" ELSE life[h]]
ResidencyAfter(g) == IF g # 0 /\ life[g] = "failed" THEN residency ELSE 0

\* Fault: durable commits are not waited for.
NoCommitWait == "none"

\* _waitForLeaseDrain and _waitForDurableCommits complete at once, or when the
\* count next reaches 0.
LeaseWait == IF shuttingDown \/ Leased = {} THEN "none" ELSE "leases"
CommitWait == IF Committing = {} THEN "none" ELSE "commits"

-------------------------------------------------------------------------------
(* Leases. *)

\* Fault: the waiters of a count that reached 0 are not woken.
OpsBecomeQuietly(next, some) ==
  ops' = next /\ cleanups' = some /\ UNCHANGED <<cmd, disposal>>

\* The operations become next, the cleanups some: waiters whose count reached 0 are woken.
OpsAndCleanupsBecome(next, some) ==
  LET phases == {next[o].phase : o \in Ops}
      woken == (IF phases \cap {"leased", "committing"} = {} THEN {"leases"} ELSE {})
                 \cup (IF "committing" \notin phases THEN {"commits"} ELSE {})
      Wake(c) == IF c.wait \in woken THEN [c EXCEPT !.wait = "none"] ELSE c
  IN  /\ ops' = next
      /\ cmd' = Wake(cmd)
      /\ cleanups' = [k \in Cleanups |-> Wake(some[k])]
      /\ disposal' = Wake(disposal)

OpsBecome(next) == OpsAndCleanupsBecome(next, cleanups)

OpIs(o, phase, g) == [ops EXCEPT ![o] = [phase |-> phase, gen |-> g]]

\* _beginStart: a new generation with its own residency controller.
BeginStart(kind) ==
  /\ generation < MaxGenerations
  /\ generation' = generation + 1
  /\ residency' = generation + 1
  /\ transition' = kind
  /\ state' = "starting"
  /\ startFuture' = generation + 1
  /\ startAt' = "provisioning"
  /\ UNCHANGED <<aborted, outcome>>

\* _acquire before a start is awaited: admitted, and what it then finds.
Admitted(o) == ops[o].phase = "idle" /\ ~shuttingDown /\ gate = "enabled"
                 /\ startAllowed /\ ~Blocks

AcquireLive(o) ==
  /\ Admitted(o) /\ Routable
  /\ OpsBecome(OpIs(o, "leased", generation))
  /\ UNCHANGED <<access, generation, state, transition, plugin, residency, starts,
                 cleanupFuture, life, shuttingDown>>

AcquireJoining(o) ==
  /\ Admitted(o) /\ ~Routable
  /\ startFuture # 0
  /\ OpsBecome(OpIs(o, "starting", startFuture))
  /\ UNCHANGED <<access, generation, state, transition, plugin, residency, starts,
                 cleanupFuture, life, shuttingDown>>

AcquireStarting(o) ==
  /\ Admitted(o) /\ ~Routable
  /\ startFuture = 0 /\ transition = "none"
  /\ BeginStart("starting")
  /\ OpsBecome(OpIs(o, "starting", generation + 1))
  /\ UNCHANGED <<access, plugin, cleanupFuture, life, shuttingDown>>

\* Fault: after the start, only the plugin is looked at, not a command's transition.
HasPlugin == plugin # 0 /\ state = "active"

RoutableAfterStart == Routable

\* The start it awaited has ended; the conditions are checked again.
AcquireResumes(o) ==
  LET g == ops[o].gen
      granted == outcome[g] = "answered" /\ RoutableAfterStart
  IN  /\ ops[o].phase = "starting"
      /\ StartEnded(g)
      /\ OpsBecome(IF granted THEN OpIs(o, "leased", generation) ELSE OpIs(o, "idle", 0))
      /\ UNCHANGED <<access, generation, state, transition, plugin, residency, starts,
                     cleanupFuture, life, shuttingDown>>

\* Fault: a commit is entered whatever became of the lease's generation.
StillLeased(o) == ops[o].phase = "leased"

\* _requireCurrentGeneration of the lease.
Current(o) == Routable /\ generation = ops[o].gen /\ plugin = ops[o].gen

BeginCommit(o) ==
  /\ ops[o].phase = "leased"
  /\ Current(o)
  /\ OpsBecome(OpIs(o, "committing", ops[o].gen))
  /\ UNCHANGED <<access, generation, state, transition, plugin, residency, starts,
                 cleanupFuture, life, shuttingDown>>

\* commitCurrentGeneration: lease and commit in one step.
CommitCurrent(o) ==
  /\ ops[o].phase = "idle" /\ ~shuttingDown
  /\ Routable
  /\ OpsBecome(OpIs(o, "committing", generation))
  /\ UNCHANGED <<access, generation, state, transition, plugin, residency, starts,
                 cleanupFuture, life, shuttingDown>>

\* The operation returns or throws; a commit ends with its lease.
Release(o) ==
  /\ o \in Leased
  /\ OpsBecome(OpIs(o, "idle", 0))
  /\ UNCHANGED <<access, generation, state, transition, plugin, residency, starts,
                 cleanupFuture, life, shuttingDown>>

-------------------------------------------------------------------------------
(* The start of a generation. *)

\* The start's future completes; _beginStart's whenComplete clears its transition.
EndStart(how) ==
  /\ outcome' = [outcome EXCEPT ![startFuture] = how]
  /\ startFuture' = 0
  /\ startAt' = "none"
  /\ aborted' = aborted \ {startFuture}
  /\ transition' = IF transition = "starting" THEN "none" ELSE transition

Unwanted == shuttingDown \/ startFuture \in aborted

\* The command start(), or the bridge's eager start.
StartEagerly ==
  /\ ~shuttingDown /\ gate = "enabled" /\ startAllowed
  /\ ~Routable /\ startFuture = 0 /\ transition = "none"
  /\ BeginStart("starting")
  /\ UNCHANGED <<access, plugin, cleanupFuture, ops, life, shuttingDown, waiters>>

\* The factory delivers a plugin that is still wanted.
StartSucceeds ==
  /\ startAt = "provisioning" /\ ~Unwanted
  /\ plugin' = startFuture
  /\ state' = "active"
  /\ life' = [life EXCEPT ![startFuture] = "alive"]
  /\ EndStart("answered")
  /\ UNCHANGED <<access, generation, residency, cleanupFuture, ops, shuttingDown, waiters>>

\* It delivers an invalid plugin, or one nobody wants: that one is shut down first.
StartDiscards ==
  /\ startAt = "provisioning"
  /\ startAt' = IF Unwanted THEN "unwanted" ELSE "invalid"
  /\ state' = IF Unwanted THEN state ELSE "failed"
  /\ life' = [life EXCEPT ![startFuture] = "closing"]
  /\ UNCHANGED <<access, generation, transition, plugin, residency, startFuture, aborted,
                 outcome, cleanupFuture, ops, shuttingDown, waiters>>

StartDiscarded ==
  /\ startAt \in {"unwanted", "invalid"}
  /\ ShutDown(startFuture)
  /\ state' = "failed"
  /\ EndStart(IF startAt = "invalid" THEN "answered"
              ELSE IF life[startFuture] = "failed" THEN "error" ELSE "aborted")
  /\ UNCHANGED <<access, generation, plugin, residency, cleanupFuture, ops, life,
                 shuttingDown, waiters>>

\* It delivers nothing: the plugin failed to start, the start was aborted, or the
\* bridge's own startup infrastructure failed.
StartFails ==
  /\ startAt = "provisioning"
  /\ state' = "failed"
  /\ \E how \in {"answered", "error"} \cup (IF Unwanted THEN {"aborted"} ELSE {}) : EndStart(how)
  /\ UNCHANGED <<access, generation, plugin, residency, cleanupFuture, ops, life,
                 shuttingDown, waiters>>

\* BridgePlugin.shutdown() ends for all its callers.
ShutdownEnds(g) ==
  /\ life[g] = "closing"
  /\ \/ life' = [life EXCEPT ![g] = "down"]
     \/ /\ Cardinality({h \in Gens : life[h] = "failed"}) < MaxFailures
        /\ life' = [life EXCEPT ![g] = "failed"]
  /\ UNCHANGED <<access, generation, state, transition, plugin, residency, starts,
                 cleanupFuture, ops, shuttingDown, waiters>>

-------------------------------------------------------------------------------
(* Commands: stop, restart, and the two halves of disable. *)

\* A forced command may take over a start, or a plugin stuck while stopping.
CanTakeOver ==
  /\ cleanupFuture = NoCleanup
  /\ \/ transition = "starting"
     \/ transition = "stopping" /\ plugin # 0

NoLeaseInUse == HadPlugin => Leased = {}

CommandBegins(kind, force) ==
  /\ ~shuttingDown /\ gate = "enabled" /\ cmd = NoCommand
  /\ transition = "none" \/ (force /\ CanTakeOver)
  /\ force \/ NoLeaseInUse
  /\ kind = "stop" => HadPlugin
  /\ kind = "restart" => startAllowed /\ generation < MaxGenerations
  /\ transition' = IF kind = "restart" THEN "restarting" ELSE "stopping"
  /\ gate' = IF kind = "disable" THEN "draining" ELSE gate
  /\ aborted' = IF force /\ startFuture # 0 THEN aborted \cup {startFuture} ELSE aborted
  /\ cmd' = [NoCommand EXCEPT !.kind = kind, !.force = force, !.start = startFuture,
               !.at = IF kind = "disable" /\ ~HadPlugin THEN "prepared" ELSE "start"]
  /\ UNCHANGED <<startAllowed, generation, state, plugin, residency, startFuture, startAt,
                 outcome, cleanupFuture, ops, life, shuttingDown, cleanups, disposal>>

\* Only the command's own locals change.
CommandOnly == UNCHANGED <<access, generation, state, transition, plugin, residency, starts,
                           cleanupFuture, ops, life, shuttingDown, cleanups, disposal>>

CommandPastStart ==
  /\ cmd.at = "start" /\ StartEnded(cmd.start)
  /\ cmd' = [cmd EXCEPT !.at = "cleanup", !.start = 0, !.cleanup = cleanupFuture,
               !.failed = /\ cmd.start # 0
                          /\ \/ outcome[cmd.start] = "error"
                             \/ outcome[cmd.start] = "aborted" /\ ~cmd.force /\ ~shuttingDown]
  /\ CommandOnly

CommandPastCleanup ==
  /\ cmd.at = "cleanup" /\ CleanupEnded(cmd.cleanup)
  /\ cmd' = IF cmd.force /\ plugin # 0
            THEN [cmd EXCEPT !.at = "leases", !.wait = LeaseWait, !.plugin = plugin,
                             !.cleanup = NoCleanup]
            ELSE [cmd EXCEPT !.at = "commits", !.wait = CommitWait, !.plugin = plugin,
                             !.cleanup = NoCleanup]
  /\ CommandOnly

CommandPastLeases ==
  /\ cmd.at = "leases" /\ cmd.wait = "none"
  /\ cmd' = [cmd EXCEPT !.at = "commits", !.wait = CommitWait]
  /\ CommandOnly

Barrier == cmd.force /\ cmd.plugin # 0

\* The barrier is drained: work is interrupted and handed off before the take-down.
CommandInterrupts ==
  /\ cmd.at = "commits" /\ cmd.wait = "none" /\ Barrier
  /\ cmd' = [cmd EXCEPT !.at = "interrupt"]
  /\ CommandOnly

TakeDown ==
  /\ plugin' = 0
  /\ state' = "stopping"
  /\ life' = Closing(cmd.plugin)
  /\ cmd' = [cmd EXCEPT !.at = "shutdown", !.wait = "none"]
  /\ UNCHANGED <<access, generation, transition, residency, starts, cleanupFuture, ops,
                 shuttingDown, cleanups, disposal>>

CommandTakesDown ==
  /\ \/ cmd.at = "commits" /\ cmd.wait = "none" /\ ~Barrier
     \/ cmd.at = "interrupt"
  /\ TakeDown

\* The budget of the forced barrier elapses while it waits.
BarrierTimesOut ==
  /\ cmd.at \in {"leases", "commits"} /\ cmd.wait # "none" /\ Barrier
  /\ TakeDown

CommandDown == cmd.at = "shutdown" /\ ShutDown(cmd.plugin)

CommandFailed == cmd.failed \/ (cmd.plugin # 0 /\ life[cmd.plugin] = "failed")

\* Fault: the transition is left behind, or the command's completer.
SettleInTransition == cmd' = NoCommand /\ UNCHANGED transition
SettleUnanswered == transition' = "none" /\ UNCHANGED cmd

\* _settleCommandTransition.
Settle == cmd' = NoCommand /\ transition' = "none"

CommandFails ==
  /\ CommandDown /\ CommandFailed
  /\ residency' = ResidencyAfter(cmd.plugin)
  /\ state' = "failed"
  /\ gate' = IF cmd.kind = "disable" THEN "enabled" ELSE gate
  /\ Settle
  /\ UNCHANGED <<startAllowed, generation, plugin, starts, cleanupFuture, ops, life,
                 shuttingDown, cleanups, disposal>>

StopApplied ==
  /\ CommandDown /\ ~CommandFailed
  /\ cmd.kind = "stop" \/ (cmd.kind = "restart" /\ shuttingDown)
  /\ residency' = 0
  /\ state' = "dormant"
  /\ Settle
  /\ UNCHANGED <<access, generation, plugin, starts, cleanupFuture, ops, life,
                 shuttingDown, cleanups, disposal>>

DisablePrepared ==
  /\ CommandDown /\ ~CommandFailed /\ cmd.kind = "disable"
  /\ residency' = 0
  /\ state' = "dormant"
  /\ cmd' = [cmd EXCEPT !.at = "prepared", !.plugin = 0]
  /\ UNCHANGED <<access, generation, transition, plugin, starts, cleanupFuture, ops, life,
                 shuttingDown, cleanups, disposal>>

RestartStarts ==
  /\ CommandDown /\ ~CommandFailed /\ cmd.kind = "restart" /\ ~shuttingDown
  /\ BeginStart("restarting")
  /\ cmd' = [cmd EXCEPT !.at = "restart", !.start = generation + 1, !.plugin = 0]
  /\ UNCHANGED <<access, plugin, cleanupFuture, ops, life, shuttingDown, cleanups, disposal>>

CommandRestarted ==
  /\ cmd.at = "restart" /\ StartEnded(cmd.start)
  /\ state' = IF outcome[cmd.start] \in {"aborted", "error"} THEN "failed" ELSE state
  /\ Settle
  /\ UNCHANGED <<access, generation, plugin, residency, starts, cleanupFuture, ops, life,
                 shuttingDown, cleanups, disposal>>

\* The setting was persisted, or was not.
DisableEnds ==
  /\ cmd.at = "prepared"
  /\ \/ gate' = "disabled" /\ startAllowed' = FALSE
     \/ gate' = "enabled" /\ UNCHANGED startAllowed
  /\ state' = "dormant"
  /\ Settle
  /\ UNCHANGED <<generation, plugin, residency, starts, cleanupFuture, ops, life,
                 shuttingDown, cleanups, disposal>>

\* applyAccess after a setup inspection, which also follows an enabling.
ApplyAccess(ready) ==
  /\ gate # "draining"
  /\ gate' = "enabled" /\ startAllowed' = ready
  /\ UNCHANGED <<generation, state, transition, plugin, residency, starts, cleanupFuture,
                 ops, life, shuttingDown, waiters>>

-------------------------------------------------------------------------------
(* Generations that end by themselves. *)

Reporting == plugin # 0 /\ generation = plugin /\ ~shuttingDown

PluginStopping ==
  /\ Reporting /\ cleanups[<<plugin, "retire">>].at # "dropped"
  /\ state' = "stopping"
  /\ transition' = IF cmd = NoCommand THEN "stopping" ELSE transition
  /\ UNCHANGED <<access, generation, plugin, residency, starts, cleanupFuture, ops, life,
                 shuttingDown, waiters>>

\* _retireGeneration while a cleanup is pending, if only that of an earlier
\* generation: the plugin's last status, stopped or failed, is forgotten, not put off.
ReportIsDropped ==
  /\ Reporting /\ cleanupFuture # NoCleanup
  /\ cleanups[<<plugin, "retire">>].at = "none"
  /\ cleanups' = [cleanups EXCEPT ![<<plugin, "retire">>] = Cleanup("dropped")]
  /\ UNCHANGED <<access, generation, state, transition, plugin, residency, starts,
                 cleanupFuture, ops, life, shuttingDown, cmd, disposal>>

\* _retireGeneration: the plugin stopped or failed, or one of its streams ended.
Retire(clean) ==
  /\ Reporting /\ cleanupFuture = NoCleanup
  /\ state' = "stopping"
  /\ transition' = IF cmd = NoCommand THEN "stopping" ELSE transition
  /\ cleanupFuture' = <<plugin, "retire">>
  /\ cleanups' = [cleanups EXCEPT ![<<plugin, "retire">>] =
                    [at |-> "commits", wait |-> CommitWait, start |-> 0, clean |-> clean]]
  /\ UNCHANGED <<access, generation, plugin, residency, starts, ops, life, shuttingDown,
                 cmd, disposal>>

Holds(g) == generation = g /\ plugin = g

RetireTakesDown(g) ==
  LET k == <<g, "retire">>
  IN  /\ cleanups[k].at = "commits" /\ cleanups[k].wait = "none"
      /\ Holds(g)
      /\ plugin' = 0
      /\ state' = IF cleanups[k].clean THEN "stopping" ELSE "failed"
      /\ life' = Closing(g)
      /\ cleanups' = [cleanups EXCEPT ![k].at = "shutdown"]
      /\ UNCHANGED <<access, generation, transition, residency, starts, cleanupFuture, ops,
                     shuttingDown, cmd, disposal>>

\* The generation is no longer the slot's: another coroutine took it down.
RetireIsStale(g) ==
  LET k == <<g, "retire">>
  IN  /\ cleanups[k].at = "commits" /\ cleanups[k].wait = "none"
      /\ ~Holds(g)
      /\ cleanups' = [cleanups EXCEPT ![k].at = "start", ![k].start = startFuture]
      /\ UNCHANGED <<access, generation, state, transition, plugin, residency, starts,
                     cleanupFuture, ops, life, shuttingDown, cmd, disposal>>

RetireIsDown(g) ==
  LET k == <<g, "retire">>
  IN  /\ cleanups[k].at = "shutdown" /\ ShutDown(g)
      /\ residency' = ResidencyAfter(g)
      /\ state' = IF cleanups[k].clean /\ generation = g /\ state = "stopping"
                  THEN IF life[g] = "down" THEN "dormant" ELSE "failed"
                  ELSE state
      /\ cleanups' = [cleanups EXCEPT ![k].at = "start", ![k].start = startFuture]
      /\ UNCHANGED <<access, generation, transition, plugin, starts, cleanupFuture, ops,
                     life, shuttingDown, cmd, disposal>>

Forget(k) == cleanupFuture' = IF cleanupFuture = k THEN NoCleanup ELSE cleanupFuture

RetireSettles(g) ==
  LET k == <<g, "retire">>
  IN  /\ cleanups[k].at = "start" /\ StartEnded(cleanups[k].start)
      /\ Forget(k)
      /\ transition' = IF cmd = NoCommand /\ generation = g /\ transition = "stopping"
                       THEN "none" ELSE transition
      /\ cleanups' = [cleanups EXCEPT ![k] = Cleanup("done")]
      /\ UNCHANGED <<access, generation, state, plugin, residency, starts, ops, life,
                     shuttingDown, cmd, disposal>>

\* _handleGenerationAuthenticationRequired for the slot's plugin.
LoseAuthentication ==
  /\ startAllowed' = FALSE
  /\ IF cleanupFuture # NoCleanup /\ transition = "stopping"
     THEN UNCHANGED <<state, transition, cleanupFuture>>
     ELSE /\ state' = "stopping" /\ transition' = "stopping"
          /\ cleanupFuture' = <<plugin, "auth">>

\* The coroutine it starts is suspended at once.
AuthCleanup ==
  IF cleanupFuture # NoCleanup /\ transition = "stopping" THEN cleanups
  ELSE [cleanups EXCEPT ![<<plugin, "auth">>].at = "begin"]

\* The event stream reports it, once in a generation.
StreamLosesAuthentication ==
  /\ Reporting /\ cleanups[<<plugin, "auth">>].at = "none"
  /\ LoseAuthentication
  /\ cleanups' = AuthCleanup
  /\ UNCHANGED <<gate, generation, plugin, residency, starts, ops, life, shuttingDown,
                 cmd, disposal>>

\* An operation runs into it, and releases its lease in the same step.
OperationLosesAuthentication(o) ==
  /\ ops[o].phase = "leased"
  /\ Holds(ops[o].gen)
  /\ LoseAuthentication
  /\ OpsAndCleanupsBecome(OpIs(o, "idle", 0), AuthCleanup)
  /\ UNCHANGED <<gate, generation, plugin, residency, starts, life, shuttingDown>>

AuthDrains(g) ==
  LET k == <<g, "auth">>
  IN  /\ cleanups[k].at = "begin"
      /\ cleanups' = [cleanups EXCEPT ![k].at = "leases", ![k].wait = LeaseWait]
      /\ UNCHANGED <<access, generation, state, transition, plugin, residency, starts,
                     cleanupFuture, ops, life, shuttingDown, cmd, disposal>>

AuthTakesDown(g) ==
  LET k == <<g, "auth">>
  IN  /\ cleanups[k].at = "leases" /\ cleanups[k].wait = "none"
      /\ Holds(g)
      /\ plugin' = 0
      /\ life' = Closing(g)
      /\ cleanups' = [cleanups EXCEPT ![k].at = "shutdown"]
      /\ UNCHANGED <<access, generation, state, transition, residency, starts,
                     cleanupFuture, ops, shuttingDown, cmd, disposal>>

\* The finally of the authentication cleanup, of a stale one too.
AuthSettles(g) ==
  LET k == <<g, "auth">>
  IN  /\ \/ cleanups[k].at = "leases" /\ cleanups[k].wait = "none" /\ ~Holds(g)
            /\ UNCHANGED residency
         \/ cleanups[k].at = "shutdown" /\ ShutDown(g)
            /\ residency' = ResidencyAfter(g)
      /\ Forget(k)
      /\ state' = IF generation = g THEN "blocked" ELSE state
      /\ transition' = IF generation = g /\ cmd = NoCommand THEN "none" ELSE transition
      /\ cleanups' = [cleanups EXCEPT ![k] = Cleanup("done")]
      /\ UNCHANGED <<access, generation, plugin, starts, ops, life, shuttingDown, cmd,
                     disposal>>

-------------------------------------------------------------------------------
(* beginShutdown() and dispose(). *)

BeginShutdown ==
  /\ ~shuttingDown
  /\ shuttingDown' = TRUE
  /\ aborted' = IF startFuture # 0 THEN aborted \cup {startFuture} ELSE aborted
  /\ LET Wake(c) == IF c.wait = "leases" THEN [c EXCEPT !.wait = "none"] ELSE c
     IN  cmd' = Wake(cmd) /\ cleanups' = [k \in Cleanups |-> Wake(cleanups[k])]
  /\ UNCHANGED <<access, generation, state, transition, plugin, residency, startFuture,
                 startAt, outcome, cleanupFuture, ops, life, disposal>>

DisposeOnly == UNCHANGED <<access, generation, state, transition, plugin, residency, starts,
                           cleanupFuture, ops, shuttingDown, cmd, cleanups>>

DisposeBegins ==
  /\ shuttingDown /\ disposal.at = "none" /\ MaxDisposals = 1
  /\ disposal' = [disposal EXCEPT !.at = "start", !.start = startFuture]
  /\ UNCHANGED life /\ DisposeOnly

DisposePastStart ==
  /\ disposal.at = "start" /\ StartEnded(disposal.start)
  /\ disposal' = [disposal EXCEPT !.at = "cleanup", !.start = 0, !.cleanup = cleanupFuture]
  /\ UNCHANGED life /\ DisposeOnly

\* No command begins any more, so it is this one's completer that is awaited.
DisposePastCommand ==
  /\ disposal.at = "cleanup" /\ CleanupEnded(disposal.cleanup)
  /\ cmd = NoCommand
  /\ disposal' = [disposal EXCEPT !.at = "commits", !.wait = CommitWait,
                                      !.cleanup = NoCleanup]
  /\ UNCHANGED life /\ DisposeOnly

DisposeTakesDown ==
  /\ disposal.at = "commits" /\ disposal.wait = "none"
  /\ disposal' = [disposal EXCEPT !.at = "shutdown", !.plugin = plugin]
  /\ life' = Closing(plugin)
  /\ DisposeOnly

DisposeEnds ==
  /\ disposal.at = "shutdown" /\ ShutDown(disposal.plugin)
  /\ residency' = ResidencyAfter(disposal.plugin)
  /\ disposal' = [disposal EXCEPT !.at = "done", !.plugin = 0]
  /\ UNCHANGED <<access, generation, state, transition, plugin, starts, cleanupFuture, ops,
                 life, shuttingDown, cmd, cleanups>>

-------------------------------------------------------------------------------
StartSteps == StartSucceeds \/ StartDiscards \/ StartDiscarded \/ StartFails
CommandSteps == \/ CommandPastStart \/ CommandPastCleanup \/ CommandPastLeases
                \/ CommandInterrupts \/ CommandTakesDown \/ BarrierTimesOut
                \/ CommandFails \/ StopApplied \/ DisablePrepared \/ RestartStarts
                \/ CommandRestarted \/ DisableEnds
CleanupSteps(g) == \/ RetireTakesDown(g) \/ RetireIsStale(g) \/ RetireIsDown(g)
                   \/ RetireSettles(g) \/ AuthDrains(g) \/ AuthTakesDown(g) \/ AuthSettles(g)
DisposeSteps == \/ DisposePastStart \/ DisposePastCommand \/ DisposeTakesDown \/ DisposeEnds

Next ==
  \/ \E o \in Ops : \/ AcquireLive(o) \/ AcquireJoining(o) \/ AcquireStarting(o)
                    \/ AcquireResumes(o) \/ BeginCommit(o) \/ CommitCurrent(o) \/ Release(o)
                    \/ OperationLosesAuthentication(o)
  \/ StartEagerly \/ StartSteps
  \/ \E kind \in {"stop", "restart", "disable"}, force \in BOOLEAN : CommandBegins(kind, force)
  \/ CommandSteps
  \/ \E ready \in BOOLEAN : ApplyAccess(ready)
  \/ PluginStopping \/ ReportIsDropped \/ (\E clean \in BOOLEAN : Retire(clean))
  \/ StreamLosesAuthentication
  \/ \E g \in Gens : ShutdownEnds(g) \/ CleanupSteps(g)
  \/ BeginShutdown \/ DisposeBegins \/ DisposeSteps

Spec == Init /\ [][Next]_vars

\* A plugin that reported stopping reports its end, once; the report is heard or not.
PluginEnds ==
  /\ plugin # 0 /\ state = "stopping"
  /\ cleanups[<<plugin, "retire">>].at = "none"
  /\ ReportIsDropped \/ \E clean \in BOOLEAN : Retire(clean)

(* Starts, shutdowns and operations end, a prepared disable is settled by its *)
(* caller, and the event loop resumes every coroutine that can go on.          *)
Fairness ==
  /\ WF_vars(StartSteps) /\ WF_vars(CommandSteps) /\ WF_vars(DisposeSteps)
  /\ WF_vars(PluginEnds)
  /\ \A g \in Gens : WF_vars(ShutdownEnds(g)) /\ WF_vars(CleanupSteps(g))
  /\ \A o \in Ops : WF_vars(AcquireResumes(o)) /\ WF_vars(Release(o))

FairSpec == Spec /\ Fairness

-------------------------------------------------------------------------------
Kinds == {"none", "stop", "restart", "disable"}
(* The values of the variables. *)
TypeOK ==
  /\ gate \in {"enabled", "draining", "disabled"} /\ startAllowed \in BOOLEAN
  /\ generation \in 0..MaxGenerations
  /\ state \in {"dormant", "starting", "active", "stopping", "failed", "blocked"}
  /\ transition \in {"none", "starting", "stopping", "restarting"}
  /\ {plugin, residency, startFuture} \subseteq 0..generation
  /\ startAt \in {"none", "provisioning", "unwanted", "invalid"}
  /\ aborted \subseteq {startFuture} \ {0}
  /\ outcome \in [Gens -> {"none", "answered", "aborted", "error"}]
  /\ cmd.kind \in Kinds
  /\ cleanupFuture \in Cleanups \cup {NoCleanup}
  /\ ops \in [Ops -> [phase : {"idle", "starting", "leased", "committing"}, gen : 0..generation]]
  /\ life \in [Gens -> {"none", "alive", "closing", "down", "failed"}]
  /\ shuttingDown \in BOOLEAN

(* A transition, which turns every operation and command away, has a coroutine *)
(* that will end it: a command, a start or a cleanup (_settleCommandTransition, *)
(* _beginStart, _retireGeneration and the authentication cleanup each clear     *)
(* their own); or the slot's plugin has said it is stopping, and its end is     *)
(* still to be reported, or was and nobody heard it.                            *)
(* (Its first conjunct is the type invariant.)                                 *)
TransitionOwned ==
  /\ TypeOK
  /\ transition # "none" =>
       \/ cmd # NoCommand
       \/ startFuture # 0
       \/ cleanupFuture # NoCleanup
       \/ plugin # 0 /\ state = "stopping"

(* A safe command saw no lease, once, before it began to wait for a start and a  *)
(* cleanup; still no operation holds one on the plugin it is about to take down. *)
SafeCommandSpares ==
  cmd # NoCommand /\ ~cmd.force /\ plugin # 0 => \A o \in Leased : ops[o].gen # plugin

(* A plugin is taken out of the slot, or replaced, under an entered durable      *)
(* commit only when a forced command's budget elapsed or the bridge is shutting  *)
(* down: every cleanup waits for the commits, whichever coroutine overtakes it.  *)
CommitsOutlastTakeDowns ==
  [][plugin # 0 /\ plugin' # plugin =>
       \/ \A o \in Committing : ops[o].gen # plugin
       \/ BarrierTimesOut
       \/ shuttingDown]_vars

(* A lease is granted, and a durable commit entered, only on a backend nobody    *)
(* has begun to shut down: what _acquire checks again after a start and          *)
(* _requireCurrentGeneration before a commit is enough to know it.               *)
LeasesOnLiveBackends ==
  [][\A o \in Ops : ops'[o].phase \in {"leased", "committing"} /\ ops'[o] # ops[o] =>
       shuttingDown \/ life[ops'[o].gen] = "alive"]_vars

(* What _shutdownThenExit is told of the ordered shutdown, "a hard exit can never *)
(* orphan the backend process": once dispose() has answered, no backend is left   *)
(* that was never told to shut down.                                              *)
NoBackendOutlivesDispose == disposal.at = "done" => \A g \in Gens : life[g] # "alive"

\* The slot keeps a plugin whose report of its end was dropped, and nothing else
\* is about to take it down.
Stranded ==
  plugin # 0 /\ cleanups[<<plugin, "retire">>].at = "dropped" /\ cleanupFuture = NoCleanup

(* Whichever of a command, a start, a cleanup and a stopping plugin overlap, over *)
(* several generations, and whatever fails, a transition ends; it is left behind  *)
(* only with a plugin whose end was reported while a cleanup was pending.         *)
TransitionsSettle ==
  transition # "none" ~> transition = "none" \/ shuttingDown \/ Stranded

(* What _retireGeneration says of "a plugin that stopped on its own": it "stays   *)
(* stopping while it is torn down and settles dormant only once that succeeds",   *)
(* and "the next request starts a fresh generation".  So a slot does not stay     *)
(* stopping with the plugin in it.                                                *)
StoppedPluginSettles ==
  transition = "stopping" /\ plugin # 0 ~> transition # "stopping" \/ plugin = 0 \/ shuttingDown

(* dispose() answers: what it awaits in turn (start, cleanup, command, commits,   *)
(* shutdown) all end, also when they began after it looked.                       *)
DisposeAnswers == disposal.at = "start" ~> disposal.at = "done"
===============================================================================
