------------------------------ MODULE SlotProofs ------------------------------
(***************************************************************************)
(* That a slot of the plugin runtime does, for any number of operations,   *)
(* generations and failures, what PluginSlot says of it: a transition has  *)
(* a coroutine that will end it, a safe command takes no plugin from under *)
(* a lease, durable commits outlast every unforced take-down, and leases   *)
(* and commits are granted on live backends only.                          *)
(***************************************************************************)
EXTENDS PluginSlot, TLAPS

Waits == {"none", "leases", "commits"}
Commands == [kind : Kinds, force : BOOLEAN,
             at : {"none", "start", "cleanup", "leases", "commits", "interrupt",
                   "shutdown", "restart", "prepared"},
             wait : Waits, start : 0..MaxGenerations,
             cleanup : Cleanups \cup {NoCleanup}, plugin : 0..MaxGenerations,
             failed : BOOLEAN]
CleanupStates == [at : {"none", "dropped", "begin", "leases", "commits", "shutdown",
                         "start", "done"},
                  wait : Waits, start : 0..MaxGenerations, clean : BOOLEAN]

SlotTypes ==
  /\ TypeOK
  /\ cmd \in Commands
  /\ cleanups \in [Cleanups -> CleanupStates]

\* At most the newest generation starts, beside no plugin of that generation;
\* what the slot calls active is the newest generation's plugin.
StartsKept ==
  /\ startFuture # 0 => startFuture = generation /\ outcome[startFuture] = "none"
  /\ startFuture = 0 <=> startAt = "none"
  /\ \A g \in Gens : g > generation => outcome[g] = "none"
  /\ state = "active" => startFuture = 0
  /\ plugin # 0 => plugin # startFuture
  /\ state = "active" /\ plugin # 0 => plugin = generation
  /\ startFuture # 0 => transition = "starting" \/ cmd # NoCommand

\* Before the shutdown of the bridge the plugin in the slot has been closed by
\* nobody, and nothing is being disposed of.
NotDisposed == [at |-> "none", wait |-> "none", start |-> 0, cleanup |-> NoCleanup,
                plugin |-> 0]
BackendKept == ~shuttingDown => /\ plugin # 0 => life[plugin] = "alive"
                                /\ disposal = NotDisposed

\* A command keeps everyone out, so what it waited for stays ended and drained.
CommandKept ==
  /\ cmd # NoCommand <=> cmd.at # "none"
  /\ cmd # NoCommand => Blocks
  /\ cmd.at = "start" => startFuture \in {0, cmd.start}
  /\ cmd.at \notin {"none", "start", "restart"} => startFuture = 0
  /\ cmd.at = "restart" => cmd.start = generation /\ \A o \in Leased : ops[o].gen # generation
  /\ cmd.at \in {"shutdown", "prepared"} => plugin = 0
  /\ cmd.at = "commits" => cmd.wait # "leases" /\ (cmd.wait = "none" => Committing = {})
  /\ cmd.at = "interrupt" => Committing = {}

\* A cleanup belongs to a generation that has started; until it takes the
\* plugin down that one is not active, and the slot awaits a cleanup of it.
Pending(k) == cleanups[k].at \in {"begin", "leases", "commits"}
CleanupsKept ==
  /\ \A k \in Cleanups : cleanups[k].at # "none" => k[1] <= generation /\ k[1] # startFuture
  /\ \A k \in Cleanups : cleanups[k].at \in {"shutdown", "start", "done"} => ~Holds(k[1])
  /\ \A k \in Cleanups : Pending(k) /\ Holds(k[1]) => state # "active" /\ cleanupFuture[1] = k[1]

\* What a cleanup waited for stays drained.
Drained(k) ==
  /\ cleanups[k].at = "commits" /\ cleanups[k].wait = "none" =>
       \A o \in Committing : ops[o].gen # k[1]
  /\ cleanups[k].at = "leases" /\ cleanups[k].wait = "none" =>
       shuttingDown \/ \A o \in Leased : ops[o].gen # k[1]
DrainsKept ==
  \A k \in Cleanups :
    /\ k[2] = "retire" => cleanups[k].at \notin {"begin", "leases"}
    /\ k[2] = "auth" => cleanups[k].at # "commits"
    /\ cleanups[k].at = "commits" => cleanups[k].wait # "leases"
    /\ cleanups[k].at = "leases" => cleanups[k].wait # "commits"
    /\ Holds(k[1]) => Drained(k)

\* TransitionOwned, with the generation its owner belongs to.
TransitionKept ==
  /\ transition = "starting" => startFuture # 0
  /\ transition = "restarting" => cmd # NoCommand
  /\ transition = "stopping" /\ cmd = NoCommand =>
       \/ cleanupFuture # NoCleanup /\ cleanupFuture[1] = generation
       \/ plugin # 0 /\ plugin = generation /\ state = "stopping"

\* Leases are on generations that started.  None is left on a plugin that no
\* transition guards and that is not active, nor on one of an older generation.
LeasesKept ==
  /\ \A o \in Leased : ops[o].gen \in Gens /\ ops[o].gen # startFuture
  /\ plugin # 0 /\ (plugin # generation \/ (~Blocks /\ state # "active")) =>
       \A o \in Leased : ops[o].gen # plugin
  /\ cmd # NoCommand /\ ~cmd.force /\ plugin # 0 => \A o \in Leased : ops[o].gen # plugin

SlotInv == /\ SlotTypes /\ StartsKept /\ BackendKept /\ CommandKept
           /\ CleanupsKept /\ DrainsKept /\ TransitionKept /\ LeasesKept

-----------------------------------------------------------------------------
(* Operators the actions are built from.                                    *)

\* A pair of Cleanups is a started or startable generation and its kind.
LEMMA CleanupPairs ==
  /\ \A k \in Cleanups : k[1] \in Gens /\ k[2] \in {"retire", "auth"} /\ k = <<k[1], k[2]>>
  /\ \A g \in Gens : /\ <<g, "retire">> \in Cleanups /\ <<g, "retire">>[1] = g
                     /\ <<g, "auth">> \in Cleanups /\ <<g, "auth">>[1] = g
                     /\ <<g, "retire">>[2] = "retire" /\ <<g, "auth">>[2] = "auth"
  /\ Gens = {g \in Nat : 1 <= g /\ g <= MaxGenerations}
  BY SlotAssumption DEF Cleanups, Gens

\* What closes a backend leaves the table of backends one.
LEMMA ClosingBackends ==
  ASSUME SlotTypes, NEW g
  PROVE  Closing(g) \in [Gens -> {"none", "alive", "closing", "down", "failed"}]
  BY DEF SlotTypes, TypeOK, Closing

\* A wait for leases or commits is over, or waits for its own count only.
LEMMA WaitsAreOwn ==
  /\ LeaseWait \in {"none", "leases"} /\ (LeaseWait = "none" => shuttingDown \/ Leased = {})
  /\ CommitWait \in {"none", "commits"} /\ (CommitWait = "none" => Committing = {})
  BY DEF LeaseWait, CommitWait

\* A coroutine d was c and waits as c did, or was woken by a count at zero.
Woken(c, d) ==
  \/ d = c
  \/ /\ d = [c EXCEPT !.wait = "none"]
     /\ \/ c.wait = "leases" /\ Leased' = {}
        \/ c.wait = "commits" /\ Committing' = {}

\* When the operations change, coroutines are woken and do nothing else.
LEMMA OpsWake ==
  ASSUME NEW next, NEW some, OpsAndCleanupsBecome(next, some)
  PROVE  /\ ops' = next
         /\ Woken(cmd, cmd') /\ Woken(disposal, disposal')
         /\ cleanups' = [k \in Cleanups |-> cleanups'[k]]
         /\ \A k \in Cleanups : Woken(some[k], cleanups'[k])
  <1> DEFINE phases == {next[o].phase : o \in Ops}
             woken == (IF phases \cap {"leased", "committing"} = {} THEN {"leases"} ELSE {})
                        \cup (IF "committing" \notin phases THEN {"commits"} ELSE {})
             Wake(c) == IF c.wait \in woken THEN [c EXCEPT !.wait = "none"] ELSE c
  <1>1. /\ ops' = next /\ cmd' = Wake(cmd) /\ disposal' = Wake(disposal)
        /\ cleanups' = [k \in Cleanups |-> Wake(some[k])]
    BY DEF OpsAndCleanupsBecome
  <1>2. "leases" \in woken => Leased' = {}
    BY <1>1 DEF Leased
  <1>3. "commits" \in woken => Committing' = {}
    BY <1>1 DEF Committing
  <1>4. woken \subseteq {"leases", "commits"}
    OBVIOUS
  <1>5. ASSUME NEW c PROVE Woken(c, Wake(c))
    <2> HIDE DEF woken
    <2> QED
      BY <1>2, <1>3, <1>4 DEF Woken
  <1> HIDE DEF Wake
  <1> QED
    BY <1>1, <1>5

\* An operation comes to hold a lease, or a commit, only on the routable newest
\* generation; another that holds one keeps what it has.
Gained ==
  \A p \in Leased' : ops'[p] = ops[p] \/ (Routable /\ ops'[p].gen = generation)

\* The same of leases and of commits.
LEMMA GainsByPhase ==
  ASSUME Gained, NEW p \in Ops
  PROVE  /\ p \in Leased' => \/ p \in Leased /\ ops'[p].gen = ops[p].gen
                             \/ Routable /\ ops'[p].gen = generation
         /\ p \in Committing' => \/ p \in Committing /\ ops'[p].gen = ops[p].gen
                                 \/ Routable /\ ops'[p].gen = generation
  BY DEF Gained, Leased, Committing

OpSteps(o) == \/ AcquireLive(o) \/ AcquireJoining(o) \/ AcquireResumes(o)
              \/ BeginCommit(o) \/ CommitCurrent(o) \/ Release(o)

OpsTyped == ops \in [Ops -> [phase : {"idle", "starting", "leased", "committing"},
                             gen : 0..generation]]

\* What an operation's own steps do to the rest of the slot: they wake.
OpsOnly ==
  /\ UNCHANGED <<access, generation, state, transition, plugin, residency, starts,
                 cleanupFuture, life, shuttingDown>>
  /\ Gained
  /\ OpsTyped'
  /\ Woken(cmd, cmd') /\ Woken(disposal, disposal')
  /\ cleanups' = [k \in Cleanups |-> cleanups'[k]]
  /\ \A k \in Cleanups : Woken(cleanups[k], cleanups'[k])

LEMMA OpStepsAreTheirOwn ==
  ASSUME SlotTypes, NEW o \in Ops, OpSteps(o)
  PROVE  OpsOnly
  <1>1. OpsTyped /\ generation \in Nat /\ startFuture \in 0..generation
    BY SlotAssumption DEF SlotTypes, TypeOK, OpsTyped
  <1> DEFINE Changes(phase, g) ==
        /\ OpsBecome(OpIs(o, phase, g))
        /\ UNCHANGED <<access, generation, state, transition, plugin, residency, starts,
                       cleanupFuture, life, shuttingDown>>
  <1>2. ASSUME NEW phase \in {"idle", "starting", "leased", "committing"}, NEW g \in 0..generation,
               Changes(phase, g),
               phase \in {"leased", "committing"} => Routable /\ g = generation
        PROVE  OpsOnly
    <2>1. ops' = OpIs(o, phase, g) /\ Woken(cmd, cmd') /\ Woken(disposal, disposal')
          /\ cleanups' = [k \in Cleanups |-> cleanups'[k]]
          /\ \A k \in Cleanups : Woken(cleanups[k], cleanups'[k])
      BY <1>2, OpsWake DEF OpsBecome
    <2>2. /\ OpsTyped'
          /\ \A p \in Ops : ops'[p] = IF p = o THEN [phase |-> phase, gen |-> g] ELSE ops[p]
      BY <1>1, <1>2, <2>1 DEF OpsTyped, OpIs
    <2>3. Gained
      BY <1>2, <2>2 DEF Gained, Leased, Committing
    <2> QED
      BY <1>2, <2>1, <2>2, <2>3 DEF OpsOnly
  <1>3. CASE AcquireLive(o)
    <2>1. Changes("leased", generation) /\ Routable
      BY <1>3 DEF AcquireLive
    <2> HIDE DEF Changes
    <2> QED
      BY <1>1, <1>2, <2>1
  <1>4. CASE AcquireJoining(o)
    <2>1. Changes("starting", startFuture)
      BY <1>4 DEF AcquireJoining
    <2> HIDE DEF Changes
    <2> QED
      BY <1>1, <1>2, <2>1
  <1>5. CASE AcquireResumes(o)
    <2>1. (Changes("leased", generation) /\ Routable) \/ Changes("idle", 0)
      BY <1>5 DEF AcquireResumes, RoutableAfterStart
    <2> HIDE DEF Changes
    <2> QED
      BY <1>1, <1>2, <2>1
  <1>6. CASE BeginCommit(o)
    <2>1. Changes("committing", generation) /\ Routable
      BY <1>6 DEF BeginCommit, Current
    <2> HIDE DEF Changes
    <2> QED
      BY <1>1, <1>2, <2>1
  <1>7. CASE CommitCurrent(o)
    <2>1. Changes("committing", generation) /\ Routable
      BY <1>7 DEF CommitCurrent
    <2> HIDE DEF Changes
    <2> QED
      BY <1>1, <1>2, <2>1
  <1>8. CASE Release(o)
    <2>1. Changes("idle", 0)
      BY <1>8 DEF Release
    <2> HIDE DEF Changes
    <2> QED
      BY <1>1, <1>2, <2>1
  <1> QED
    BY <1>3, <1>4, <1>5, <1>6, <1>7, <1>8 DEF OpSteps

-----------------------------------------------------------------------------
(* Types.                                                                   *)

\* Being woken keeps a command a command, and a cleanup a cleanup.
LEMMA WokenTypes ==
  /\ \A c \in Commands : \A d : Woken(c, d) => d \in Commands
  /\ \A c \in CleanupStates : \A d : Woken(c, d) => d \in CleanupStates
  BY DEF Woken, Commands, CleanupStates, Waits

\* The slot's generations are numbers up to the bound.
LEMMA Generations ==
  ASSUME SlotTypes
  PROVE  /\ generation \in Nat /\ generation <= MaxGenerations
         /\ 0..generation \subseteq 0..MaxGenerations
         /\ plugin \in 0..generation /\ startFuture \in 0..generation /\ residency \in 0..generation
         /\ plugin # 0 => plugin \in Gens
         /\ startFuture # 0 => startFuture \in Gens
         /\ MaxGenerations \in Nat
  BY SlotAssumption DEF SlotTypes, TypeOK, Gens

LEMMA NoGeneration == 0 \in 0..MaxGenerations
  BY SlotAssumption

LEMMA TypesOfOps ==
  ASSUME SlotTypes, OpsOnly
  PROVE  SlotTypes'
  <1>1. cmd' \in Commands /\ cleanups' \in [Cleanups -> CleanupStates]
    BY WokenTypes DEF SlotTypes, OpsOnly
  <1>2. cmd'.kind \in Kinds
    BY <1>1 DEF Commands
  <1> QED
    BY <1>1, <1>2 DEF SlotTypes, TypeOK, OpsOnly, OpsTyped, access, starts

LEMMA TypesOfBeginStart ==
  ASSUME SlotTypes, startFuture = 0, NEW kind \in {"starting", "restarting"}, BeginStart(kind)
  PROVE  /\ generation' \in 0..MaxGenerations /\ 0..generation \subseteq 0..generation'
         /\ state' = "starting" /\ transition' = kind
         /\ {plugin, residency', startFuture'} \subseteq 0..generation'
         /\ startAt' = "provisioning" /\ aborted' = {} /\ outcome' = outcome
         /\ generation' = generation + 1 /\ startFuture' = generation + 1
         /\ generation + 1 \in 0..generation'
  BY Generations DEF BeginStart, SlotTypes, TypeOK

LEMMA TypesOfEndStart ==
  ASSUME SlotTypes, NEW how \in {"answered", "aborted", "error"}, EndStart(how)
  PROVE  /\ outcome' \in [Gens -> {"none", "answered", "aborted", "error"}]
         /\ startFuture' = 0 /\ startAt' = "none" /\ aborted' = {}
         /\ transition' \in {"none", "starting", "stopping", "restarting"}
  BY DEF EndStart, SlotTypes, TypeOK

LEMMA TypesOfResidency ==
  ASSUME SlotTypes
  PROVE  \A g : ResidencyAfter(g) \in 0..generation
  BY Generations DEF ResidencyAfter

LEMMA TypesOfStarts ==
  ASSUME SlotTypes, StartsKept, CommandKept,
         \/ \E o \in Ops : AcquireStarting(o)
         \/ StartEagerly \/ StartSteps
  PROVE  SlotTypes'
  <1> USE DEF SlotTypes, access, starts
  <1>1. ASSUME NEW o \in Ops, AcquireStarting(o) PROVE SlotTypes'
    <2>1. ops' = OpIs(o, "starting", generation + 1) /\ Woken(cmd, cmd')
          /\ cleanups' = [k \in Cleanups |-> cleanups'[k]]
          /\ \A k \in Cleanups : Woken(cleanups[k], cleanups'[k])
      BY <1>1, OpsWake DEF AcquireStarting, OpsBecome
    <2>2. cmd' \in Commands /\ cleanups' \in [Cleanups -> CleanupStates]
      BY <2>1, WokenTypes
    <2>3. cmd'.kind \in Kinds
      BY <2>2 DEF Commands
    <2> QED
      BY <1>1, <2>1, <2>2, <2>3, TypesOfBeginStart DEF AcquireStarting, TypeOK, OpIs
  <1>2. CASE StartEagerly
    BY <1>2, TypesOfBeginStart DEF StartEagerly, TypeOK, waiters
  <1>3. CASE StartSucceeds
    <2>1. plugin' \in 0..generation /\ EndStart("answered")
      BY <1>3, Generations DEF StartSucceeds
    <2>2. life' \in [Gens -> {"none", "alive", "closing", "down", "failed"}]
      BY <1>3 DEF StartSucceeds, TypeOK
    <2> QED
      BY <1>3, <2>1, <2>2, TypesOfEndStart, Generations DEF StartSucceeds, TypeOK, waiters
  <1>4. CASE StartDiscards
    BY <1>4 DEF StartDiscards, TypeOK, waiters
  <1>5. CASE StartDiscarded
    BY <1>5, TypesOfEndStart DEF StartDiscarded, TypeOK, waiters
  <1>6. CASE StartFails
    BY <1>6, TypesOfEndStart DEF StartFails, TypeOK, waiters
  <1> QED
    BY <1>1, <1>2, <1>3, <1>4, <1>5, <1>6 DEF StartSteps

LEMMA TypesOfCommands ==
  ASSUME SlotTypes, CommandKept,
         \/ \E kind \in {"stop", "restart", "disable"}, force \in BOOLEAN :
              CommandBegins(kind, force)
         \/ CommandSteps
  PROVE  SlotTypes'
  <1>1. cmd \in Commands /\ TypeOK
    BY DEF SlotTypes
  <1> USE DEF SlotTypes, access, starts, Waits
  <1>5. NoCommand \in Commands
    BY NoGeneration DEF NoCommand, Commands, Kinds
  <1>2. ASSUME NEW kind \in {"stop", "restart", "disable"}, NEW force \in BOOLEAN,
               CommandBegins(kind, force)
        PROVE  SlotTypes'
    <2>1. NoCommand \in Commands /\ startFuture \in 0..MaxGenerations
      BY <1>5, Generations
    <2>2. cmd' \in Commands
      BY <1>2, <2>1 DEF CommandBegins, Commands, Kinds
    <2>3. /\ transition' \in {"stopping", "restarting"} /\ gate' \in {"enabled", "draining"}
          /\ aborted' \subseteq {startFuture} \ {0}
      BY <1>1, <1>2 DEF CommandBegins, TypeOK
    <2> QED
      BY <1>1, <1>2, <2>2, <2>3 DEF CommandBegins, TypeOK, Commands
  <1>3. CASE CommandPastStart \/ CommandPastCleanup \/ CommandPastLeases \/ CommandInterrupts
    <2>1. plugin \in 0..MaxGenerations /\ cleanupFuture \in Cleanups \cup {NoCleanup}
      BY <1>1, Generations DEF TypeOK
    <2>2. CASE CommandPastStart
      <3>1. cmd' \in Commands
        BY <1>1, <2>1, <2>2, NoGeneration DEF CommandPastStart, Commands
      <3> QED
        BY <1>1, <2>2, <3>1 DEF CommandPastStart, CommandOnly, TypeOK, Commands
    <2>3. CASE CommandPastCleanup
      <3>1. cmd' \in Commands
        BY <1>1, <2>1, <2>3, WaitsAreOwn DEF CommandPastCleanup, Commands
      <3> QED
        BY <1>1, <2>3, <3>1 DEF CommandPastCleanup, CommandOnly, TypeOK, Commands
    <2>4. CASE CommandPastLeases \/ CommandInterrupts
      <3>1. cmd' \in Commands
        BY <1>1, <2>4, WaitsAreOwn DEF CommandPastLeases, CommandInterrupts, Commands
      <3> QED
        BY <1>1, <2>4, <3>1 DEF CommandPastLeases, CommandInterrupts, CommandOnly, TypeOK, Commands
    <2> QED
      BY <1>3, <2>2, <2>3, <2>4
  <1>4. CASE CommandTakesDown \/ BarrierTimesOut
    <2>1. TakeDown /\ cmd' \in Commands
      BY <1>1, <1>4 DEF CommandTakesDown, BarrierTimesOut, TakeDown, Commands
    <2> QED
      BY <2>1, ClosingBackends, Generations DEF TakeDown, TypeOK, Commands
  <1>6. CASE CommandFails \/ StopApplied \/ CommandRestarted \/ DisableEnds
    <2>1. cmd' \in Commands /\ transition' = "none"
      BY <1>5, <1>6 DEF CommandFails, StopApplied, CommandRestarted, DisableEnds, Settle
    <2>2. residency' \in 0..generation
      BY <1>6, TypesOfResidency, Generations
      DEF CommandFails, StopApplied, CommandRestarted, DisableEnds
    <2>3. /\ gate' \in {"enabled", "draining", "disabled"} /\ startAllowed' \in BOOLEAN
          /\ state' \in {"dormant", "starting", "active", "stopping", "failed", "blocked"}
      BY <1>1, <1>6 DEF CommandFails, StopApplied, CommandRestarted, DisableEnds, TypeOK
    <2>4. UNCHANGED <<generation, plugin, starts, cleanupFuture, ops, life, shuttingDown, cleanups>>
      BY <1>6 DEF CommandFails, StopApplied, CommandRestarted, DisableEnds
    <2> QED
      BY <1>1, <2>1, <2>2, <2>3, <2>4 DEF TypeOK, Commands
  <1>7. CASE DisablePrepared
    <2>1. cmd' \in Commands
      BY <1>1, <1>7, NoGeneration DEF DisablePrepared, Commands
    <2> QED
      BY <1>7, <2>1, Generations DEF DisablePrepared, TypeOK, Commands
  <1>8. CASE RestartStarts
    <2>1. startFuture = 0
      BY <1>8 DEF RestartStarts, CommandDown, CommandKept
    <2>2. /\ generation' \in 0..MaxGenerations /\ 0..generation \subseteq 0..generation'
          /\ state' = "starting" /\ transition' = "restarting"
          /\ {plugin, residency', startFuture'} \subseteq 0..generation'
          /\ startAt' = "provisioning" /\ aborted' = {} /\ outcome' = outcome
          /\ generation' = generation + 1
      BY <1>8, <2>1, TypesOfBeginStart DEF RestartStarts
    <2>3. cmd' \in Commands
      <3>1. generation + 1 \in 0..MaxGenerations
        BY <2>2
      <3> QED
        BY <1>1, <1>8, <3>1, NoGeneration DEF RestartStarts, Commands
    <2> QED
      BY <1>8, <2>2, <2>3 DEF RestartStarts, TypeOK, Commands
  <1> QED
    BY <1>2, <1>3, <1>4, <1>6, <1>7, <1>8 DEF CommandSteps

\* LoseAuthentication sets the slot's own variables to legal values.
LEMMA TypesOfLoss ==
  ASSUME SlotTypes, plugin # 0, LoseAuthentication
  PROVE  /\ startAllowed' \in BOOLEAN
         /\ state' \in {"dormant", "starting", "active", "stopping", "failed", "blocked"}
         /\ transition' \in {"none", "starting", "stopping", "restarting"}
         /\ cleanupFuture' \in Cleanups \cup {NoCleanup}
         /\ AuthCleanup \in [Cleanups -> CleanupStates]
  <1>1. <<plugin, "auth">> \in Cleanups
    BY Generations, CleanupPairs
  <1>2. /\ state \in {"dormant", "starting", "active", "stopping", "failed", "blocked"}
        /\ transition \in {"none", "starting", "stopping", "restarting"}
        /\ cleanupFuture \in Cleanups \cup {NoCleanup}
        /\ cleanups \in [Cleanups -> CleanupStates]
    BY DEF SlotTypes, TypeOK
  <1>3. AuthCleanup \in [Cleanups -> CleanupStates]
    BY <1>1, <1>2 DEF AuthCleanup, CleanupStates
  <1> QED
    BY <1>1, <1>2, <1>3 DEF LoseAuthentication

LEMMA TypesOfEnds ==
  ASSUME SlotTypes, LeasesKept,
         \/ PluginStopping \/ ReportIsDropped \/ (\E clean \in BOOLEAN : Retire(clean))
         \/ StreamLosesAuthentication
         \/ \E o \in Ops : OperationLosesAuthentication(o)
  PROVE  SlotTypes'
  <1> USE DEF SlotTypes, access, starts, Waits
  <1>1. CASE PluginStopping
    BY <1>1 DEF PluginStopping, TypeOK, waiters
  <1>2. ASSUME NEW clean \in BOOLEAN, Retire(clean) PROVE SlotTypes'
    <2>1. cleanups' \in [Cleanups -> CleanupStates]
      BY <1>2, WaitsAreOwn, NoGeneration DEF Retire, CleanupStates
    <2>2. cleanupFuture' \in Cleanups
      BY <1>2, Generations, CleanupPairs DEF Retire, Reporting
    <2> QED
      BY <1>2, <2>1, <2>2 DEF Retire, TypeOK
  <1>3. CASE StreamLosesAuthentication
    BY <1>3, TypesOfLoss DEF StreamLosesAuthentication, Reporting, TypeOK
  <1>4. ASSUME NEW o \in Ops, OperationLosesAuthentication(o) PROVE SlotTypes'
    <2>1. plugin # 0
      BY <1>4 DEF OperationLosesAuthentication, LeasesKept, Leased, Gens, Holds
    <2>2. ops' = OpIs(o, "idle", 0) /\ Woken(cmd, cmd')
          /\ cleanups' = [k \in Cleanups |-> cleanups'[k]]
          /\ \A k \in Cleanups : Woken(AuthCleanup[k], cleanups'[k])
      BY <1>4, OpsWake DEF OperationLosesAuthentication
    <2>3. cmd' \in Commands /\ cleanups' \in [Cleanups -> CleanupStates]
      BY <1>4, <2>1, <2>2, TypesOfLoss, WokenTypes DEF OperationLosesAuthentication
    <2>4. ops' \in [Ops -> [phase : {"idle", "starting", "leased", "committing"},
                            gen : 0..generation]]
      BY <2>2, Generations DEF OpIs, TypeOK
    <2> QED
      BY <1>4, <2>1, <2>3, <2>4, TypesOfLoss DEF OperationLosesAuthentication, TypeOK, Commands
  <1>5. CASE ReportIsDropped
    <2>1. Cleanup("dropped") \in CleanupStates
      BY NoGeneration DEF Cleanup, CleanupStates
    <2>2. cleanups' \in [Cleanups -> CleanupStates]
      BY <1>5, <2>1 DEF ReportIsDropped
    <2> QED
      BY <1>5, <2>2 DEF ReportIsDropped, TypeOK
  <1> QED
    BY <1>1, <1>2, <1>3, <1>4, <1>5

LEMMA TypesOfCleanups ==
  ASSUME SlotTypes, NEW g \in Gens, CleanupSteps(g)
  PROVE  SlotTypes'
  <1> USE DEF SlotTypes, access, starts
  <1>1. cleanups \in [Cleanups -> CleanupStates] /\ TypeOK
    OBVIOUS
  <1>2. startFuture \in 0..MaxGenerations /\ plugin \in 0..generation
    BY Generations
  <1>3. <<g, "retire">> \in Cleanups /\ <<g, "auth">> \in Cleanups
    BY CleanupPairs
  <1>4. ASSUME NEW k, Forget(k) PROVE cleanupFuture' \in Cleanups \cup {NoCleanup}
    BY <1>1, <1>4 DEF Forget, TypeOK
  <1>5. CASE RetireTakesDown(g) \/ AuthTakesDown(g)
    <2>1. cleanups' \in [Cleanups -> CleanupStates]
      BY <1>1, <1>3, <1>5 DEF RetireTakesDown, AuthTakesDown, CleanupStates
    <2>2. /\ plugin' \in 0..generation
          /\ life' \in [Gens -> {"none", "alive", "closing", "down", "failed"}]
          /\ state' \in {"dormant", "starting", "active", "stopping", "failed", "blocked"}
      BY <1>1, <1>5, ClosingBackends, Generations DEF RetireTakesDown, AuthTakesDown, TypeOK
    <2> QED
      BY <1>1, <1>5, <2>1, <2>2 DEF RetireTakesDown, AuthTakesDown, TypeOK
  <1>6. CASE RetireIsStale(g) \/ AuthDrains(g)
    <2> SUFFICES cleanups' \in [Cleanups -> CleanupStates]
      BY <1>1, <1>6 DEF RetireIsStale, AuthDrains, TypeOK
    <2>1. CASE RetireIsStale(g)
      BY <1>1, <1>2, <1>3, <2>1 DEF RetireIsStale, CleanupStates
    <2>2. CASE AuthDrains(g)
      BY <1>1, <1>3, <2>2, WaitsAreOwn DEF AuthDrains, CleanupStates, Waits
    <2> QED
      BY <1>6, <2>1, <2>2
  <1>7. CASE RetireIsDown(g)
    <2>1. cleanups' \in [Cleanups -> CleanupStates]
      BY <1>1, <1>2, <1>3, <1>7 DEF RetireIsDown, CleanupStates
    <2>2. /\ residency' \in 0..generation
          /\ state' \in {"dormant", "starting", "active", "stopping", "failed", "blocked"}
      BY <1>1, <1>7, TypesOfResidency DEF RetireIsDown, TypeOK
    <2> QED
      BY <1>1, <1>7, <2>1, <2>2 DEF RetireIsDown, TypeOK
  <1>8. CASE RetireSettles(g) \/ AuthSettles(g)
    <2>1. Cleanup("done") \in CleanupStates
      BY NoGeneration DEF Cleanup, CleanupStates, Waits
    <2>2. cleanups' \in [Cleanups -> CleanupStates]
      BY <1>1, <1>3, <1>8, <2>1 DEF RetireSettles, AuthSettles
    <2>3. cleanupFuture' \in Cleanups \cup {NoCleanup}
      BY <1>4, <1>8 DEF RetireSettles, AuthSettles
    <2>4. residency' \in 0..generation
      BY <1>8, TypesOfResidency, Generations DEF RetireSettles, AuthSettles
    <2>5. /\ state' \in {"dormant", "starting", "active", "stopping", "failed", "blocked"}
          /\ transition' \in {"none", "starting", "stopping", "restarting"}
      BY <1>1, <1>8 DEF RetireSettles, AuthSettles, TypeOK
    <2>6. UNCHANGED <<access, generation, plugin, starts, ops, life, shuttingDown, cmd>>
      BY <1>8 DEF RetireSettles, AuthSettles
    <2> QED
      BY <1>1, <2>2, <2>3, <2>4, <2>5, <2>6 DEF TypeOK
  <1> QED
    BY <1>5, <1>6, <1>7, <1>8 DEF CleanupSteps

LEMMA TypesOfTheRest ==
  ASSUME SlotTypes,
         \/ \E ready \in BOOLEAN : ApplyAccess(ready)
         \/ \E g \in Gens : ShutdownEnds(g)
         \/ BeginShutdown \/ DisposeBegins \/ DisposeSteps
  PROVE  SlotTypes'
  <1> USE DEF SlotTypes, access, starts
  <1>1. cmd \in Commands /\ cleanups \in [Cleanups -> CleanupStates] /\ TypeOK
    OBVIOUS
  <1>2. ASSUME NEW ready \in BOOLEAN, ApplyAccess(ready) PROVE SlotTypes'
    BY <1>2 DEF ApplyAccess, TypeOK, waiters
  <1>3. ASSUME NEW g \in Gens, ShutdownEnds(g) PROVE SlotTypes'
    <2>1. life' \in [Gens -> {"none", "alive", "closing", "down", "failed"}]
      BY <1>1, <1>3 DEF ShutdownEnds, TypeOK
    <2> QED
      BY <1>1, <1>3, <2>1 DEF ShutdownEnds, TypeOK, waiters
  <1>4. CASE BeginShutdown
    <2>1. cmd' \in Commands /\ cleanups' \in [Cleanups -> CleanupStates]
      BY <1>1, <1>4 DEF BeginShutdown, Commands, CleanupStates, Waits
    <2>2. cmd'.kind \in Kinds
      BY <2>1 DEF Commands
    <2>3. aborted' \subseteq {startFuture} \ {0}
      BY <1>1, <1>4 DEF BeginShutdown, TypeOK
    <2> QED
      BY <1>1, <1>4, <2>1, <2>2, <2>3 DEF BeginShutdown, TypeOK
  <1>5. CASE DisposeBegins \/ DisposePastStart \/ DisposePastCommand
    BY <1>1, <1>5 DEF DisposeBegins, DisposePastStart, DisposePastCommand, DisposeOnly, TypeOK
  <1>6. CASE DisposeTakesDown
    BY <1>1, <1>6, ClosingBackends DEF DisposeTakesDown, DisposeOnly, TypeOK
  <1>7. CASE DisposeEnds
    <2>1. residency' \in 0..generation
      BY <1>7, TypesOfResidency DEF DisposeEnds
    <2> QED
      BY <1>1, <1>7, <2>1 DEF DisposeEnds, TypeOK
  <1> QED
    BY <1>2, <1>3, <1>4, <1>5, <1>6, <1>7 DEF DisposeSteps

\* Every step keeps the types.
LEMMA StepTypes ==
  ASSUME SlotInv, [Next]_vars
  PROVE  SlotTypes'
  <1> USE DEF SlotInv
  <1>1. ASSUME NEW o \in Ops, OpSteps(o) PROVE SlotTypes'
    BY <1>1, OpStepsAreTheirOwn, TypesOfOps
  <1>2. ASSUME NEW g \in Gens, CleanupSteps(g) PROVE SlotTypes'
    BY <1>2, TypesOfCleanups
  <1>3. CASE UNCHANGED vars
    BY <1>3 DEF vars, access, starts, waiters, SlotTypes, TypeOK
  <1> QED
    BY <1>1, <1>2, <1>3, TypesOfStarts, TypesOfCommands, TypesOfEnds, TypesOfTheRest
    DEF Next, OpSteps

-----------------------------------------------------------------------------
(* The steps of operations, of the environment and of the bridge's end.     *)

\* Being woken changes the wait only, and ends it for its own reason.
LEMMA WokenIsThere ==
  /\ \A c \in Commands : \A d : Woken(c, d) =>
       /\ d.kind = c.kind /\ d.force = c.force /\ d.at = c.at /\ d.start = c.start
       /\ d.plugin = c.plugin
       /\ (c = NoCommand => d = NoCommand)
       /\ \/ d.wait = c.wait
          \/ d.wait = "none" /\ c.wait = "leases" /\ Leased' = {}
          \/ d.wait = "none" /\ c.wait = "commits" /\ Committing' = {}
  /\ \A c \in CleanupStates : \A d : Woken(c, d) =>
       /\ d.at = c.at /\ d.start = c.start
       /\ \/ d.wait = c.wait
          \/ d.wait = "none" /\ c.wait = "leases" /\ Leased' = {}
          \/ d.wait = "none" /\ c.wait = "commits" /\ Committing' = {}
  /\ \A d : Woken(NotDisposed, d) => d = NotDisposed
  BY DEF Woken, Commands, CleanupStates, NoCommand, NotDisposed

LEMMA CommitsAreLeases == Committing \subseteq Leased
  BY DEF Committing, Leased

\* An operation's own step keeps the invariant: what is drained stays drained,
\* for only an active plugin that no transition guards gains leases.
LEMMA OpsKeep ==
  ASSUME SlotInv, OpsOnly
  PROVE  /\ StartsKept' /\ BackendKept' /\ CommandKept' /\ CleanupsKept'
         /\ DrainsKept' /\ TransitionKept' /\ LeasesKept'
  <1> USE DEF SlotInv
  <1>1. /\ UNCHANGED <<generation, state, transition, plugin, startFuture, startAt, outcome,
                       cleanupFuture, life, shuttingDown>>
        /\ Gained
    BY DEF OpsOnly, starts
  <1>2. /\ cmd'.force = cmd.force /\ cmd'.at = cmd.at /\ cmd'.start = cmd.start
        /\ cmd = NoCommand => cmd' = NoCommand
        /\ \/ cmd'.wait = cmd.wait
           \/ cmd'.wait = "none" /\ cmd.wait = "leases" /\ Leased' = {}
           \/ cmd'.wait = "none" /\ cmd.wait = "commits" /\ Committing' = {}
    BY WokenIsThere DEF SlotTypes, OpsOnly
  <1>3. cmd' = NoCommand <=> cmd = NoCommand
    BY <1>2 DEF CommandKept, NoCommand
  <1>4. ASSUME NEW k \in Cleanups
        PROVE  /\ cleanups'[k].at = cleanups[k].at
               /\ \/ cleanups'[k].wait = cleanups[k].wait
                  \/ cleanups'[k].wait = "none" /\ cleanups[k].wait = "leases" /\ Leased' = {}
                  \/ cleanups'[k].wait = "none" /\ cleanups[k].wait = "commits" /\ Committing' = {}
    BY WokenIsThere DEF SlotTypes, OpsOnly
  <1>5. StartsKept'
    BY <1>1, <1>3 DEF StartsKept
  <1>6. BackendKept'
    BY <1>1, WokenIsThere DEF BackendKept, OpsOnly
  <1>7. CommandKept'
    <2>1. cmd # NoCommand => ~Routable
      BY DEF CommandKept, Routable
    <2>2. cmd # NoCommand =>
            \A p \in Ops : /\ p \in Leased' => p \in Leased /\ ops'[p].gen = ops[p].gen
                           /\ p \in Committing' => p \in Committing
      BY <1>1, <2>1, GainsByPhase
    <2>3. Leased' \subseteq Ops /\ Committing' \subseteq Ops
      BY DEF Leased, Committing
    <2> QED
      BY <1>1, <1>2, <1>3, <2>2, <2>3 DEF CommandKept, Blocks
  <1>8. CleanupsKept'
    BY <1>1, <1>4 DEF CleanupsKept, Pending, Holds
  <1>9. DrainsKept'
    <2> SUFFICES ASSUME NEW k \in Cleanups
                 PROVE  /\ k[2] = "retire" => cleanups'[k].at \notin {"begin", "leases"}
                        /\ k[2] = "auth" => cleanups'[k].at # "commits"
                        /\ cleanups'[k].at = "commits" => cleanups'[k].wait # "leases"
                        /\ cleanups'[k].at = "leases" => cleanups'[k].wait # "commits"
                        /\ Holds(k[1])' => Drained(k)'
      BY DEF DrainsKept
    <2>1. ASSUME Holds(k[1]), Pending(k) PROVE ~Routable
      BY <2>1 DEF CleanupsKept, Routable
    <2>2. ASSUME Holds(k[1]), Pending(k)
          PROVE  \A p \in Ops : /\ p \in Leased' => p \in Leased /\ ops'[p].gen = ops[p].gen
                                /\ p \in Committing' => p \in Committing /\ ops'[p].gen = ops[p].gen
      BY <1>1, <2>1, <2>2, GainsByPhase
    <2>3. Leased' \subseteq Ops /\ Committing' \subseteq Ops
      BY DEF Leased, Committing
    <2>4. Holds(k[1])' => Drained(k)'
      BY <1>1, <1>4, <2>2, <2>3 DEF DrainsKept, Drained, Holds, Pending
    <2> QED
      BY <1>4, <2>4 DEF DrainsKept
  <1>10. TransitionKept'
    BY <1>1, <1>3 DEF TransitionKept
  <1>11. LeasesKept'
    <2>1. \A o \in Leased' : o \in Ops
      BY DEF Leased
    <2>2. Routable => /\ plugin # 0 /\ state = "active" /\ plugin = generation /\ ~Blocks
                      /\ cmd = NoCommand /\ startFuture = 0
      BY DEF Routable, StartsKept, CommandKept
    <2>3. generation # 0 => generation \in Gens
      BY Generations DEF Gens
    <2>4. \A o \in Leased' : ops'[o].gen \in Gens /\ ops'[o].gen # startFuture
      BY <1>1, <2>1, <2>2, <2>3, GainsByPhase DEF LeasesKept, Gens
    <2>5. ASSUME plugin # 0, plugin # generation \/ (~Blocks /\ state # "active")
          PROVE  \A o \in Leased' : ops'[o].gen # plugin
      BY <1>1, <2>1, <2>2, <2>5, GainsByPhase DEF LeasesKept
    <2>6. ASSUME cmd # NoCommand, ~cmd.force, plugin # 0
          PROVE  \A o \in Leased' : ops'[o].gen # plugin
      BY <1>1, <2>1, <2>2, <2>6, GainsByPhase DEF LeasesKept
    <2> QED
      BY <1>1, <1>2, <1>3, <2>4, <2>5, <2>6 DEF LeasesKept, Blocks
  <1> QED
    BY <1>5, <1>6, <1>7, <1>8, <1>9, <1>10, <1>11

\* The shutdown of the bridge wakes the waits for leases, a wait each may end.
LEMMA RestKeeps ==
  ASSUME SlotInv,
         \/ \E ready \in BOOLEAN : ApplyAccess(ready)
         \/ \E g \in Gens : ShutdownEnds(g)
         \/ BeginShutdown \/ DisposeBegins \/ DisposeSteps
  PROVE  /\ StartsKept' /\ BackendKept' /\ CommandKept' /\ CleanupsKept'
         /\ DrainsKept' /\ TransitionKept' /\ LeasesKept'
  <1> USE DEF SlotInv
  <1>1. UNCHANGED <<generation, state, transition, plugin, startFuture, startAt, outcome,
                    cleanupFuture, ops>>
    BY DEF ApplyAccess, ShutdownEnds, BeginShutdown, DisposeBegins, DisposeSteps,
       DisposePastStart, DisposePastCommand, DisposeTakesDown, DisposeEnds, DisposeOnly, starts
  <1>2. \/ UNCHANGED <<cmd, cleanups, shuttingDown>>
        \/ BeginShutdown
    BY DEF ApplyAccess, ShutdownEnds, DisposeBegins, DisposeSteps,
       DisposePastStart, DisposePastCommand, DisposeTakesDown, DisposeEnds, DisposeOnly, waiters
  <1>3. /\ cmd'.force = cmd.force /\ cmd'.at = cmd.at /\ cmd'.start = cmd.start
        /\ cmd = NoCommand => cmd' = NoCommand
        /\ \/ cmd'.wait = cmd.wait
           \/ cmd'.wait = "none" /\ cmd.wait = "leases"
    BY <1>2 DEF BeginShutdown, SlotTypes, Commands, NoCommand
  <1>4. cmd' = NoCommand <=> cmd = NoCommand
    BY <1>3 DEF CommandKept, NoCommand
  <1>5. ASSUME NEW k \in Cleanups
        PROVE  /\ cleanups'[k].at = cleanups[k].at
               /\ \/ cleanups'[k].wait = cleanups[k].wait
                  \/ cleanups'[k].wait = "none" /\ cleanups[k].wait = "leases" /\ shuttingDown'
    BY <1>2 DEF BeginShutdown, SlotTypes, CleanupStates
  <1>6. shuttingDown => shuttingDown'
    BY <1>2 DEF BeginShutdown
  <1>7. StartsKept'
    BY <1>1, <1>4 DEF StartsKept
  <1>8. BackendKept'
    <2>1. CASE BeginShutdown
      BY <2>1 DEF BeginShutdown, BackendKept
    <2>2. CASE \E g \in Gens : ShutdownEnds(g)
      BY <2>2, Generations DEF ShutdownEnds, BackendKept, SlotTypes, TypeOK, waiters
    <2>3. CASE DisposeTakesDown
      <3>1. shuttingDown
        BY <2>3 DEF DisposeTakesDown, BackendKept, NotDisposed
      <3> QED
        BY <1>6, <3>1 DEF BackendKept
    <2>4. CASE \/ \E ready \in BOOLEAN : ApplyAccess(ready)
               \/ DisposeBegins \/ DisposePastStart \/ DisposePastCommand \/ DisposeEnds
      BY <2>4 DEF ApplyAccess, DisposeBegins, DisposePastStart, DisposePastCommand, DisposeEnds,
         DisposeOnly, BackendKept, NotDisposed, waiters
    <2> QED
      BY <2>1, <2>2, <2>3, <2>4 DEF DisposeSteps
  <1>9. CommandKept'
    BY <1>1, <1>3, <1>4 DEF CommandKept, Blocks, Leased, Committing
  <1>10. CleanupsKept'
    BY <1>1, <1>5 DEF CleanupsKept, Pending, Holds
  <1>11. DrainsKept'
    BY <1>1, <1>5, <1>6 DEF DrainsKept, Drained, Holds, Leased, Committing
  <1>12. TransitionKept'
    BY <1>1, <1>4 DEF TransitionKept
  <1>13. LeasesKept'
    BY <1>1, <1>3, <1>4 DEF LeasesKept, Blocks, Leased
  <1> QED
    BY <1>7, <1>8, <1>9, <1>10, <1>11, <1>12, <1>13

-----------------------------------------------------------------------------
(* The steps of starts.                                                     *)

\* The operations keep what they had, or end it, and wake who waited for that.
OpsShrink ==
  /\ \A p \in Leased' : p \in Leased /\ ops'[p].gen = ops[p].gen
  /\ \A p \in Committing' : p \in Committing /\ ops'[p].gen = ops[p].gen
  /\ disposal = NotDisposed => disposal' = NotDisposed
  /\ \A k \in Cleanups :
       /\ cleanups'[k].at = cleanups[k].at
       /\ \/ cleanups'[k].wait = cleanups[k].wait
          \/ cleanups'[k].wait = "none" /\ cleanups[k].wait = "leases" /\ Leased' = {}
          \/ cleanups'[k].wait = "none" /\ cleanups[k].wait = "commits" /\ Committing' = {}

LEMMA UnchangedShrinks ==
  ASSUME UNCHANGED <<ops, cleanups, disposal>>
  PROVE  OpsShrink
  BY DEF OpsShrink, Leased, Committing

\* A new generation begins beside no plugin, or beside one that is not active,
\* that no transition guards and on which, therefore, no lease is left.
BeginsBeside ==
  /\ startFuture = 0
  /\ UNCHANGED <<plugin, cleanupFuture, life, shuttingDown>>
  /\ OpsShrink
  /\ \/ /\ BeginStart("starting")
        /\ cmd = NoCommand /\ cmd' = NoCommand
        /\ transition = "none"
        /\ plugin # 0 => state # "active"
     \/ /\ BeginStart("restarting")
        /\ cmd # NoCommand /\ cmd' # NoCommand
        /\ cmd'.at = "restart" /\ cmd'.start = generation + 1
        /\ plugin = 0

LEMMA BeginKeeps ==
  ASSUME SlotInv, BeginsBeside
  PROVE  /\ StartsKept' /\ BackendKept' /\ CommandKept' /\ CleanupsKept'
         /\ DrainsKept' /\ TransitionKept' /\ LeasesKept'
  <1> USE DEF SlotInv
  <1>1. /\ generation \in Nat /\ plugin \in 0..generation /\ MaxGenerations \in Nat
        /\ generation + 1 \in Gens /\ generation' = generation + 1
        /\ startFuture' = generation + 1 /\ startAt' = "provisioning" /\ state' = "starting"
        /\ transition' \in {"starting", "restarting"} /\ outcome' = outcome
        /\ UNCHANGED <<plugin, cleanupFuture, life, shuttingDown>>
    BY Generations DEF BeginsBeside, BeginStart, Gens
  <1>2. /\ cmd' # NoCommand <=> transition' = "restarting"
        /\ cmd' # NoCommand => /\ cmd'.at = "restart" /\ cmd'.start = generation + 1
                               /\ plugin = 0
    BY DEF BeginsBeside, BeginStart
  <1>3. ASSUME NEW o \in Leased'
        PROVE  o \in Leased /\ ops'[o].gen = ops[o].gen /\ ops[o].gen \in Gens
               /\ ops[o].gen <= generation
    <2>1. o \in Leased /\ o \in Ops /\ ops'[o].gen = ops[o].gen
      BY DEF BeginsBeside, OpsShrink, Leased
    <2> QED
      BY <1>1, <2>1 DEF LeasesKept, SlotTypes, TypeOK
  <1>4. plugin # 0 => \A o \in Leased : ops[o].gen # plugin
    BY DEF BeginsBeside, LeasesKept, Blocks
  <1>5. StartsKept'
    BY <1>1, <1>2 DEF StartsKept, Gens
  <1>6. BackendKept'
    BY <1>1 DEF BackendKept, BeginsBeside, OpsShrink
  <1>7. CommandKept'
    BY <1>1, <1>2, <1>3 DEF CommandKept, Blocks, NoCommand
  <1>8. \A g \in Gens : ~Holds(g)'
    BY <1>1 DEF Holds
  <1>9. CleanupsKept'
    <2>1. ASSUME NEW k \in Cleanups, cleanups'[k].at # "none"
          PROVE  k[1] <= generation' /\ k[1] # startFuture'
      BY <1>1, <2>1, CleanupPairs DEF BeginsBeside, OpsShrink, CleanupsKept, Gens
    <2> QED
      BY <1>8, <2>1, CleanupPairs DEF CleanupsKept
  <1>10. DrainsKept'
    BY <1>8, CleanupPairs DEF BeginsBeside, OpsShrink, DrainsKept
  <1>11. TransitionKept'
    BY <1>1, <1>2 DEF TransitionKept
  <1>12. LeasesKept'
    BY <1>1, <1>2, <1>3, <1>4 DEF LeasesKept
  <1> QED
    BY <1>5, <1>6, <1>7, <1>9, <1>10, <1>11, <1>12

LEMMA StartsKeep ==
  ASSUME SlotInv,
         \/ \E o \in Ops : AcquireStarting(o)
         \/ StartEagerly \/ StartSteps
  PROVE  /\ StartsKept' /\ BackendKept' /\ CommandKept' /\ CleanupsKept'
         /\ DrainsKept' /\ TransitionKept' /\ LeasesKept'
  <1> USE DEF SlotInv
  <1>1. ASSUME NEW o \in Ops, AcquireStarting(o) PROVE BeginsBeside
    <2>1. ops' = OpIs(o, "starting", generation + 1) /\ Woken(cmd, cmd')
          /\ Woken(disposal, disposal')
          /\ \A k \in Cleanups : Woken(cleanups[k], cleanups'[k])
      BY <1>1, OpsWake DEF AcquireStarting, OpsBecome
    <2>2. \A p \in Ops : ops'[p] = IF p = o THEN [phase |-> "starting", gen |-> generation + 1]
                                   ELSE ops[p]
      BY <2>1 DEF OpIs, SlotTypes, TypeOK
    <2>3. OpsShrink
      <3>1. \A p \in Leased' : p \in Leased /\ ops'[p].gen = ops[p].gen
        BY <2>2 DEF Leased
      <3>2. \A p \in Committing' : p \in Committing /\ ops'[p].gen = ops[p].gen
        BY <2>2 DEF Committing
      <3>3. disposal = NotDisposed => disposal' = NotDisposed
        BY <2>1, WokenIsThere
      <3>4. \A k \in Cleanups : cleanups[k] \in CleanupStates
        BY DEF SlotTypes
      <3>5. ASSUME NEW k \in Cleanups
            PROVE  /\ cleanups'[k].at = cleanups[k].at
                   /\ \/ cleanups'[k].wait = cleanups[k].wait
                      \/ /\ cleanups'[k].wait = "none" /\ cleanups[k].wait = "leases"
                         /\ Leased' = {}
                      \/ /\ cleanups'[k].wait = "none" /\ cleanups[k].wait = "commits"
                         /\ Committing' = {}
        BY <2>1, <3>4, WokenIsThere
      <3> QED
        BY <3>1, <3>2, <3>3, <3>5 DEF OpsShrink
    <2>4. cmd = NoCommand
      BY <1>1 DEF AcquireStarting, CommandKept, Admitted
    <2>5. cmd' = NoCommand
      BY <2>1, <2>4, WokenIsThere DEF SlotTypes
    <2> QED
      BY <1>1, <2>3, <2>4, <2>5 DEF AcquireStarting, Admitted, Routable, BeginsBeside
  <1>2. CASE StartEagerly
    <2>1. cmd = NoCommand
      BY <1>2 DEF StartEagerly, CommandKept, Blocks
    <2> QED
      BY <1>2, <2>1, UnchangedShrinks, BeginKeeps
      DEF StartEagerly, Routable, Blocks, BeginsBeside, waiters
  <1>3. ASSUME startAt # "none"
        PROVE  /\ startFuture # 0 /\ startFuture = generation /\ startFuture \in Gens
               /\ plugin # generation
               /\ cmd.at \in {"none", "start", "restart"}
               /\ transition = "starting" \/ (cmd # NoCommand /\ Blocks)
               /\ state # "active"
    BY <1>3, Generations DEF StartsKept, CommandKept
  <1>4. CASE StartDiscards
    <2>1. startAt # "none"
      BY <1>4 DEF StartDiscards
    <2>2. /\ startAt' # "none" /\ state' # "active"
          /\ UNCHANGED <<generation, transition, plugin, startFuture, outcome, cleanupFuture,
                         ops, shuttingDown, cmd, cleanups, disposal>>
      BY <1>3, <1>4, <2>1 DEF StartDiscards, waiters
    <2>3. \A g : g # startFuture => life'[g] = life[g]
      BY <1>4 DEF StartDiscards, SlotTypes, TypeOK
    <2>4. StartsKept'
      BY <1>3, <2>1, <2>2 DEF StartsKept
    <2>5. BackendKept'
      BY <1>3, <2>1, <2>2, <2>3, Generations DEF BackendKept
    <2>6. CommandKept' /\ DrainsKept'
      BY <2>2 DEF CommandKept, Blocks, Leased, Committing, DrainsKept, Drained, Holds
    <2>7. CleanupsKept'
      BY <2>2 DEF CleanupsKept, Pending, Holds
    <2>8. TransitionKept'
      BY <1>3, <2>1, <2>2 DEF TransitionKept, Blocks
    <2>9. LeasesKept'
      BY <1>3, <2>1, <2>2 DEF LeasesKept, Leased, Blocks
    <2> QED
      BY <2>4, <2>5, <2>6, <2>7, <2>8, <2>9
  <1>5. CASE StartSucceeds
    <2>1. /\ startAt # "none" /\ ~shuttingDown /\ EndStart("answered")
          /\ plugin' = startFuture /\ state' = "active" /\ startAt' = "none" /\ startFuture' = 0
          /\ UNCHANGED <<generation, cleanupFuture, ops, shuttingDown, cmd, cleanups, disposal>>
          /\ transition' = IF transition = "starting" THEN "none" ELSE transition
          /\ outcome' = [outcome EXCEPT ![startFuture] = "answered"]
          /\ life' = [life EXCEPT ![startFuture] = "alive"]
      BY <1>5 DEF StartSucceeds, Unwanted, waiters, EndStart
    <2>2. StartsKept'
      BY <1>3, <2>1, Generations DEF StartsKept, SlotTypes, TypeOK, Gens
    <2>3. BackendKept'
      BY <1>3, <2>1 DEF BackendKept, SlotTypes, TypeOK
    <2>4. CommandKept'
      BY <1>3, <2>1 DEF CommandKept, Blocks, Leased, Committing
    <2>5. \A k \in Cleanups : Holds(k[1])' => cleanups[k].at = "none"
      BY <2>1 DEF Holds, CleanupsKept
    <2>6. CleanupsKept'
      BY <2>1, <2>5, CleanupPairs DEF CleanupsKept, Pending, Gens
    <2>7. DrainsKept'
      BY <2>1, <2>5 DEF DrainsKept, Drained
    <2>8. TransitionKept'
      BY <1>3, <2>1 DEF TransitionKept, Blocks
    <2>9. LeasesKept'
      BY <1>3, <2>1 DEF LeasesKept, Leased, Gens
    <2> QED
      BY <2>2, <2>3, <2>4, <2>6, <2>7, <2>8, <2>9
  <1>6. CASE StartDiscarded \/ StartFails
    <2>1. PICK how : /\ startAt # "none" /\ EndStart(how) /\ state' = "failed"
                     /\ UNCHANGED <<generation, plugin, cleanupFuture, ops, life, shuttingDown,
                                    cmd, cleanups, disposal>>
      BY <1>6 DEF StartDiscarded, StartFails, waiters
    <2>2. /\ startAt' = "none" /\ startFuture' = 0
          /\ transition' = IF transition = "starting" THEN "none" ELSE transition
          /\ outcome' = [outcome EXCEPT ![startFuture] = how]
      BY <2>1 DEF EndStart
    <2>3. StartsKept'
      BY <1>3, <2>1, <2>2, Generations DEF StartsKept, SlotTypes, TypeOK, Gens
    <2>4. BackendKept'
      BY <2>1 DEF BackendKept
    <2>5. CommandKept'
      BY <1>3, <2>1, <2>2 DEF CommandKept, Blocks, Leased, Committing
    <2>6. CleanupsKept' /\ DrainsKept'
      BY <2>1, <2>2, CleanupPairs DEF CleanupsKept, Pending, Holds, DrainsKept, Drained, Leased,
         Committing, Gens
    <2>7. TransitionKept'
      BY <1>3, <2>1, <2>2 DEF TransitionKept, Blocks
    <2>8. LeasesKept'
      BY <1>3, <2>1, <2>2 DEF LeasesKept, Leased, Gens
    <2> QED
      BY <2>3, <2>4, <2>5, <2>6, <2>7, <2>8
  <1> QED
    BY <1>1, <1>2, <1>4, <1>5, <1>6, BeginKeeps DEF StartSteps

-----------------------------------------------------------------------------
(* The steps of commands.                                                   *)

\* A command begins when nothing is in transition, or takes over by force; a
\* safe one finds no start under way and, where there is a plugin, no lease.
LEMMA BeginningKeeps ==
  ASSUME SlotInv, NEW kind \in {"stop", "restart", "disable"}, NEW force \in BOOLEAN,
         CommandBegins(kind, force)
  PROVE  /\ StartsKept' /\ BackendKept' /\ CommandKept' /\ CleanupsKept'
         /\ DrainsKept' /\ TransitionKept' /\ LeasesKept'
  <1> USE DEF SlotInv
  <1>1. /\ transition' = IF kind = "restart" THEN "restarting" ELSE "stopping"
        /\ cmd = NoCommand
        /\ UNCHANGED <<generation, state, plugin, startFuture, startAt, outcome, cleanupFuture,
                       ops, life, shuttingDown, cleanups, disposal>>
    BY DEF CommandBegins
  <1>2. /\ cmd'.at \in {"start", "prepared"} /\ cmd'.start = startFuture /\ cmd'.force = force
        /\ cmd'.at = "prepared" => ~HadPlugin
    BY DEF CommandBegins, NoCommand
  <1>3. cmd' # NoCommand
    BY <1>2 DEF NoCommand
  <1>4. ~force => transition = "none" /\ (plugin # 0 => Leased = {})
    BY DEF CommandBegins, NoLeaseInUse, HadPlugin
  <1>5. StartsKept'
    BY <1>1, <1>3 DEF StartsKept
  <1>6. BackendKept'
    BY <1>1 DEF BackendKept
  <1>7. CommandKept'
    BY <1>1, <1>2, <1>3 DEF CommandKept, Blocks, HadPlugin
  <1>8. CleanupsKept'
    BY <1>1 DEF CleanupsKept, Pending, Holds
  <1>9. DrainsKept'
    BY <1>1 DEF DrainsKept, Drained, Holds, Leased, Committing
  <1>10. TransitionKept'
    BY <1>1, <1>3 DEF TransitionKept
  <1>11. LeasesKept'
    BY <1>1, <1>2, <1>4 DEF LeasesKept, Leased, Blocks
  <1> QED
    BY <1>5, <1>6, <1>7, <1>8, <1>9, <1>10, <1>11

\* A command that goes on changes its own locals only.
LEMMA CommandGoesOn ==
  ASSUME SlotInv, CommandOnly, cmd # NoCommand, cmd' # NoCommand,
         cmd'.force = cmd.force, cmd'.at \in {"cleanup", "leases", "commits", "interrupt"},
         startFuture = 0,
         cmd'.at = "commits" => cmd'.wait # "leases" /\ (cmd'.wait = "none" => Committing = {}),
         cmd'.at = "interrupt" => Committing = {}
  PROVE  /\ StartsKept' /\ BackendKept' /\ CommandKept' /\ CleanupsKept'
         /\ DrainsKept' /\ TransitionKept' /\ LeasesKept'
  <1> USE DEF SlotInv
  <1>1. UNCHANGED <<generation, state, transition, plugin, startFuture, startAt, outcome,
                    cleanupFuture, ops, life, shuttingDown, cleanups, disposal>>
    BY DEF CommandOnly, starts
  <1>2. StartsKept' /\ BackendKept'
    BY <1>1 DEF StartsKept, BackendKept
  <1>3. CommandKept'
    BY <1>1 DEF CommandKept, Blocks, Committing
  <1>4. CleanupsKept' /\ DrainsKept'
    BY <1>1 DEF CleanupsKept, Pending, Holds, DrainsKept, Drained, Leased, Committing
  <1>5. TransitionKept'
    BY <1>1 DEF TransitionKept
  <1>6. LeasesKept'
    BY <1>1 DEF LeasesKept, Leased, Blocks
  <1> QED
    BY <1>2, <1>3, <1>4, <1>5, <1>6

\* The command's plugin leaves the slot, and is closed.
LEMMA TakeDownKeeps ==
  ASSUME SlotInv, TakeDown, cmd # NoCommand, startFuture = 0
  PROVE  /\ StartsKept' /\ BackendKept' /\ CommandKept' /\ CleanupsKept'
         /\ DrainsKept' /\ TransitionKept' /\ LeasesKept'
  <1> USE DEF SlotInv
  <1>1. /\ plugin' = 0 /\ state' = "stopping"
        /\ UNCHANGED <<generation, transition, startFuture, startAt, outcome, cleanupFuture, ops,
                       shuttingDown, cleanups, disposal>>
    BY DEF TakeDown, starts
  <1>2. cmd'.at = "shutdown" /\ cmd'.force = cmd.force
    BY DEF TakeDown, SlotTypes, Commands
  <1>3. cmd' # NoCommand
    BY <1>2 DEF NoCommand
  <1>4. \A g \in Gens : ~Holds(g)'
    BY <1>1 DEF Holds, Gens
  <1>5. StartsKept' /\ BackendKept'
    BY <1>1, <1>3 DEF StartsKept, BackendKept
  <1>6. CommandKept'
    BY <1>1, <1>2, <1>3 DEF CommandKept, Blocks
  <1>7. CleanupsKept'
    BY <1>1, <1>4, CleanupPairs DEF CleanupsKept
  <1>8. DrainsKept'
    BY <1>1, <1>4, CleanupPairs DEF DrainsKept
  <1>9. TransitionKept'
    BY <1>1, <1>3 DEF TransitionKept
  <1>10. LeasesKept'
    BY <1>1 DEF LeasesKept, Leased
  <1> QED
    BY <1>5, <1>6, <1>7, <1>8, <1>9, <1>10

\* A command that settles ends its transition; it leaves no plugin behind, or
\* the one that its restart started and on which it kept everyone from a lease.
LEMMA SettleKeeps ==
  ASSUME SlotInv, Settle, cmd # NoCommand, startFuture = 0, state' # "active" \/ state' = state,
         plugin = 0 \/ cmd.at = "restart",
         UNCHANGED <<generation, plugin, starts, cleanupFuture, ops, life, shuttingDown,
                     cleanups, disposal>>
  PROVE  /\ StartsKept' /\ BackendKept' /\ CommandKept' /\ CleanupsKept'
         /\ DrainsKept' /\ TransitionKept' /\ LeasesKept'
  <1> USE DEF SlotInv
  <1>1. cmd' = NoCommand /\ transition' = "none" /\ NoCommand.at = "none"
    BY DEF Settle, NoCommand
  <1>2. UNCHANGED <<startFuture, startAt, outcome>>
    BY DEF starts
  <1>3. StartsKept' /\ BackendKept'
    BY <1>2 DEF StartsKept, BackendKept
  <1>4. CommandKept'
    BY <1>1, <1>2 DEF CommandKept
  <1>5. CleanupsKept'
    BY <1>2 DEF CleanupsKept, Pending, Holds
  <1>6. DrainsKept'
    BY DEF DrainsKept, Drained, Holds, Leased, Committing
  <1>7. TransitionKept'
    BY <1>1 DEF TransitionKept
  <1>8. LeasesKept'
    BY <1>1, <1>2 DEF LeasesKept, Leased, CommandKept
  <1> QED
    BY <1>3, <1>4, <1>5, <1>6, <1>7, <1>8

LEMMA CommandsKeep ==
  ASSUME SlotInv, CommandSteps
  PROVE  /\ StartsKept' /\ BackendKept' /\ CommandKept' /\ CleanupsKept'
         /\ DrainsKept' /\ TransitionKept' /\ LeasesKept'
  <1> USE DEF SlotInv
  <1>1. \A at \in {"start", "cleanup", "leases", "commits", "interrupt", "shutdown", "restart",
                   "prepared"} : cmd.at = at => cmd # NoCommand
    BY DEF NoCommand
  <1>2. ASSUME StartEnded(cmd.start), cmd.at \in {"start", "restart"} PROVE startFuture = 0
    BY <1>2 DEF StartEnded, StartsKept, CommandKept
  <1>3. CASE CommandPastStart \/ CommandPastCleanup \/ CommandPastLeases \/ CommandInterrupts
    <2>1. /\ CommandOnly /\ cmd.at \in {"start", "cleanup", "leases", "commits"}
          /\ startFuture = 0
      BY <1>2, <1>3 DEF CommandPastStart, CommandPastCleanup, CommandPastLeases,
         CommandInterrupts, CommandKept
    <2>2. cmd'.force = cmd.force /\ cmd'.at \in {"cleanup", "leases", "commits", "interrupt"}
      BY <1>3 DEF CommandPastStart, CommandPastCleanup, CommandPastLeases, CommandInterrupts,
         SlotTypes, Commands
    <2>3. /\ cmd'.at = "commits" => cmd'.wait # "leases" /\ (cmd'.wait = "none" => Committing = {})
          /\ cmd'.at = "interrupt" => Committing = {}
      BY <1>3, WaitsAreOwn DEF CommandPastStart, CommandPastCleanup, CommandPastLeases,
         CommandInterrupts, SlotTypes, Commands, CommandKept
    <2>4. cmd # NoCommand /\ cmd' # NoCommand
      BY <2>1, <2>2 DEF NoCommand
    <2> QED
      BY <2>1, <2>2, <2>3, <2>4, CommandGoesOn
  <1>4. CASE CommandTakesDown \/ BarrierTimesOut
    BY <1>1, <1>4, TakeDownKeeps DEF CommandTakesDown, BarrierTimesOut, CommandKept
  <1>5. CASE CommandFails \/ StopApplied \/ DisableEnds
    <2>1. cmd.at \in {"shutdown", "prepared"}
      BY <1>5 DEF CommandFails, StopApplied, DisableEnds, CommandDown
    <2>2. cmd # NoCommand /\ startFuture = 0 /\ plugin = 0
      BY <1>1, <2>1 DEF CommandKept
    <2> QED
      BY <1>5, <2>2, SettleKeeps DEF CommandFails, StopApplied, DisableEnds
  <1>6. CASE CommandRestarted
    <2>1. cmd # NoCommand /\ startFuture = 0 /\ cmd.at = "restart"
      BY <1>1, <1>2, <1>6 DEF CommandRestarted
    <2> QED
      BY <1>6, <2>1, SettleKeeps DEF CommandRestarted
  <1>7. CASE DisablePrepared
    <2>1. cmd.at = "shutdown" /\ startFuture = 0 /\ plugin = 0 /\ cmd # NoCommand
      BY <1>1, <1>7 DEF DisablePrepared, CommandDown, CommandKept
    <2>2. /\ state' = "dormant"
          /\ UNCHANGED <<generation, transition, plugin, startFuture, startAt, outcome,
                         cleanupFuture, ops, life, shuttingDown, cleanups, disposal>>
      BY <1>7 DEF DisablePrepared, starts
    <2>3. cmd'.at = "prepared" /\ cmd'.force = cmd.force
      BY <1>7 DEF DisablePrepared, SlotTypes, Commands
    <2>4. cmd' # NoCommand
      BY <2>3 DEF NoCommand
    <2>5. StartsKept' /\ BackendKept'
      BY <2>1, <2>2, <2>4 DEF StartsKept, BackendKept
    <2>6. CommandKept'
      BY <2>1, <2>2, <2>3, <2>4 DEF CommandKept, Blocks
    <2>7. CleanupsKept'
      BY <2>2 DEF CleanupsKept, Pending, Holds
    <2>8. DrainsKept'
      BY <2>2 DEF DrainsKept, Drained, Holds, Leased, Committing
    <2>9. TransitionKept'
      BY <2>1, <2>2, <2>4 DEF TransitionKept
    <2>10. LeasesKept'
      BY <2>1, <2>2 DEF LeasesKept, Leased
    <2> QED
      BY <2>5, <2>6, <2>7, <2>8, <2>9, <2>10
  <1>8. CASE RestartStarts
    <2>1. cmd.at = "shutdown" /\ startFuture = 0 /\ plugin = 0 /\ cmd # NoCommand
      BY <1>1, <1>8 DEF RestartStarts, CommandDown, CommandKept
    <2>2. cmd'.at = "restart" /\ cmd'.start = generation + 1
      BY <1>8 DEF RestartStarts, SlotTypes, Commands
    <2>3. cmd' # NoCommand
      BY <2>2 DEF NoCommand
    <2>4. BeginsBeside
      BY <1>8, <2>1, <2>2, <2>3, UnchangedShrinks DEF RestartStarts, BeginsBeside
    <2> QED
      BY <2>4, BeginKeeps
  <1> QED
    BY <1>3, <1>4, <1>5, <1>6, <1>7, <1>8 DEF CommandSteps

-----------------------------------------------------------------------------
(* The steps of a generation that ends by itself.                           *)

\* A generation that reports is the slot's newest, and no start is under way.
LEMMA ReportingIsNewest ==
  ASSUME SlotInv, plugin # 0, plugin = generation
  PROVE  startFuture = 0 /\ plugin \in Gens /\ <<plugin, "retire">> \in Cleanups
         /\ <<plugin, "auth">> \in Cleanups
  BY Generations, CleanupPairs DEF SlotInv, StartsKept

LEMMA StoppingKeeps ==
  ASSUME SlotInv, PluginStopping
  PROVE  /\ StartsKept' /\ BackendKept' /\ CommandKept' /\ CleanupsKept'
         /\ DrainsKept' /\ TransitionKept' /\ LeasesKept'
  <1> USE DEF SlotInv
  <1>1. /\ plugin # 0 /\ plugin = generation /\ state' = "stopping"
        /\ transition' = IF cmd = NoCommand THEN "stopping" ELSE transition
        /\ UNCHANGED <<generation, plugin, startFuture, startAt, outcome, cleanupFuture, ops,
                       life, shuttingDown, cmd, cleanups, disposal>>
    BY DEF PluginStopping, Reporting, starts, waiters
  <1>2. startFuture = 0 /\ Blocks'
    BY <1>1, ReportingIsNewest DEF Blocks, CommandKept
  <1>3. StartsKept' /\ BackendKept'
    BY <1>1, <1>2 DEF StartsKept, BackendKept
  <1>4. CommandKept'
    BY <1>1, <1>2 DEF CommandKept, Leased, Committing
  <1>5. CleanupsKept' /\ DrainsKept'
    BY <1>1 DEF CleanupsKept, Pending, Holds, DrainsKept, Drained, Leased, Committing
  <1>6. TransitionKept'
    BY <1>1 DEF TransitionKept
  <1>7. LeasesKept'
    BY <1>1, <1>2 DEF LeasesKept, Leased
  <1> QED
    BY <1>3, <1>4, <1>5, <1>6, <1>7

LEMMA DroppingKeeps ==
  ASSUME SlotInv, ReportIsDropped
  PROVE  /\ StartsKept' /\ BackendKept' /\ CommandKept' /\ CleanupsKept'
         /\ DrainsKept' /\ TransitionKept' /\ LeasesKept'
  <1> USE DEF SlotInv
  <1>1. /\ plugin # 0 /\ plugin = generation
        /\ UNCHANGED <<generation, state, transition, plugin, startFuture, startAt, outcome,
                       cleanupFuture, ops, life, shuttingDown, cmd, disposal>>
    BY DEF ReportIsDropped, Reporting, starts
  <1>2. startFuture = 0 /\ <<plugin, "retire">> \in Cleanups /\ plugin \in Gens
    BY <1>1, ReportingIsNewest
  <1>3. \A k \in Cleanups :
          cleanups'[k] = IF k = <<plugin, "retire">> THEN Cleanup("dropped") ELSE cleanups[k]
    BY <1>2 DEF ReportIsDropped, SlotTypes
  <1>4. Cleanup("dropped").at = "dropped"
    BY DEF Cleanup
  <1>5. StartsKept' /\ BackendKept' /\ CommandKept' /\ TransitionKept' /\ LeasesKept'
    BY <1>1 DEF StartsKept, BackendKept, CommandKept, TransitionKept, LeasesKept, Leased,
       Committing, Blocks
  <1>6. CleanupsKept'
    <2>1. \A k \in Cleanups : cleanups'[k].at # "none" => k[1] <= generation /\ k[1] # startFuture
      BY <1>1, <1>2, <1>3, Generations DEF CleanupsKept
    <2> QED
      BY <1>1, <1>3, <1>4, <2>1 DEF CleanupsKept, Pending, Holds
  <1>7. DrainsKept'
    BY <1>1, <1>3, <1>4, CleanupPairs DEF DrainsKept, Drained, Holds, Leased, Committing
  <1> QED
    BY <1>5, <1>6, <1>7

LEMMA RetireKeeps ==
  ASSUME SlotInv, NEW clean, Retire(clean)
  PROVE  /\ StartsKept' /\ BackendKept' /\ CommandKept' /\ CleanupsKept'
         /\ DrainsKept' /\ TransitionKept' /\ LeasesKept'
  <1> USE DEF SlotInv
  <1>1. /\ plugin # 0 /\ plugin = generation /\ state' = "stopping"
        /\ transition' = IF cmd = NoCommand THEN "stopping" ELSE transition
        /\ cleanupFuture' = <<plugin, "retire">>
        /\ UNCHANGED <<generation, plugin, startFuture, startAt, outcome, ops,
                       life, shuttingDown, cmd, disposal>>
    BY DEF Retire, Reporting, starts
  <1>2. startFuture = 0 /\ Blocks' /\ <<plugin, "retire">> \in Cleanups /\ plugin \in Gens
    BY <1>1, ReportingIsNewest DEF Blocks, CommandKept
  <1>3. \A k \in Cleanups :
          cleanups'[k] = IF k = <<plugin, "retire">>
                         THEN [at |-> "commits", wait |-> CommitWait, start |-> 0, clean |-> clean]
                         ELSE cleanups[k]
    BY <1>2 DEF Retire, SlotTypes
  <1>4. StartsKept' /\ BackendKept'
    BY <1>1, <1>2 DEF StartsKept, BackendKept
  <1>5. CommandKept'
    BY <1>1, <1>2 DEF CommandKept, Leased, Committing
  <1>6. CleanupsKept'
    <2>1. \A k \in Cleanups : cleanups'[k].at # "none" => k[1] <= generation /\ k[1] # startFuture
      BY <1>1, <1>2, <1>3, Generations DEF CleanupsKept
    <2>2. \A k \in Cleanups : cleanups'[k].at \in {"shutdown", "start", "done"} => ~Holds(k[1])
      BY <1>3 DEF CleanupsKept
    <2>3. \A g \in Gens : Holds(g)' => g = plugin /\ cleanupFuture'[1] = g
      BY <1>1 DEF Holds
    <2> QED
      BY <1>1, <2>1, <2>2, <2>3, CleanupPairs DEF CleanupsKept, Holds
  <1>7. DrainsKept'
    <2> SUFFICES ASSUME NEW k \in Cleanups
                 PROVE  /\ k[2] = "retire" => cleanups'[k].at \notin {"begin", "leases"}
                        /\ k[2] = "auth" => cleanups'[k].at # "commits"
                        /\ cleanups'[k].at = "commits" => cleanups'[k].wait # "leases"
                        /\ cleanups'[k].at = "leases" => cleanups'[k].wait # "commits"
                        /\ Holds(k[1])' => Drained(k)'
      BY DEF DrainsKept
    <2>1. CASE k = <<plugin, "retire">>
      BY <1>1, <1>3, <2>1, WaitsAreOwn DEF Drained, Committing
    <2>2. CASE k # <<plugin, "retire">>
      BY <1>1, <1>3, <2>2 DEF DrainsKept, Drained, Holds, Leased, Committing
    <2> QED
      BY <2>1, <2>2
  <1>8. TransitionKept'
    BY <1>1, <1>2, CleanupPairs DEF TransitionKept, NoCleanup, CommandKept, Blocks
  <1>9. LeasesKept'
    BY <1>1, <1>2 DEF LeasesKept, Leased
  <1> QED
    BY <1>4, <1>5, <1>6, <1>7, <1>8, <1>9

\* Authentication lost: the cleanup under way goes on, or one of the newest
\* generation begins.
Loses ==
  /\ plugin # 0 /\ plugin = generation
  /\ LoseAuthentication
  /\ UNCHANGED <<generation, plugin, starts, life, shuttingDown>>
  /\ \A p \in Leased' : p \in Leased /\ ops'[p].gen = ops[p].gen
  /\ \A p \in Committing' : p \in Committing /\ ops'[p].gen = ops[p].gen
  /\ Woken(cmd, cmd') /\ Woken(disposal, disposal')
  /\ \A k \in Cleanups : Woken(AuthCleanup[k], cleanups'[k])

LEMMA LossKeeps ==
  ASSUME SlotInv, Loses
  PROVE  /\ StartsKept' /\ BackendKept' /\ CommandKept' /\ CleanupsKept'
         /\ DrainsKept' /\ TransitionKept' /\ LeasesKept'
  <1> USE DEF SlotInv
  <1>1. /\ plugin # 0 /\ plugin = generation
        /\ UNCHANGED <<generation, plugin, startFuture, startAt, outcome, life, shuttingDown>>
        /\ startFuture = 0 /\ plugin \in Gens /\ <<plugin, "auth">> \in Cleanups
    BY ReportingIsNewest DEF Loses, starts
  <1>2. \/ /\ UNCHANGED <<state, transition, cleanupFuture>>
           /\ transition = "stopping" /\ AuthCleanup = cleanups
        \/ /\ state' = "stopping" /\ transition' = "stopping"
           /\ cleanupFuture' = <<plugin, "auth">>
           /\ AuthCleanup = [cleanups EXCEPT ![<<plugin, "auth">>].at = "begin"]
    BY DEF Loses, LoseAuthentication, AuthCleanup
  <1>3. /\ cmd'.force = cmd.force /\ cmd'.at = cmd.at /\ cmd'.start = cmd.start
        /\ cmd = NoCommand => cmd' = NoCommand
        /\ \/ cmd'.wait = cmd.wait
           \/ cmd'.wait = "none" /\ cmd.wait = "leases" /\ Leased' = {}
           \/ cmd'.wait = "none" /\ cmd.wait = "commits" /\ Committing' = {}
    BY WokenIsThere DEF SlotTypes, Loses
  <1>4. (cmd' = NoCommand <=> cmd = NoCommand) /\ Blocks'
    BY <1>2, <1>3 DEF CommandKept, NoCommand, Blocks
  <1>5. ASSUME NEW k \in Cleanups
        PROVE  /\ \/ cleanups'[k].at = cleanups[k].at
                  \/ /\ k = <<plugin, "auth">> /\ cleanups'[k].at = "begin"
                     /\ cleanupFuture' = <<plugin, "auth">> /\ state' = "stopping"
               /\ \/ cleanups'[k].wait = cleanups[k].wait
                  \/ cleanups'[k].wait = "none" /\ cleanups[k].wait = "leases" /\ Leased' = {}
                  \/ cleanups'[k].wait = "none" /\ cleanups[k].wait = "commits" /\ Committing' = {}
    <2>1. AuthCleanup \in [Cleanups -> CleanupStates]
      BY <1>1, TypesOfLoss DEF Loses
    <2>2. /\ cleanups'[k].at = AuthCleanup[k].at
          /\ \/ cleanups'[k].wait = AuthCleanup[k].wait
             \/ cleanups'[k].wait = "none" /\ AuthCleanup[k].wait = "leases" /\ Leased' = {}
             \/ cleanups'[k].wait = "none" /\ AuthCleanup[k].wait = "commits" /\ Committing' = {}
      BY <2>1, WokenIsThere DEF Loses
    <2>3. /\ AuthCleanup[k].wait = cleanups[k].wait
          /\ \/ AuthCleanup[k].at = cleanups[k].at
             \/ /\ k = <<plugin, "auth">> /\ AuthCleanup[k].at = "begin"
                /\ cleanupFuture' = <<plugin, "auth">> /\ state' = "stopping"
      <3>1. cleanups \in [Cleanups -> CleanupStates] /\ cleanups[k] \in CleanupStates
        BY DEF SlotTypes
      <3>2. CASE AuthCleanup = cleanups
        BY <3>2
      <3>3. CASE /\ state' = "stopping" /\ cleanupFuture' = <<plugin, "auth">>
                 /\ AuthCleanup = [cleanups EXCEPT ![<<plugin, "auth">>].at = "begin"]
        <4>1. k # <<plugin, "auth">> => AuthCleanup[k] = cleanups[k]
          BY <3>1, <3>3
        <4>2. k = <<plugin, "auth">> => AuthCleanup[k] = [cleanups[k] EXCEPT !.at = "begin"]
          BY <3>1, <3>3
        <4>3. /\ [cleanups[k] EXCEPT !.at = "begin"].at = "begin"
              /\ [cleanups[k] EXCEPT !.at = "begin"].wait = cleanups[k].wait
          BY <3>1 DEF CleanupStates
        <4> QED
          BY <3>3, <4>1, <4>2, <4>3
      <3> QED
        BY <1>2, <3>2, <3>3
    <2> QED
      BY <2>2, <2>3
  <1>6. StartsKept'
    BY <1>1, <1>2 DEF StartsKept
  <1>7. BackendKept'
    BY <1>1, WokenIsThere DEF BackendKept, Loses
  <1>8. CommandKept'
    <2>1. Leased' \subseteq Leased /\ Committing' \subseteq Committing
      BY DEF Loses
    <2> QED
      BY <1>1, <1>3, <1>4, <2>1 DEF CommandKept, Loses
  <1>9. CleanupsKept'
    <2>1. \A k \in Cleanups : cleanups'[k].at # "none" => k[1] <= generation /\ k[1] # startFuture
      BY <1>1, <1>5, Generations, CleanupPairs DEF CleanupsKept
    <2>2. \A k \in Cleanups : cleanups'[k].at \in {"shutdown", "start", "done"} => ~Holds(k[1])
      BY <1>5 DEF CleanupsKept
    <2>3. ASSUME NEW k \in Cleanups, Pending(k)', Holds(k[1])
          PROVE  state' # "active" /\ cleanupFuture'[1] = k[1]
      <3>1. k[1] = plugin
        BY <2>3 DEF Holds
      <3>2. CASE cleanups'[k].at = cleanups[k].at
        BY <1>2, <2>3, <3>1, <3>2 DEF CleanupsKept, Pending
      <3>3. CASE cleanupFuture' = <<plugin, "auth">> /\ state' = "stopping"
        BY <3>1, <3>3
      <3> QED
        BY <1>5, <3>2, <3>3
    <2> QED
      BY <1>1, <2>1, <2>2, <2>3 DEF CleanupsKept, Holds
  <1>10. DrainsKept'
    <2> SUFFICES ASSUME NEW k \in Cleanups
                 PROVE  /\ k[2] = "retire" => cleanups'[k].at \notin {"begin", "leases"}
                        /\ k[2] = "auth" => cleanups'[k].at # "commits"
                        /\ cleanups'[k].at = "commits" => cleanups'[k].wait # "leases"
                        /\ cleanups'[k].at = "leases" => cleanups'[k].wait # "commits"
                        /\ Holds(k[1])' => Drained(k)'
      BY DEF DrainsKept
    <2>1. CASE cleanups'[k].at = cleanups[k].at
      BY <1>1, <1>5, <2>1 DEF DrainsKept, Drained, Holds, Loses
    <2>2. CASE k = <<plugin, "auth">> /\ cleanups'[k].at = "begin"
      BY <2>2 DEF Drained
    <2> QED
      BY <1>5, <2>1, <2>2
  <1>11. TransitionKept'
    <2>1. <<plugin, "auth">> # NoCleanup
      BY <1>1 DEF NoCleanup
    <2>2. CASE UNCHANGED <<state, transition, cleanupFuture>>
      BY <1>1, <1>4, <2>2 DEF TransitionKept
    <2>3. CASE transition' = "stopping" /\ cleanupFuture' = <<plugin, "auth">>
      BY <1>1, <2>1, <2>3 DEF TransitionKept
    <2> QED
      BY <1>2, <2>2, <2>3
  <1>12. LeasesKept'
    BY <1>1, <1>3, <1>4 DEF LeasesKept, Loses
  <1> QED
    BY <1>6, <1>7, <1>8, <1>9, <1>10, <1>11, <1>12

LEMMA EndsKeep ==
  ASSUME SlotInv,
         \/ PluginStopping \/ ReportIsDropped \/ (\E clean \in BOOLEAN : Retire(clean))
         \/ StreamLosesAuthentication
         \/ \E o \in Ops : OperationLosesAuthentication(o)
  PROVE  /\ StartsKept' /\ BackendKept' /\ CommandKept' /\ CleanupsKept'
         /\ DrainsKept' /\ TransitionKept' /\ LeasesKept'
  <1>1. CASE StreamLosesAuthentication
    BY <1>1, LossKeeps DEF StreamLosesAuthentication, Reporting, Loses, Woken, Leased, Committing
  <1>2. ASSUME NEW o \in Ops, OperationLosesAuthentication(o) PROVE Loses
    <2>1. plugin # 0 /\ plugin = generation
      BY <1>2 DEF OperationLosesAuthentication, SlotInv, LeasesKept, Leased, Gens, Holds
    <2>2. ops' = OpIs(o, "idle", 0) /\ Woken(cmd, cmd') /\ Woken(disposal, disposal')
          /\ \A k \in Cleanups : Woken(AuthCleanup[k], cleanups'[k])
      BY <1>2, OpsWake DEF OperationLosesAuthentication
    <2>3. \A p \in Ops : ops'[p] = IF p = o THEN [phase |-> "idle", gen |-> 0] ELSE ops[p]
      BY <2>2 DEF OpIs, SlotInv, SlotTypes, TypeOK
    <2>4. \A p \in Leased' : p \in Leased /\ ops'[p].gen = ops[p].gen
      BY <2>3 DEF Leased
    <2>5. \A p \in Committing' : p \in Committing /\ ops'[p].gen = ops[p].gen
      BY <2>3 DEF Committing
    <2> QED
      BY <1>2, <2>1, <2>2, <2>4, <2>5 DEF OperationLosesAuthentication, Loses
  <1> QED
    BY <1>1, <1>2, StoppingKeeps, DroppingKeeps, RetireKeeps, LossKeeps

-----------------------------------------------------------------------------
(* The steps of cleanups.                                                   *)

\* A cleanup that holds its generation still takes the plugin down; it is the
\* one the slot awaits, or another of the same generation is.
TakesDown(g) ==
  /\ Holds(g)
  /\ plugin' = 0 /\ state' # "active"
  /\ UNCHANGED <<generation, transition, starts, cleanupFuture, ops, shuttingDown, cmd, disposal>>
  /\ \E k \in Cleanups : /\ k[1] = g /\ Pending(k)
                         /\ cleanups' = [cleanups EXCEPT ![k].at = "shutdown"]

LEMMA TakesDownKeeps ==
  ASSUME SlotInv, NEW g \in Gens, TakesDown(g)
  PROVE  /\ StartsKept' /\ BackendKept' /\ CommandKept' /\ CleanupsKept'
         /\ DrainsKept' /\ TransitionKept' /\ LeasesKept'
  <1> USE DEF SlotInv
  <1>1. /\ plugin' = 0 /\ state' # "active" /\ plugin = g /\ generation = g /\ g # 0
        /\ UNCHANGED <<generation, transition, startFuture, startAt, outcome, cleanupFuture, ops,
                       shuttingDown, cmd, disposal>>
    BY DEF TakesDown, Holds, Gens, starts
  <1>2. PICK k \in Cleanups : /\ k[1] = g /\ Pending(k)
                              /\ cleanups' = [cleanups EXCEPT ![k].at = "shutdown"]
    BY DEF TakesDown
  <1>3. startFuture = 0 /\ cleanupFuture[1] = g
    BY <1>1, <1>2, ReportingIsNewest DEF CleanupsKept, Holds
  <1>4. \A j \in Cleanups :
          /\ cleanups'[j].at = IF j = k THEN "shutdown" ELSE cleanups[j].at
          /\ cleanups'[j].wait = cleanups[j].wait
    BY <1>2 DEF SlotTypes, CleanupStates
  <1>5. \A h \in Gens : ~Holds(h)'
    BY <1>1 DEF Holds, Gens
  <1>6. StartsKept' /\ BackendKept'
    BY <1>1, <1>3 DEF StartsKept, BackendKept
  <1>7. CommandKept'
    BY <1>1 DEF CommandKept, Blocks, Leased, Committing
  <1>8. CleanupsKept'
    BY <1>1, <1>2, <1>4, <1>5, CleanupPairs DEF CleanupsKept, Pending
  <1>9. DrainsKept'
    BY <1>4, <1>5, CleanupPairs DEF DrainsKept
  <1>10. TransitionKept'
    BY <1>1, <1>3 DEF TransitionKept, NoCleanup
  <1>11. LeasesKept'
    BY <1>1 DEF LeasesKept, Leased
  <1> QED
    BY <1>6, <1>7, <1>8, <1>9, <1>10, <1>11

\* A cleanup that no longer holds its generation goes on: it changes the slot's
\* state and transition only while that generation is the newest, whose plugin
\* is then gone, and takes nothing but itself from what the slot awaits.
GoesOn(g) ==
  /\ ~Holds(g)
  /\ \E k \in Cleanups :
       /\ k[1] = g /\ cleanups[k].at # "none"
       /\ \A j \in Cleanups : cleanups'[j] # cleanups[j] =>
            j = k /\ cleanups'[j].at \in {"start", "done"}
  /\ state' # state => generation = g /\ state' # "active"
  /\ cleanupFuture' # cleanupFuture => cleanupFuture[1] = g
  /\ transition' # transition => generation = g /\ cmd = NoCommand /\ transition' = "none"
  /\ cleanupFuture' # cleanupFuture /\ generation = g /\ cmd = NoCommand =>
       transition' # "stopping"
  /\ UNCHANGED <<generation, plugin, starts, ops, life, shuttingDown, cmd, disposal>>

LEMMA GoesOnKeeps ==
  ASSUME SlotInv, NEW g \in Gens, GoesOn(g)
  PROVE  /\ StartsKept' /\ BackendKept' /\ CommandKept' /\ CleanupsKept'
         /\ DrainsKept' /\ TransitionKept' /\ LeasesKept'
  <1> USE DEF SlotInv
  <1>1. /\ UNCHANGED <<generation, plugin, startFuture, startAt, outcome, ops, life, shuttingDown,
                       cmd, disposal>>
        /\ state' # state => generation = g /\ state' # "active"
        /\ cleanupFuture' # cleanupFuture => cleanupFuture[1] = g
        /\ transition' # transition => generation = g /\ cmd = NoCommand /\ transition' = "none"
        /\ cleanupFuture' # cleanupFuture /\ generation = g /\ cmd = NoCommand =>
             transition' # "stopping"
    BY DEF GoesOn, starts
  <1>2. PICK k \in Cleanups :
          /\ k[1] = g /\ cleanups[k].at # "none"
          /\ \A j \in Cleanups : cleanups'[j] # cleanups[j] =>
               j = k /\ cleanups'[j].at \in {"start", "done"}
    BY DEF GoesOn
  <1>3. g # startFuture /\ g # 0 /\ ~Holds(g)
    BY <1>2 DEF CleanupsKept, GoesOn, Gens
  <1>4. generation = g => startFuture = 0 /\ plugin # generation
    BY <1>3 DEF StartsKept, Holds
  <1>5. StartsKept'
    BY <1>1, <1>4 DEF StartsKept
  <1>6. BackendKept'
    BY <1>1 DEF BackendKept
  <1>7. CommandKept'
    BY <1>1 DEF CommandKept, Blocks, Leased, Committing
  <1>8. CleanupsKept'
    <2>1. \A j \in Cleanups : cleanups'[j].at # "none" => j[1] <= generation /\ j[1] # startFuture
      BY <1>2 DEF CleanupsKept
    <2>2. \A j \in Cleanups : cleanups'[j].at \in {"shutdown", "start", "done"} => ~Holds(j[1])
      BY <1>2, <1>3 DEF CleanupsKept
    <2>3. ASSUME NEW j \in Cleanups, Pending(j)', Holds(j[1])
          PROVE  state' # "active" /\ cleanupFuture'[1] = j[1]
      <3>1. Pending(j) /\ j[1] # g
        BY <1>2, <1>3, <2>3 DEF Pending
      <3>2. state # "active" /\ cleanupFuture[1] = j[1]
        BY <2>3, <3>1 DEF CleanupsKept
      <3> QED
        BY <1>1, <3>1, <3>2
    <2> QED
      BY <1>1, <2>1, <2>2, <2>3 DEF CleanupsKept, Holds
  <1>9. DrainsKept'
    <2> SUFFICES ASSUME NEW j \in Cleanups
                 PROVE  /\ j[2] = "retire" => cleanups'[j].at \notin {"begin", "leases"}
                        /\ j[2] = "auth" => cleanups'[j].at # "commits"
                        /\ cleanups'[j].at = "commits" => cleanups'[j].wait # "leases"
                        /\ cleanups'[j].at = "leases" => cleanups'[j].wait # "commits"
                        /\ Holds(j[1])' => Drained(j)'
      BY DEF DrainsKept
    <2>1. CASE cleanups'[j] = cleanups[j]
      BY <1>1, <2>1 DEF DrainsKept, Drained, Holds, Leased, Committing
    <2>2. CASE cleanups'[j].at \in {"start", "done"}
      BY <2>2 DEF Drained
    <2> QED
      BY <1>2, <2>1, <2>2
  <1>10. TransitionKept'
    BY <1>1, <1>4 DEF TransitionKept
  <1>11. LeasesKept'
    BY <1>1, <1>4 DEF LeasesKept, Leased, Blocks, CommandKept
  <1> QED
    BY <1>5, <1>6, <1>7, <1>8, <1>9, <1>10, <1>11

LEMMA DrainsKeep ==
  ASSUME SlotInv, NEW g \in Gens, AuthDrains(g)
  PROVE  /\ StartsKept' /\ BackendKept' /\ CommandKept' /\ CleanupsKept'
         /\ DrainsKept' /\ TransitionKept' /\ LeasesKept'
  <1> USE DEF SlotInv
  <1>1. UNCHANGED <<generation, state, transition, plugin, startFuture, startAt, outcome,
                    cleanupFuture, ops, life, shuttingDown, cmd, disposal>>
    BY DEF AuthDrains, starts
  <1>2. <<g, "auth">> \in Cleanups /\ cleanups[<<g, "auth">>].at = "begin"
    BY CleanupPairs DEF AuthDrains
  <1>3. \A k \in Cleanups :
          IF k = <<g, "auth">> THEN cleanups'[k].at = "leases" /\ cleanups'[k].wait = LeaseWait
          ELSE cleanups'[k] = cleanups[k]
    BY <1>2 DEF AuthDrains, SlotTypes, CleanupStates
  <1>4. StartsKept' /\ BackendKept'
    BY <1>1 DEF StartsKept, BackendKept
  <1>5. CommandKept'
    BY <1>1 DEF CommandKept, Blocks, Leased, Committing
  <1>6. CleanupsKept'
    BY <1>1, <1>2, <1>3 DEF CleanupsKept, Pending, Holds
  <1>7. DrainsKept'
    <2> SUFFICES ASSUME NEW k \in Cleanups
                 PROVE  /\ k[2] = "retire" => cleanups'[k].at \notin {"begin", "leases"}
                        /\ k[2] = "auth" => cleanups'[k].at # "commits"
                        /\ cleanups'[k].at = "commits" => cleanups'[k].wait # "leases"
                        /\ cleanups'[k].at = "leases" => cleanups'[k].wait # "commits"
                        /\ Holds(k[1])' => Drained(k)'
      BY DEF DrainsKept
    <2>1. CASE k = <<g, "auth">>
      BY <1>1, <1>3, <2>1, WaitsAreOwn DEF Drained, Leased
    <2>2. CASE k # <<g, "auth">>
      BY <1>1, <1>3, <2>2 DEF DrainsKept, Drained, Holds, Leased, Committing
    <2> QED
      BY <2>1, <2>2
  <1>8. TransitionKept'
    BY <1>1 DEF TransitionKept
  <1>9. LeasesKept'
    BY <1>1 DEF LeasesKept, Leased, Blocks
  <1> QED
    BY <1>4, <1>5, <1>6, <1>7, <1>8, <1>9

LEMMA CleanupsKeep ==
  ASSUME SlotInv, NEW g \in Gens, CleanupSteps(g)
  PROVE  /\ StartsKept' /\ BackendKept' /\ CommandKept' /\ CleanupsKept'
         /\ DrainsKept' /\ TransitionKept' /\ LeasesKept'
  <1> USE DEF SlotInv
  <1>1. /\ <<g, "retire">> \in Cleanups /\ <<g, "retire">>[1] = g
        /\ <<g, "auth">> \in Cleanups /\ <<g, "auth">>[1] = g
    BY CleanupPairs
  <1>2. CASE RetireTakesDown(g)
    <2>1. Pending(<<g, "retire">>) /\ Holds(g)
      BY <1>2 DEF RetireTakesDown, Pending
    <2> QED
      BY <1>1, <1>2, <2>1, TakesDownKeeps DEF RetireTakesDown, TakesDown
  <1>3. CASE AuthTakesDown(g)
    <2>1. Pending(<<g, "auth">>) /\ Holds(g) /\ state # "active"
      BY <1>1, <1>3 DEF AuthTakesDown, Pending, CleanupsKept
    <2> QED
      BY <1>1, <1>3, <2>1, TakesDownKeeps DEF AuthTakesDown, TakesDown
  <1>4. CASE RetireIsStale(g)
    <2>1. \A j \in Cleanups : cleanups'[j] # cleanups[j] =>
            j = <<g, "retire">> /\ cleanups'[j].at = "start"
      BY <1>1, <1>4 DEF RetireIsStale, SlotTypes, CleanupStates
    <2> QED
      BY <1>1, <1>4, <2>1, GoesOnKeeps DEF RetireIsStale, GoesOn
  <1>5. CASE RetireIsDown(g)
    <2>1. ~Holds(g)
      BY <1>1, <1>5 DEF RetireIsDown, CleanupsKept
    <2>2. \A j \in Cleanups : cleanups'[j] # cleanups[j] =>
            j = <<g, "retire">> /\ cleanups'[j].at = "start"
      BY <1>1, <1>5 DEF RetireIsDown, SlotTypes, CleanupStates
    <2> QED
      BY <1>1, <1>5, <2>1, <2>2, GoesOnKeeps DEF RetireIsDown, GoesOn
  <1>6. CASE RetireSettles(g)
    <2>1. ~Holds(g)
      BY <1>1, <1>6 DEF RetireSettles, CleanupsKept
    <2>2. \A j \in Cleanups : cleanups'[j] # cleanups[j] =>
            j = <<g, "retire">> /\ cleanups'[j].at = "done"
      BY <1>1, <1>6 DEF RetireSettles, SlotTypes, Cleanup
    <2> QED
      BY <1>1, <1>6, <2>1, <2>2, GoesOnKeeps DEF RetireSettles, Forget, GoesOn
  <1>7. CASE AuthSettles(g)
    <2>1. ~Holds(g)
      BY <1>1, <1>7 DEF AuthSettles, CleanupsKept
    <2>2. \A j \in Cleanups : cleanups'[j] # cleanups[j] =>
            j = <<g, "auth">> /\ cleanups'[j].at = "done"
      BY <1>1, <1>7 DEF AuthSettles, SlotTypes, Cleanup
    <2> QED
      BY <1>1, <1>7, <2>1, <2>2, GoesOnKeeps DEF AuthSettles, Forget, GoesOn
  <1> QED
    BY <1>2, <1>3, <1>4, <1>5, <1>6, <1>7, DrainsKeep DEF CleanupSteps

-----------------------------------------------------------------------------
(* The theorems.                                                            *)

LEMMA InitSlotInv == Init => SlotInv
  <1> SUFFICES ASSUME Init PROVE SlotInv
    OBVIOUS
  <1>1. NoCommand \in Commands
    BY NoGeneration DEF NoCommand, Commands, Kinds, Waits
  <1>2. Cleanup("none") \in CleanupStates
    BY NoGeneration DEF Cleanup, CleanupStates, Waits
  <1>3. cleanups \in [Cleanups -> CleanupStates] /\ \A k \in Cleanups : cleanups[k].at = "none"
    BY <1>2 DEF Init, Cleanup
  <1>4. generation \in 0..MaxGenerations /\ {plugin, residency, startFuture} \subseteq 0..generation
    BY NoGeneration DEF Init
  <1>5. SlotTypes
    BY <1>1, <1>3, <1>4 DEF Init, SlotTypes, TypeOK, Commands
  <1>6. Leased = {} /\ Committing = {}
    BY DEF Init, Leased, Committing
  <1>7. StartsKept /\ BackendKept
    BY DEF Init, StartsKept, BackendKept, NotDisposed
  <1>8. CommandKept /\ TransitionKept /\ LeasesKept
    BY <1>6 DEF Init, CommandKept, TransitionKept, LeasesKept, NoCommand
  <1>9. CleanupsKept /\ DrainsKept
    BY <1>3 DEF CleanupsKept, Pending, DrainsKept, Drained
  <1> QED
    BY <1>5, <1>7, <1>8, <1>9 DEF SlotInv

LEMMA StepSlotInv == SlotInv /\ [Next]_vars => SlotInv'
  <1> SUFFICES ASSUME SlotInv, [Next]_vars
               PROVE  /\ StartsKept' /\ BackendKept' /\ CommandKept' /\ CleanupsKept'
                      /\ DrainsKept' /\ TransitionKept' /\ LeasesKept'
    BY StepTypes DEF SlotInv
  <1>1. ASSUME NEW o \in Ops, OpSteps(o) PROVE OpsOnly
    BY <1>1, OpStepsAreTheirOwn DEF SlotInv
  <1>2. CASE UNCHANGED vars
    <2>1. UNCHANGED <<generation, state, transition, plugin, startFuture, startAt, outcome,
                      cleanupFuture, ops, life, shuttingDown, cmd, cleanups, disposal>>
      BY <1>2 DEF vars, starts, waiters
    <2>2. StartsKept' /\ BackendKept'
      BY <2>1 DEF SlotInv, StartsKept, BackendKept
    <2>3. CommandKept' /\ CleanupsKept'
      BY <2>1 DEF SlotInv, CommandKept, CleanupsKept, Pending, Holds, Blocks, Leased, Committing
    <2>4. DrainsKept'
      BY <2>1 DEF SlotInv, DrainsKept, Drained, Holds, Leased, Committing
    <2>5. TransitionKept' /\ LeasesKept'
      BY <2>1 DEF SlotInv, TransitionKept, LeasesKept, Leased, Blocks
    <2> QED
      BY <2>2, <2>3, <2>4, <2>5
  <1> QED
    BY <1>1, <1>2, OpsKeep, RestKeeps, StartsKeep, BeginningKeeps, CommandsKeep, EndsKeep,
       CleanupsKeep DEF Next, OpSteps

\* The slot's inductive invariant holds throughout.
THEOREM SlotInvHolds == Spec => []SlotInv
  BY InitSlotInv, StepSlotInv, PTL DEF Spec

\* A transition, which turns operations and commands away, always has a
\* coroutine that will end it: whichever of a start, a command, the cleanups
\* and a stopping plugin overlap.
THEOREM TransitionsAreOwned == Spec => []TransitionOwned
  <1>1. SlotInv => TransitionOwned
    BY DEF SlotInv, SlotTypes, TransitionKept, TransitionOwned, TypeOK
  <1> QED
    BY <1>1, SlotInvHolds, PTL

\* A safe command looked for leases once; none appears on the plugin it is
\* about to take down, however long it waits.
THEOREM SafeCommandsSpareLeases == Spec => []SafeCommandSpares
  <1>1. SlotInv => SafeCommandSpares
    BY DEF SlotInv, LeasesKept, SafeCommandSpares
  <1> QED
    BY <1>1, SlotInvHolds, PTL

\* Five steps take a plugin out of the slot or put another in its place.
LEMMA PluginChanges ==
  ASSUME Next, plugin' # plugin
  PROVE  \/ StartSucceeds \/ CommandTakesDown \/ BarrierTimesOut
         \/ \E g \in Gens : RetireTakesDown(g) \/ AuthTakesDown(g)
  <1>1. CASE \E o \in Ops : \/ AcquireLive(o) \/ AcquireJoining(o) \/ AcquireStarting(o)
                            \/ AcquireResumes(o) \/ BeginCommit(o) \/ CommitCurrent(o)
                            \/ Release(o) \/ OperationLosesAuthentication(o)
    BY <1>1 DEF AcquireLive, AcquireJoining, AcquireStarting, AcquireResumes, BeginCommit,
       CommitCurrent, Release, OperationLosesAuthentication
  <1>2. CASE StartEagerly \/ StartSteps
    BY <1>2 DEF StartEagerly, StartSteps, StartDiscards, StartDiscarded, StartFails
  <1>3. CASE \/ \E kind \in {"stop", "restart", "disable"}, force \in BOOLEAN :
                  CommandBegins(kind, force)
             \/ CommandSteps
    BY <1>3 DEF CommandBegins, CommandSteps, CommandPastStart, CommandPastCleanup,
       CommandPastLeases, CommandInterrupts, CommandOnly, CommandFails, StopApplied,
       DisablePrepared, RestartStarts, CommandRestarted, DisableEnds
  <1>4. CASE \/ \E ready \in BOOLEAN : ApplyAccess(ready)
             \/ PluginStopping \/ ReportIsDropped \/ (\E clean \in BOOLEAN : Retire(clean))
             \/ StreamLosesAuthentication
    BY <1>4 DEF ApplyAccess, PluginStopping, ReportIsDropped, Retire, StreamLosesAuthentication
  <1>5. CASE \E g \in Gens : ShutdownEnds(g) \/ CleanupSteps(g)
    BY <1>5 DEF ShutdownEnds, CleanupSteps, RetireIsStale, RetireIsDown, RetireSettles,
       AuthDrains, AuthSettles
  <1>6. CASE BeginShutdown \/ DisposeBegins \/ DisposeSteps
    BY <1>6 DEF BeginShutdown, DisposeBegins, DisposeSteps, DisposePastStart,
       DisposePastCommand, DisposeTakesDown, DisposeEnds, DisposeOnly
  <1> QED
    BY <1>1, <1>2, <1>3, <1>4, <1>5, <1>6 DEF Next

\* Under an entered durable commit a plugin leaves the slot only when a forced
\* command's budget elapsed or the bridge is shutting down.
THEOREM CommitsOutlast == Spec => CommitsOutlastTakeDowns
  <1>1. SlotInv /\ [Next]_vars =>
          [plugin # 0 /\ plugin' # plugin =>
             \/ \A o \in Committing : ops[o].gen # plugin
             \/ BarrierTimesOut
             \/ shuttingDown]_vars
    <2> SUFFICES ASSUME SlotInv, Next, plugin # 0, plugin' # plugin, ~BarrierTimesOut,
                        ~shuttingDown
                 PROVE  \A o \in Committing : ops[o].gen # plugin
      OBVIOUS
    <2> USE DEF SlotInv
    <2>1. CASE StartSucceeds
      <3>1. plugin # generation
        BY <2>1 DEF StartSucceeds, StartsKept
      <3> QED
        BY <3>1, CommitsAreLeases DEF LeasesKept
    <2>2. CASE CommandTakesDown
      BY <2>2 DEF CommandTakesDown, CommandKept
    <2>3. ASSUME NEW g \in Gens, RetireTakesDown(g) PROVE \A o \in Committing : ops[o].gen # plugin
      <3>1. <<g, "retire">> \in Cleanups /\ <<g, "retire">>[1] = g /\ Holds(g) /\ plugin = g
        BY <2>3, CleanupPairs DEF RetireTakesDown, Holds
      <3>2. Drained(<<g, "retire">>)
        BY <3>1 DEF DrainsKept
      <3> QED
        BY <2>3, <3>1, <3>2 DEF RetireTakesDown, Drained
    <2>4. ASSUME NEW g \in Gens, AuthTakesDown(g) PROVE \A o \in Committing : ops[o].gen # plugin
      <3>1. <<g, "auth">> \in Cleanups /\ <<g, "auth">>[1] = g /\ Holds(g) /\ plugin = g
        BY <2>4, CleanupPairs DEF AuthTakesDown, Holds
      <3>2. Drained(<<g, "auth">>)
        BY <3>1 DEF DrainsKept
      <3> QED
        BY <2>4, <3>1, <3>2, CommitsAreLeases DEF AuthTakesDown, Drained
    <2> QED
      BY <2>1, <2>2, <2>3, <2>4, PluginChanges
  <1> QED
    BY <1>1, SlotInvHolds, PTL DEF Spec, CommitsOutlastTakeDowns

\* An operation gets a lease, or enters a commit, by a step of its own.
LEMMA LeaseGrants ==
  ASSUME SlotTypes, Next, NEW o \in Ops,
         ops'[o].phase \in {"leased", "committing"}, ops'[o] # ops[o]
  PROVE  \E p \in Ops : OpSteps(p)
  <1>1. ASSUME NEW p \in Ops, AcquireStarting(p) \/ OperationLosesAuthentication(p) PROVE FALSE
    <2>1. PICK phase, g : phase \in {"starting", "idle"} /\ ops' = OpIs(p, phase, g)
      BY <1>1, OpsWake DEF AcquireStarting, OperationLosesAuthentication, OpsBecome
    <2>2. ops'[o] = ops[o] \/ ops'[o] = [phase |-> phase, gen |-> g]
      BY <2>1 DEF OpIs, SlotTypes, TypeOK
    <2> QED
      BY <2>1, <2>2
  <1>2. CASE StartEagerly \/ StartSteps
    BY <1>2 DEF StartEagerly, StartSteps, StartSucceeds, StartDiscards, StartDiscarded, StartFails
  <1>3. CASE \/ \E kind \in {"stop", "restart", "disable"}, force \in BOOLEAN :
                  CommandBegins(kind, force)
             \/ CommandSteps
    BY <1>3 DEF CommandBegins, CommandSteps, CommandPastStart, CommandPastCleanup,
       CommandPastLeases, CommandInterrupts, CommandOnly, CommandTakesDown, BarrierTimesOut,
       TakeDown, CommandFails, StopApplied, DisablePrepared, RestartStarts, CommandRestarted,
       DisableEnds
  <1>4. CASE \/ \E ready \in BOOLEAN : ApplyAccess(ready)
             \/ PluginStopping \/ ReportIsDropped \/ (\E clean \in BOOLEAN : Retire(clean))
             \/ StreamLosesAuthentication
    BY <1>4 DEF ApplyAccess, PluginStopping, ReportIsDropped, Retire, StreamLosesAuthentication
  <1>5. CASE \E g \in Gens : ShutdownEnds(g) \/ CleanupSteps(g)
    BY <1>5 DEF ShutdownEnds, CleanupSteps, RetireTakesDown, RetireIsStale, RetireIsDown,
       RetireSettles, AuthDrains, AuthTakesDown, AuthSettles
  <1>6. CASE BeginShutdown \/ DisposeBegins \/ DisposeSteps
    BY <1>6 DEF BeginShutdown, DisposeBegins, DisposeSteps, DisposePastStart,
       DisposePastCommand, DisposeTakesDown, DisposeEnds, DisposeOnly
  <1> QED
    BY <1>1, <1>2, <1>3, <1>4, <1>5, <1>6 DEF Next, OpSteps

\* A lease is granted, and a durable commit entered, on a backend only that
\* nobody has begun to shut down.
THEOREM LeasesAreOnLiveBackends == Spec => LeasesOnLiveBackends
  <1>1. SlotInv /\ [Next]_vars =>
          [\A o \in Ops : ops'[o].phase \in {"leased", "committing"} /\ ops'[o] # ops[o] =>
             shuttingDown \/ life[ops'[o].gen] = "alive"]_vars
    <2> SUFFICES ASSUME SlotInv, Next, NEW o \in Ops,
                        ops'[o].phase \in {"leased", "committing"}, ops'[o] # ops[o]
                 PROVE  shuttingDown \/ life[ops'[o].gen] = "alive"
      OBVIOUS
    <2> USE DEF SlotInv
    <2>1. PICK p \in Ops : OpSteps(p)
      BY LeaseGrants
    <2>2. OpsOnly /\ o \in Leased'
      BY <2>1, OpStepsAreTheirOwn DEF Leased
    <2>3. Routable /\ ops'[o].gen = generation
      BY <2>2 DEF OpsOnly, Gained
    <2>4. plugin = generation /\ plugin # 0 /\ life' = life
      BY <2>2, <2>3 DEF Routable, StartsKept, OpsOnly
    <2> QED
      BY <2>3, <2>4 DEF BackendKept
  <1> QED
    BY <1>1, SlotInvHolds, PTL DEF Spec, LeasesOnLiveBackends


=============================================================================
