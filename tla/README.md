# A verification project for Sesori

Sesori lets a phone or desktop app drive AI coding assistants that run on a
developer's machine. A *bridge* process on that machine hosts one *plugin* per
assistant, keeps a *catalog* of sessions in a local database, and talks to the
apps through an external *relay* over one WebSocket. Around it stands the
*release tooling*: Python programs that qualify the signed desktop packages on
native machines, attach them to public releases, and publish update feeds and
the Linux package repositories.

This directory holds TLA+ models of the bridge's own concurrent machinery and of
the release tooling, the TLC instances that check them, and TLAPS proofs of what
matters most for every value of the constants. All paths below are relative to
the repository; `lib/` stands for `bridge/app/lib/src/`, `scripts/` for
`.github/scripts/`.

**What an action is.** Dart runs the bridge on one event loop: code between two
`await`s is atomic, and everything else interleaves, so an action of those
modules is a stretch of code between two awaits. A script of the release tooling
is sequential, but what it does is seen by others and survives it: there, an
action ends with an effect outside of the process (an object copied, an asset
uploaded, a process signalled) or with an observation of something outside. The
models are about what can happen in the gaps: state read before and used after,
completions that come late, steps that fail half way, programs that are
cancelled or run again, and processes that do as they like beside them.

## 1. Inventory

| Component | State it keeps | Operations | Module |
|---|---|---|---|
| Session operation dispatcher (`lib/services/session_operation_dispatcher.dart`) | chain of resolutions, tail of each family's lane, set of unsettled results | `dispatch`, `beginShutdown`, `drain` | SessionLanes, FamilyFifo |
| Session family resolution (`lib/repositories/session_repository.dart`), parents in the catalog | the parent column of `sessions_table` | ancestry walk; cascade of a deletion; a catalog import's commits | SessionLanes (partly) |
| Event queue (`shared/.../concurrency/event_queue.dart`) | buffer, listener, drain loop, failures of its head | `enqueue`, `listen`, `cancel`, `dispose` | EventQueue, QueueDelivery |
| SSE manager (`lib/sse/sse_manager.dart`) | subscriber, subscription and owner of each connection; orphan queues | `subscribePath`, `unsubscribe`, `orphanAll`, `enqueueEvent`, `stop` | SseManager |
| Relay link (`lib/foundation/relay_client.dart`, loop in `lib/orchestrator.dart`) | the current connection handle | connect, read, `sendIfCurrent`, reconnect, re-authentication | SseManager (the handle's currency only) |
| Plugin runtime (`lib/runtime/plugin_runtime.dart`) | per plugin: gate, generation, transition, plugin, start, cleanup, leases, durable commits | `use*`, `commitCurrentGeneration`, `start`, `stop`, `restart`, disable, retirement, authentication loss, `dispose` | PluginSlot (partly) |
| Prompt sending (`lib/services/session_prompt_service.dart`, `accepted_prompts_repository.dart`, the app's `prompt_send_queue.dart`) | accepted prompt ids, the app's queue of unconfirmed prompts | send, retry, accept, record, cancel | planned: PromptDelivery |
| Quota continuation (`lib/services/session_continuation_service.dart`) | observed quota errors, due timers | observe, continue, cancel | planned, with PromptDelivery |
| Completion notifier (`lib/push/completion_notifier.dart`, `push_session_state_tracker.dart`) | debounce timers, busy state per root | status events, abort suppression | planned: CompletionNotifier |
| Token services (`lib/auth/token_service.dart`, `control_channel_token_service.dart`) | token file, refresh in flight | refresh, logout, pull from the supervisor | planned: TokenRefresh |
| Startup mutex, instance takeover (`lib/server/`) | lock file, running bridges | acquire, break a stale lock, take over | planned: StartupMutex |
| Shutdown coordinator, orchestrator teardown | phases with budgets, a backstop | register, `shutdown` | planned, with RelayLink |
| Mutation and event dispatchers, interactions, abort, auto-approval | pending questions and permissions, ordering tails | reply, abort, publish | not modelled yet |
| Catalog import, plugin lifecycle service, self update, push dispatch | see `PROJECT.json` | | not modelled |
| Plugins, apps, relay server | external processes or user interface | | not modelled; appear as environment |
| Release publication (`scripts/prepare_desktop_release.py`, `publish_desktop_release.py`, `publish_desktop_linux.py`, `sign_desktop_linux.py`, `linux_signing.py`; `release-all-platforms.yml`) | public releases and their assets, evidence of packaging runs | qualify, sign, attach, delete old pre-releases | ReleaseAssets |
| Update feeds (`scripts/publish_desktop_update_feed.py`) | signed feeds, hosted feed objects | sign, host, prune | UpdateFeed |
| Package repository (`scripts/build_linux_repository.py`, `publish_linux_repository.py`) | the public bucket, signed issues of the indexes | build, publish, re-run, prune | PackageRepository |
| macOS qualification (`scripts/qualify_desktop_macos_upgrade.py`, `..._authenticated_upgrade.py`) | installed app, login registration, data, Keychain items, log cursor, phase record | install, seed, launch, poll, quit, replace, clean up | MacosUpgrade |
| Linux qualification (`scripts/qualify_desktop_linux_session.py`, `..._appimage.py`, `..._authenticated_upgrade.py`) | package, stored secret, helper intent, session, temporary bridge, log | probe, install, launch, poll, quit, unregister | LinuxUpgrade |
| Bridge signatures, analytics cutoff, packaging, bundle qualification | files of one job, one remote document | | not modelled, see section 7 |

**How they interact.** A request from a phone arrives on the relay link, is
routed by the orchestrator, and, when it changes a session, is dispatched on the
session's *family lane*. Its body takes a *lease* on the plugin's generation,
calls the plugin, and commits what it learnt in a *durable commit* of that
generation. The plugin's events come back through the orchestrator and are put
in every subscriber's *event queue*, which sends them over the link. A link that
drops turns all queues into *orphans* that wait for their phone. Shutdown fences
each component (no new dispatches, no new leases), drains it, and disposes of
the runtime, which shuts the backends down.

A *packaging run* produces packages and evidence for each architecture. Its
*attachment job* checks all of it and uploads the packages to the build's public
release, the manifest last. A manifest is what the next ones wait for: the
*repository workflow* indexes and signs the newest complete release and copies
the result to a bucket; the *feed workflow* signs feeds that name its packages
and hosts them. Creating the next internal release deletes older ones. Before a
release is promoted, *qualification programs* upgrade the signed app on native
machines from one public release to the next.

**What is hard.** Resolutions take several reads while deletions and imports
change what they read; a drain must cover what is accepted but not placed yet
(`SessionLanes`). An awaited delivery outlives its listener, its queue entry,
its connection and its link (`EventQueue`, `SseManager`). Starts, commands,
retirements, authentication losses and disposal of one plugin are coroutines
that wait for each other and find the slot changed when they resume
(`PluginSlot`). A prompt's answer is lost after it ran, a crash separates
running it from recording it (planned). An upload or a copy fails after any
object, its job is run again weeks later from a retained artifact, and clients
read at every moment (`ReleaseAssets`, `UpdateFeed`, `PackageRepository`). The app
under qualification starts late or never, its helper dies, restarts, rotates the
log or never exits, every step may fail, and the record that remains must be true
(`MacosUpgrade`, `LinuxUpgrade`). `PROJECT.json` lists each hazard at the
line where it bites, and the properties that watch it.

**What makes each component correct.**

- *Dispatcher*: operations of one family run one at a time, in arrival order,
  whatever resolution is slow or fails; the drain answers, and only when nothing
  accepted is left; the lane map neither leaks nor forgets.
- *Event queue*: delivery in order, at most once per event; nothing is lost but
  by overflow, the attempt limit or disposal; no wakeup is lost.
- *SSE manager*: each queue is in one place; attachment modes are not mixed;
  link turnover costs no event; a late send spares its successor; a phone that
  comes back in time gets its backlog.
- *Plugin runtime*: a safe command never disturbs an operation; an entered
  durable commit keeps its generation; leases exist on live backends; no
  transition is left behind; no backend is left behind.
- *Releases*: a manifest marks a complete release of one run; nothing unqualified
  is public, whatever fails or overlaps.
- *Repository and feeds*: what a public index or feed names is public with the
  bytes described; no client goes back; a release gets to the clients.
- *Qualifications*: a result is true of what was tested and of what is left; the
  owner's state survives; evidence belongs to the process it is taken for; the
  program ends.
- *Prompts*: a retried prompt runs once. *Tokens*: a logout is not undone by a
  refresh. *Startup mutex*: one bridge starts at a time. *Notifier*: one
  notification per completed root, none for an aborted one.

## 2. Modules

| Module | Role |
|---|---|
| `FamilyFifo` | abstract specification: admission, placement in arrival order, one FIFO per lane, drain |
| `SessionLanes` | the dispatcher with its catalog; implements `FamilyFifo` |
| `MCSessionLanes` | instances of it |
| `SessionLanesProofs` | its theorems |
| `EventQueue` | the queue as operators on one record, used by the next two |
| `QueueDelivery` | one queue under every interleaving of its callers |
| `MCQueueDelivery`, `QueueProofs` | instance; theorems |
| `SseManager` | many queues, connections, successive links, orphans |
| `MCSseManager`, `MCSseReplay` | instances; the second adds what each phone has been handed |
| `SseProofs` | its theorems |
| `PluginSlot`, `MCPluginSlot` | one slot of the plugin runtime; instances |
| `SlotProofs` | its theorems |
| `PackageRepository` | issues, publications and pruning of the APT and RPM repositories |
| `MCPackageRepository`, `RepositoryProofs` | instance; theorems |
| `ReleaseAssets` | evidence, attachment jobs, pre-releases; used by the next |
| `UpdateFeed` | `ReleaseAssets` composed with the feeds that name its assets |
| `MCUpdateFeed`, `ReleaseProofs` | instance; theorems about releases and feeds |
| `MacosUpgrade`, `MCMacosUpgrade` | the two macOS qualification programs beside app and helper; instance |
| `MacosProofs` | their theorems |
| `LinuxUpgrade`, `MCLinuxUpgrade` | the Linux qualification programs beside app and helpers; instance |
| `LinuxProofs` | their theorems |

### SessionLanes

One `dispatch()` call per operation; `phase[o]` says where its coroutine is
suspended. `Dispatch` is the synchronous part of `dispatch()`: it takes the next
place behind `_resolutionTail` and enters `inFlight`. `EnterResolution` fires
when the previous resolution has released it. `ClimbToParent` is one awaited row
of `resolveSessionFamily`: it may fail on a missing row, a row of another
plugin, a cycle or the depth bound (`FailResolution`), or reach the root and
register (`RegisterOperation`: read the family's tail, become it, release the
next resolution). `StartBody` and `FinishBody` are the lane's token; the entry
is removed only by the operation that still is its tail. `Untrack` removes the
settled result from `inFlight` in a later microtask. `DeleteSession` is a body
that deletes its session with the rows that cascade; `Reparent` is a catalog
import, which writes parents outside every lane. `BeginDrain`,
`DrainOperations` and `FinishDrain` are the two awaits of `drain()`, with what
each captured. `arrived` and `ticket` are auxiliary: they number arrivals.

A family key of the code is the pair of plugin and root; a session has one
plugin, so the root alone is the key here. Body results and exceptions are not
distinguished: both complete the token.

### EventQueue, QueueDelivery

A queue is a record: buffer, listener, the delivery in flight (event,
subscription, and how the callback ended), attempts, disposed. `_draining` is
true exactly while a delivery is awaited, so it is not a field of its own.
`Drain(q)` is the loop up to its next await, `Resume(q)` what follows it. The
callback's end and the loop's resumption are two actions, since microtasks run
between them. `QueueDelivery` adds the callers and the auxiliary history: what
was sent, evicted, poisoned, and how often each event failed. Reports through
`onError` are left out.

One subtlety that the accounting shows: when overflow evicts the head *while it
is being delivered*, the loop's later `removeFirst` takes the next event, which
nobody delivered. The evicted one was delivered, so the count of losses is still
the count of overflows; `LossIsAccounted` states exactly that. The order of
deliveries is not affected.

### SseManager

Links, queues and subscriptions are numbered as they are made. A subscription
remembers its connection, link and mode (the closure of
`_createSendFunction`). A send awaits encryption; it ends as `SendSucceeds`
(the link is current and the connection's), `SendIsStale` (silently orphaning
its subscription if that still owns the connection) or `SendThrows`. A link may
be gone before the relay loop notices (`LinkDrops`, `ReadLoopEnds`); the loop
then orphans every queue and reconnects. `SubscribeAdopting` takes the oldest
live orphan of the mode; `WindowPasses` lets the oldest orphan expire, which the
code notices at the next purge.

`MCSseReplay` extends the state with `home`, `handed` and `since` to state the
replay promise from the phones' side.

### PluginSlot

One slot of the runtime. A plugin, its start and its residency controller are
named by their generation; `plugin`, `startFuture`, `cleanupFuture`,
`residency`, `transition`, `gate`, `startAllowed` are the slot's fields.
Coroutines suspended in it are: operations (`ops`: waiting for a start, holding
a lease, in a durable commit), the start (`startAt`), at most one command
(`cmd`: its position and the futures and plugin it captured), cleanups
(`cleanups`: a retirement and an authentication loss per generation), and the
disposal. `life[g]` is the backend itself: alive until the first call of
`shutdown()`, then closing, then down or failed. `BridgePlugin.shutdown` is
idempotent, so all its callers await one end.

Each wait of the code is an action that fires when the awaited future is over:
`CommandPastStart`, `CommandPastCleanup`, `CommandPastLeases`, `DisposePast...`.
A wait for leases or commits completes at once or when the count *next reaches
zero* (`wait`), as the completers of the code do; `BeginShutdown` completes the
lease completers. `BarrierTimesOut` is the elapsed budget of a forced stop.
A restart's failure, a start that delivers a plugin nobody wants any more, and a
shutdown that throws are included.

Left out of the slot: catalog snapshot permits, operation streams, setup
inspection and interactive authentication, work state (a safe command also
refuses a busy plugin), the eager/transient distinction of residency. Assumed of
a plugin, from the contract in `bridge_plugin.dart`: it reports `Stopping` once
and then only its end, and its event stream reports an authentication loss once
in a generation. The end is reported once, and `_retireGeneration` forgets it when
any cleanup is pending, be it that of an earlier generation (`ReportIsDropped`);
otherwise it begins the plugin's retirement (`Retire`).

### PackageRepository

An *issue* is one signed set of indexes: two issues of the same build differ in
every signed file, since createrepo stamps its output and GPG its signature. An
object's name says what the code's names say (kind, architecture, build or
digest), and the value under a name says what its bytes determine: the build an
index lists, or the issue that signed it. `Build` is the signing job,
`StartPublish` the publishing job of any retained issue up to its downgrade
guard, `SkipObject`, `PublishObject` and `FailPublish` one round of its loop each
in `publication_order`, `FinishPublish` and `PruneInternalPackages` the rest.
`Verified` is the independent check of a tree; it holds of every tree `Build`
makes, so it never refuses here, but the order and the guards rely on it. The
workflow's concurrency group makes publications one at a time.

The guard reads RPM revisions only. That it protects APT too is not obvious: it
rests on `AptBehindRpm` (InRelease is written after every `repomd.xml`).
`Release` and `Release.gpg` alone may go back for the length of a failed
publication; clients follow `InRelease`. A release that is withdrawn after it was
complete is not modelled.

### ReleaseAssets, UpdateFeed

A packaging run is a number; `Evidence` says what is wrong with it for each
platform and architecture, and each check of the code is an operator that names
the flaws it detects (`RequireProducer`, `VerifyChecksums`, ...), in the places
where the code runs it. An asset's value is the run whose bytes it delivers. An
attachment job reads the existing names once, then `AttachMissing`,
`VerifyExisting`, `RefuseReplacement` or `FailAttach` per asset; two jobs run at a
time, of either platform (the procedure is the same in both scripts).
`RollPreRelease` is the release workflow's deletion of the other pre-releases, with
its rule of what is kept; it runs again for a release that is public already, which
it leaves as it is. The workflow's listing, its deletions and the creation are one
step: what is public between two of them is not modelled.

`UpdateFeed` adds the feeds: signing after a successful attachment, hosting
object by object, failing, re-running, and the repository's housekeeping, which
prunes their packages at any time. Nothing in the code compares builds, so a late
re-run takes a feed back to an older build: updaters do not downgrade, and the
properties only ask that what a feed names is there.

### MacosUpgrade

`at` is the program's step. The Off program and the authenticated one share the steps;
`mode` selects what differs, and the authenticated one writes each phase to its
record. `host` says who put each path and Keychain item there, so that the owner's own
state (`"foreign"`) is distinguished from what the run created. App and helper are the
environment: `AppStarts` may come after the program gave up; with the helper on or
off, the app reads a stored session, whoever's it is (`AppReadsSession`), and at any
later time renews or clears each of its items, also one that was removed meanwhile
(`AppWritesItem`); helpers die and restart, `HelperLogs` appends to the log that
`RotateLog` replaces. A poll is two actions (`ListHelpers`, `ReadLog`), between which
anything happens. `FailStep` is any failing command, check or deadline of any step,
with what it may leave half done; cleanup steps may fail too; `Cancel` ends everything
between any two steps.

Two holes the model shows and the properties leave out by name: an app that the system
starts after the cleanup's signals may write data or renewed tokens again (so
`Restored` speaks of neither, only of the sessions the program wrote), and a failed
detach leaves its volume mounted (so only a *passed* run promises `~mounted`). One
assumption is made of the helper: it does not get from being authenticated to serving
within one poll interval of 0.1 s, both being round trips to servers.

### LinuxUpgrade

Each program is a plan: a sequence of installations, probes, launches and
Secret Service switches; `step` says how much of it is done and `at` where the
current element stands. Four programs share the actions: the package upgrade
without an account, with one, the AppImage replacement, and the launch by a
display manager's login. Only what follows the account's login is surrounded by
`authenticated_cleanup`, whose steps are actions of their own: it stops the app's
group, waits for the helper, kills it after thirty seconds, and unregisters. A signal
comes anywhere (`Terminate`): in the plan it leads to that cleanup, within the
cleanup it skips what is left of it, and either may leave the step it met half done
(`LeftBehind`). A probe is two actions, with helpers and app free to run between them.

## 3. Runs

| Run | Question | Instance | States |
|---|---|---|---|
| `lanes` | is order, drain and lane map right in every interleaving; does everything accepted settle and `drain()` answer; does the dispatcher implement `FamilyFifo`? | 2 operations, 3 sessions of a plugin, depth 2, one re-parenting | 415 000 |
| `queue` | in order, once, accounted for, no lost wakeup, backlog drains? | capacity 2, 2 attempts, 5 events, 3 listeners | 71 000 |
| `queue_poison` | is an event dropped only after its own failures? **violated** | capacity 2, 2 attempts, 4 events | |
| `sse` | do turnovers lose, leak, mix or end anything? | 2 connections, 2 modes, 2 links, 3 subscriptions, 2 queues, 2 events | 1 515 000 |
| `sse_replay` | does a returning phone get what its queue buffered? **violated** | 2 connections, 1 event | |
| `slot` | are operations, commits and transitions safe whatever coroutines overlap; does every transition end that no dropped report leaves behind, and `dispose()` answer? | 2 operations, 1 generation, every command, one failing shutdown, disposal; or 1 operation, 2 generations, restarts only or disables only | 356 000 |
| `slot_orphan` | is every backend shut down by the ordered shutdown? **violated** | 1 operation, 2 generations | |
| `slot_stranded` | does a plugin that stopped on its own leave the slot? **violated** | 1 operation, 2 generations, no disposal | |
| `repository` | do public indexes resolve, does nobody go back, is InRelease a commit, does each release arrive? | 2 architectures, 2 builds, 2 issues (a third for a build that has none), 2 failures, 1 build kept | 65 000 |
| `release` | are manifests complete and qualified, and do feeds and appcasts resolve? | 2 builds, 3 sound runs, one run for each flaw, 2 architectures, 2 jobs, 1 failure, 1 package kept | 697 000 |
| `macos_upgrade` | does the outcome tell the truth, survive the owner's state, is the right thing tested, does it end? | both programs, 2 Keychain accounts, every flaw, 2 helpers, 1 log rotation | 1 153 000 |
| `linux_upgrade` | does the result tell the truth, do probes run alone, is readiness fresh, does it end? | all four programs, 4 helpers | 280 000 |

**Why the bounds are enough.** Two operations meet in every order on the chain of
resolutions and on a lane, and the second may chain behind an entry about to be
removed; the proofs cover any number. Three sessions of one plugin give every kind of
ancestry the walk tells apart, also a chain longer than depth 2. A capacity of two
with five events overflows during a delivery and after one; three listeners let one
come and go during a single awaited callback. Two connections, links, queues and three
subscriptions let the same connection subscribe again while its old send is awaited,
and two orphans compete; the second mode makes adoption choosy. Two generations are
the least for a stale cleanup to meet a successor, two operations for a lease to
outlive a commit. A behaviour of `slot` has one of three budgets (`Budgets` in
`MCPluginSlot`), which restrict only what the environment begins, never a step that a
fairness condition asks for: one generation with everything else, or two generations
with the commands that make a second one meet a cleanup of the first. Disables and
restarts mixed over two generations, with failures and disposal, are covered by the
theorems alone, so for the liveness properties not at all. Two builds and two failures
let a publication of either stop half way and the other run over it, in both orders
and again after a re-run, with an issue more than builds; keeping one build makes
pruning meet the second. Two runs of one build and one of another are what two
attachment jobs need to conflict on a release and to lose it to the next; the flawed
runs have their flaw in the last architecture, which is checked after the first has
passed. TLC follows one platform at a time (`OnePlatform`): the two share no asset,
job or feed, and meet only in the rule of what a new pre-release keeps, whose other
platform's part is then empty. Re-runs of a public release are followed for macOS,
whose appcasts read the releases, and while no attachment is under way (`ReRuns` in
`MCUpdateFeed`); and a release that an attachment had completed is not created again
after its deletion. The theorems assume neither. Two helpers are what a log segment
needs to be another's, one rotation what its cursor needs to be stale; four helpers
give each of the authenticated plan's launches one, or one launch several. For every
property of these runs that is not a liveness property, the theorems of section 5
remove the bounds.

Connections and modes in `sse` and attachment jobs in `release` are interchangeable,
and their permutations are used as symmetry there; the runs with liveness use none. No
run checks for deadlock: every instance stops when its operations are used up, when
its bound is reached, or after shutdown, as the program may.

**Environment assumptions.** An app subscribes once per relay connection
(`CanSubscribe`; `connection_service.dart` does): a second subscription would
leave the first queue attached and unreachable. `MaxThrows` stays below the
attempt limit in `SseManager`, so that poisoning, which `queue` covers, does not
hide a loss by turnover. Operators do not create a deleted release again while a job
that knew it is still attaching (`RollPreRelease`): the job would take the new
release's missing names for its own. A helper of the macOS app is not authenticated
and serving within one poll interval unseen.

**Fairness.** `SessionLanes`: the event loop runs a continuation that is ready, a
catalog read answers, and a body returns; the dispatcher itself has no timeout and
promises nothing otherwise. `QueueDelivery`: a callback ends, either way, and the loop
resumes. `PluginSlot`: starts, shutdowns (each has a budget) and operations end; a
plugin that reported stopping reports its end; whoever prepared a disable commits it
or rolls it back (`plugin_lifecycle_service.dart:920-955`); each coroutine is resumed.
That a plugin reports its end says nothing of whether anybody listens: the report may
be dropped. Nothing is assumed about requests: no command, event, subscription or
shutdown has to come. `PackageRepository`: the weekly schedule starts runs for ever, a
queued run gets the concurrency group once it is free (strongly fair: re-runs may take
it first), and failures are finitely many; past the bound a scheduled run is
represented by its last issue. `MacosUpgrade`, `LinuxUpgrade`: the program takes its
steps, and every wait has a deadline, so that it either goes on or fails; app and
helper promise nothing, not even to exit.

## 4. Findings

1. **Inherited failures** (`queue_poison`). Overflow evicts a failed head without
   resetting the failure count, so the next head is dropped after fewer failures
   than the class comment says.
2. **Another phone's backlog** (`sse_replay`). Of two phones that left, the first
   to return adopts the oldest orphan of its mode, not its own.
3. **A backend left behind** (`slot_orphan`). A restart settles its transition
   whatever the plugin it just started has reported. If that plugin is already
   stopping, the slot is neither routable nor in transition and still holds it;
   the next acquisition starts another one, which overwrites it. The first
   backend's later events are fenced by its generation and the disposal does not
   know it. The window is the few microtasks between the end of the start and the
   restart's resumption, or a plugin whose first status already is `Stopping`;
   with a durable commit that outlived a forced stop it is as long as that commit.
4. **A stopped plugin that stays** (`slot_stranded`). A retirement waits for a durable
   commit; a forced restart replaces the plugin meanwhile; the new plugin stops on
   its own before the commit is over. `_retireGeneration` finds a cleanup pending,
   the old plugin's, and forgets the report. The slot stays `stopping` with the dead
   plugin in it and turns requests away, until a command or the shutdown takes it
   down. `TransitionsSettle` therefore excepts such a plugin by name (`Stranded`),
   and shows that nothing else leaves a transition behind.

Behaviours that were met while modelling and are recorded as hazards, or are named
in the modules, but contradict no promise a run could check:

- an operation's lane is that of the family it resolved; an import that changes
  the session's parent between two resolutions puts a send and its cancel on two
  lanes;
- a retirement that is still shutting its backend down disposes of its successor's
  residency controller; an authentication loss that arrives when `dispose()` is
  past its cleanup lets `dispose()` answer while the backend is still closing;
- pruning counts packages instead of following the public indexes: after as many
  newer publications that failed before their entry points as builds are kept, the
  packages clients are still sent to are gone until a publication succeeds;
- a late re-run of a hosting job takes a feed back to an older build;
- the macOS program with the helper Off looks at paths and not at the Keychain; an
  owner's session there may be renewed or cleared by the app it launches, so
  `ForeignStateSurvives` speaks of Keychain items in the authenticated program only;
- a second signal, in the Linux program's account cleanup, ends that cleanup before
  it has unregistered the bridge;
- the readiness markers of a Linux launch may be those of a helper that served and
  died while the window was awaited; and two helpers at once make the cleanup
  raise before it unregisters.

## 5. What is proved

TLAPS checks every proof to the last leaf, from the named assumptions the modules
make of their constants and nothing else: types of the constants and limits that
are numbers, and positive where the code's are (`QueueAssumption`,
`LanesAssumption`, `DeliveryAssumption`, `SlotAssumption`, `MaxHelpersAssumption`,
`BuildsAssumption`, `ArchsAssumption`, `BoundsAssumption`, `KeptAssumption`);
`SseAssumption`, that connections are finitely many and fewer sends throw than
poison an event; `ReleaseAssumption`, that there is an architecture and a build,
finitely many of each, and that evidence is sound or has a flaw of its platform;
`MacosAssumption`, that Keychain accounts are no paths. Every safety invariant and
action property of a passing run is a theorem.

**SessionLanesProofs**, for any operations, sessions, plugins, depth and number
of re-parentings:

- `TypeCorrect`, then `InvariantHolds`: `DispatcherInv` is inductive. Neither
  `ArrivalOrder` nor `DrainCoversAccepted` is inductive alone: to know that
  everything earlier in a lane is over when a body starts, one must know that the
  token it awaits is its immediate predecessor's, and that this one's was too.
  The invariant therefore has four parts. `TicketInv`: arrivals are numbered
  without gaps or doubles. `ChainInv`: each resolution awaits the one that
  arrived just before it, so whoever resolves knows all earlier ones are
  released. `LaneInv`: the entry of a family is its latest live operation, each
  operation's predecessor is the latest earlier one of its family, and what runs
  or has run leaves only completed ones before it. `DrainInv`: unsettled
  operations are tracked, and the drain's captures cover all that live on.
- `RunsInArrivalOrder`, `DrainIsComplete`, `LaneEntriesExact` follow from it.
- `ImplementsFifo`: the refinement of `FamilyFifo`, by a step simulation; each
  phase maps to a status, resolution steps and catalog changes to stutters.

**QueueProofs**, for any capacity, attempt limit, and number of events and
listeners: `InvariantHolds` shows `DeliveryInv` inductive. `InOrderOnce` needs
that the buffer is younger than everything delivered, which fails for one moment:
between a successful callback and the removal of its head. The invariant names
that moment (`FlightOK`), and says of an event in flight that it is no younger
than anything buffered, so that its late success cannot disturb the order even
if overflow evicted it. `Accounted` is the exact balance of events from which
`LossIsAccounted` follows. `NoLostWakeup` is proved from the types alone: every
path that ends with a listener and a backlog goes through `Drain`.

**RepositoryProofs**, for any architectures, builds, issues and failures:
`RepositoryInvHolds` shows `RepositoryInv` inductive. `IndexesResolve` is not
alone: that an index is public when an entry point names it is known only because
the running publication has dealt with every earlier object of its tree
(`DealtWith`), under names no other issue may overwrite, and pruning takes only
packages. `NeverRollsBack` needs that the issue being published is behind no
public RPM revision throughout (`NotBehind`: the guard was evaluated once, at the
start) and, for APT, `AptBehindRpm`. `NothingRollsBack` and `InReleaseIsCommit`
are action properties, proved from the invariant one action at a time; the lemmas
about `publication_order` say that an object comes up only when everything ranked
before it is done.

**ReleaseProofs**, for any builds, runs, architectures and jobs, beside any feed
activity: `ReleaseInvHolds` shows `ReleaseInv` inductive. What makes it work is
`JobOwns`: as long as its release exists, a job has every name before its current
one filled with its own run's bytes, although it read the existing names only
once and others upload meanwhile; since nobody replaces an asset, that stays true,
and the manifest finds the rest complete. `NothingUnpublished` covers deletion and
re-creation, `PreparedOnly` carries the evidence.

Of the feeds beside them, `FeedInvHolds` shows `FeedInv` inductive. Each package a
hosting job has passed is public with its run's bytes, or has `KeptBuilds` newer ones
beside it (`HostingOwns`), so the feed, which comes last, names no other. That
alternative is the whole difficulty of `FeedsResolve`: pruning also deletes the newer
ones, but never down to fewer than it keeps. For this last step the proof takes the
least of the newer packages that pruning deletes (`FirstElement`, from the
well-foundedness of the naturals): as many as are kept are newer than that one. The
proof has shown that the packages beside the named one cannot be required to be newer
*and named*: with three builds and one kept, a feed's package is pruned, its release
is created again, and another run of that build puts its own package under the old
name before it dies. `AppcastsResolve` needs that an appcast is signed only for a
complete release (`AppcastStands`) and that creating a pre-release, or running that
job again, deletes a complete one only when it leaves another.

**SseProofs**, for any connections, modes, sizes, links, subscriptions and queues:
`SseInv` is inductive. Its one half, `RecordsKept`, is about a queue by itself:
what was sent and what is retained are together, without a gap, what was enqueued
since it was made (`Contiguous`), which speaks of the moment between a successful
send and the removal of its head; the failures charged are covered by the sends
that threw (so that a queue whose link was turned over has not come nearer to
poison); and a backlog with a listener is being sent. Each method of `EventQueue`
keeps it, whatever the state around it. The other half, `Placed`, says where the
queues are: a live one is in the table of subscriptions under exactly one
connection, or exactly once among the orphans. `QueuesPlaced`, `ModeIsolation`,
`TurnoverLosesNothing`, `BacklogIsServed` follow; `SuccessorIsSpared` is an action
property. `TurnoverLosesNothing` speaks of queues that are not disposed and were
given no more events than they retain: an orphan whose window has passed and an
overflow lose events by design.

**SlotProofs**, for any operations, generations, failing shutdowns and with or without
a disposal: `SlotInvHolds` shows `SlotInv` inductive. Every coroutine of the runtime
checks something, awaits, and acts on what it had checked; the invariant says why that
still holds. A command sets the transition before its first await, and while it is
under way every acquisition and every other command is turned away (`CommandKept`:
`Blocks`), so leases and commits that it saw drained stay drained. A cleanup has no
such lock, but as long as it is pending and its generation's plugin is in the slot,
the slot is not active (`CleanupsKept`), which keeps new leases away as well; once a
newer plugin is there, its own generation keeps the stale cleanup from it. Only the
newest generation starts (`StartsKept`), nobody but the bridge's shutdown has closed
the plugin in the slot (`BackendKept`), and every transition has an owner
(`TransitionKept`; the owner may be a stopping plugin whose report was dropped, which
is why this is not the promise that it ends), from which `TransitionOwned`,
`SafeCommandSpares` and the action properties `CommitsOutlastTakeDowns` and
`LeasesOnLiveBackends` follow. `LeasesKept` has a clause about a plugin of an older
generation in a slot that a newer one starts in: that is the state of finding 3, which
the proof cannot exclude because the code does not; it shows that the plugin lost
there has no lease left.

**LinuxProofs**, for any number of helpers: `LinuxInvHolds` shows `LinuxInv`
inductive. It says of each place of the program which item of the plan it carries
out (`Aligned`), that neither app nor helper runs between launches
(`QuietAlone`: the environment can start helpers only while the app runs, and
both exits of the cleanup leave none), that a claim is written only past the steps
that make it true (`ResultKept`, `SecretKept`), and that helpers and log lines are
the launch's own (`Fresh`). `ResultsTell`, `ProbesAlwaysAlone` and
`ReadinessAlwaysFresh` follow.

**MacosProofs**, for any Keychain accounts, helpers and rotations: `MacosInvHolds`
shows `MacosInv` inductive: the flaw a run may still have at each place
(`EvidenceKept`), what is installed and stored there (`PlacesKept`), that nothing of
the owner's that was looked for is present from the moment something may change
(`OwnersKept`), that as long as no cleanup step has failed what was removed stays
removed although the app may go on writing (`CleanupKept`), and that a "serving" line
in the segment of the log being read was written by the helper the poll watches
(`WatchKept`). `OutcomesTell` follows; `LaunchesAreOfTheCandidate`,
`QuitsAreOfTheQualified` and `OwnersStateSurvives` are action properties. The last one
speaks of what the program looked for and found of an owner: the paths in both
programs, the Keychain items in the authenticated one. It rests on the guards of the
preparation, not on the app, which writes to whatever session it has read.

**Only model-checked**: liveness under fairness, with what it needs of `ENABLED`,
which is beyond the prover: `EveryOperationSettles`, `DrainAnswers`,
`BacklogDrains`, `TransitionsSettle`, `DisposeAnswers`, `ReleasesReachClients`,
`QualificationEnds` and `SessionEnds`. The four violated properties are shown by
their traces.

## 6. Plan

Done: the bridge's four components above, the repository, releases and feeds, and
the upgrade qualifications. Next, in this order:

1. `PromptDelivery`: the app's queue of unconfirmed prompts, lost answers and
   retries, the bridge's deduplication by prompt id, acceptance and its record
   with a crash between them; quota continuations against a user's prompt.
   Abstract specification: a prompt runs at most once per id (`AtMostOnce`).
2. `RelayLink`: the read and reconnect loop with backoff and re-authentication,
   routed requests and their late responses, and the order of the teardown;
   composed with `SseManager`'s view of the link.
3. `StartupMutex`, `TokenRefresh`, `CompletionNotifier`; then catalog snapshot
   permits and transient residency in `PluginSlot`.
4. Bridge signatures beside re-runs of the core release, and concurrent
   publications of the analytics cutoff.

Theorems worth proving next: that each queue of `SseManager` behaves as
`QueueDelivery` allows (a refinement, with a listener for each subscription); an
abstract specification of the commit of a publication, which `PackageRepository`
implements; for `PromptDelivery`, the refinement of `AtMostOnce` without crashes.
The modules avoid recursive operators so that the prover can use them.

## 7. Not modelled

- *Packaging* (`package_desktop_*.py`) and *bundle qualification*
  (`qualify_desktop.py`, `probe_desktop_macos.py`): straight-line calls of tools on
  files of one runner, with nothing beside them; every failure ends the job. What
  they promise of a package appears as the evidence `ReleaseAssets` and
  `MacosUpgrade` examine.
- *Bridge signatures* and the *analytics cutoff*: small publications. The first
  uploads only missing signatures after verifying the archives, as attachment jobs
  do; its race with a re-run of the core release is a listed hazard. The second is
  one read-modify-write under the server's `If-Match`.
- *Interactive debugging* (`debug_desktop_linux_session.py`) and the MCP contract
  terminal: no state of the product.
- *Diagnostics* of a failed qualification, screenshots, menu recognition, and the
  preparation of qualification inputs, which reuses the release checks.
- The bridge's components listed as planned in section 1, and those of
  `PROJECT.json` with their reasons; plugins, apps and relay are environment.
