# nekoray: a TLA+ model

TLA+ modules for the control logic of this repository, TLC configurations that
check them on small instances, and theorems that TLAPS proves for every value
of the constants. `PROJECT.json` maps each definition to the lines it stands
for, and lists the components, the runs, the mutants (a plausible bug for each
property, under which TLC finds it violated), the findings and the hazards.

    tlc -workers 2 -config CoreInstance.cfg CoreInstance
    tlapm ServerLifecycleProofs.tla   # and the seven other ...Proofs.tla

## 1. The system

nekoray is a desktop and Android proxy client. A Flutter app
(`nekoray_flutter/`) keeps profiles and settings, starts a Go core
(`go/cmd/nekobox_core`, a process on the desktop, a library in the app's process
on Android) and drives it over gRPC. The core parses subscriptions, builds
configurations and runs one *sing-box instance* (a "box") for the user, plus
throwaway boxes for latency tests. A separate `updater` replaces the
installation when a downloaded package is there.

    node list / dashboard / settings / quit / profile list    (Dart, one thread,
        |  flows: start, switch, stop, import, refresh ...      async functions)
        |               |                        |
        |        local_store.dart: JSON      android_vpn.dart -> NekoVpnService.kt
        v        files of the profiles       (method channel, one main thread)
    core_process.dart --spawns--> nekobox_core      mobile_core.dart -> library
    grpc_client.dart  --RPCs----> grpc.go: server, Exit, StopServer, hook
                                    |-- grpc_box.go, core_box.go: the instance
                                    |-- ruleset/manager.go: rule-set cache
                                    |-- update.go: update sessions, package
                                    `-- core/sub, core/fmt, core/config: links
                                        to profiles to sing-box configs
    updater.go  (its own process): replaces the installation from the package

### Inventory

| component | state | operations | hard behaviour | what must hold |
|---|---|---|---|---|
| **instance and RPC handlers** (`grpc_box.go`, `core_box.go`) | `instance`, `instanceCancel`, `instanceCtx` under `instanceMu`; the boxes | Start, Stop, Test, QueryStats, shutdown hook | one goroutine per call; Test and QueryStats use the box after the lock; a failing Start | the published instance is usable; no box leaks, a half-started one included; a test disturbs nothing; every call returns |
| **gRPC server lifecycle** (`grpc.go`, `main.go`) | `shutdown.{fn, cleanup, requested}`, servers, process | Exit, SetShutdownHook, RunCore, RunCoreBound, StopServer | Exit's goroutine against main's return; racing Exits; a drain that gives up; a Serve that comes after the stop | hook once, after the handlers; Exit ends the process; nothing serves after a stop, and its port is free in the end |
| **Android core and VPN** (`mobile_ffi.go`, `mobile_core.dart`, `android_vpn.dart`, `MainActivity.kt`, `NekoVpnService.kt`) | start attempt, endpoint, channel, service, consent, TUN descriptor | ensureStarted, connect, prepare, start, stop | a start that times out while it goes on; one main thread; intents that arrive later; a new activity in the old process | callers get the server's token; a stop ends the VPN; every call returns |
| **desktop session** (`home_page.dart`, `connections_page.dart`, `settings.dart`, `app.dart`) | `connectedProfile`, `_isStartingOrStopping`, `systemProxy`, the OS proxy | `_start`, `_stop`, their dashboard twins, `setSystemProxy`, `_quit` | an await between any two steps, lost answers, core crashes, a setting that cannot be written | status honest; no box lost; connected means proxied; flows end |
| **core supervisor** (`core_process.dart`) | `_process`, `_endpoint`, `_starting`, pid file | start, stop, reap | a start shared by callers, a stop or an exit during it, a core that survives its kill, stale or unwritten pids | one attempt; the endpoint is the core's; no core forgotten or unrecorded |
| **profile store and list** (`local_store.dart`, `providers.dart`) | JSON files, the list in memory, `_idLock`, `_nextProfileId` | create, import, refresh, update, delete, restore, load | calls that overlap at every await; a batch that fails half-way; crashes | ids are unique until written; a failed import leaves nothing; calls return |
| **links, profiles, configs** (`core/sub`, `core/fmt`, `core/config`, `profile.dart`, `profile_edit_dialog.dart`, `routing_page.dart`) | one profile on its way | parse, edit, retype, share, build | three formats in two languages; keys of another protocol, `c_out` among them, left in a bean; lists regrouped; tags defined and used far apart | encryption survives; sharing loses only what is listed; every tag resolves; DNS agrees with the routes |
| **rule-set cache** (`ruleset/manager.go`) | registry, `index.json` and backup, payloads, `mu` | Register, Download, loadIndex | network outside the lock, rollback, crash between renames | index and bytes agree; a failure changes nothing; a restart recovers |
| **update check and download** (`update.go`) | sessions (at most 32, with a TTL), the package | Check, Download | consumed under the lock, used without it | a session is used once, for what was shown |
| **self updater** (`updater.go`) | installed files, backups | replacePayload, rollback | crash or failure between renames | old or new installation, no mixture, never older |
| **settings persistence** (`settings.dart`) | one document | copyWith and persist | two setters within one file write | (nothing promised) |
| **token authenticator, migrator, widgets, generated code** | none | a comparison, a one-shot import, rendering | none that interleaves | covered by tests |

## 2. Modules

| module | what it is | uses |
|---|---|---|
| `CoreService` | abstract: one active box, live boxes, tests | refined by `CoreInstance` |
| `CoreInstance` | the RPC handlers around `instanceMu` | |
| `ServerLifecycle` | Exit, StopServer, main, NekoboxStart/Stop around those handlers | composes with `CoreInstance` |
| `ServerLifecycleProofs` | the theorems about both | `ServerLifecycle`, `TLAPS` |
| `ProxySession`, `MCProxySession` | the desktop client's flows over a core that runs each RPC at once | |
| `ProxySessionProofs` | its theorems | `ProxySession`, `TLAPS` |
| `CoreProcess` | the desktop supervisor: shared start, stop, pid file, reaper | |
| `CoreProcessProofs` | its theorems | `CoreProcess`, `TLAPS` |
| `MobileCore`, `MCMobileCore` | the Android start attempt, channel, VPN service and main thread | |
| `MobileCoreProofs` | its theorems | `MobileCore`, `TLAPS` |
| `ProfileStore`, `MCProfileStore` | the profile files, the list and the calls on them | |
| `ProfileStoreProofs` | its theorems | `ProfileStore`, `TLAPS` |
| `ShareLink` | `link.go`, `link_gen.go` as operators | |
| `ConfigBuild` | `core/config` and `toGrpcRouting` as operators | `ShareLink` |
| `ProfileService`, `MCProfileService` | a profile imported, edited, retyped, shared, re-imported and built | `ConfigBuild` |
| `ProfileServiceProofs` | its theorems | `ProfileService`, `TLAPS` |
| `RuleSetStore` | the rule-set cache with failures and crashes | |
| `RuleSetStoreProofs` | its theorems | `RuleSetStore`, `TLAPS` |
| `SelfUpdate` | the Update RPC's sessions and the updater's replacement | |
| `SelfUpdateProofs` | its theorems | `SelfUpdate`, `TLAPS` |

**CoreInstance.** `writer` is the holder of the write lock; `instance`,
`instanceCancel`, `instanceCtx` are the globals, a cancel function being
represented by the box it cancels. Each goroutine has an operation `op`, a
position `pc` and two locals: `own`, the box it creates, and `via`, the box it
probes through. Steps under the lock that nobody can tell apart are one action;
taking the lock, `box.New`, `box.Start`, `cancel` and `Close` are actions of
their own because another goroutine sees the box in between. `orphaned` is
history: the boxes a rejected Start made unreachable.

**ServerLifecycle** adds the servers, the shutdown record, Exit's goroutines, the
Android thread and the process. `grpc.Server` is external: `GracefulStop`
refuses calls at once, returns when the handlers have, then `Serve` returns.
On Android `Serve` runs on a goroutine of its own (grpc.go:172): a server is
`"bound"` until then (`Serve`), and one that `GracefulStop` meets before is
`"held"`: it has stopped, but its listener is open until `Serve` closes it. The
hook is CoreInstance's `shutdown` operation, run by the goroutine that calls it.

**ProxySession** has one position `at` per flow and one action per stretch of
code between two awaits, in the node list's and the dashboard's variant (`dash`).
The core executes an RPC in one step, with all configurations on one port, so
that a lost box makes every later Start fail. A behaviour has one `scene`: who
acts and which faults the environment may have, `crash`, `command` (an OS proxy
command fails), `answer` (a deadline passes), `late` (the core executes the
request afterwards). `doubt` (the client cannot know the core's state) and
`crossed` (two flows, a flow and the switch, or two flips of the switch
overlapped, or an OS command failed) are history, as is `unsaved`: the last flip
took in the OS, and `saveSettings` threw (settings.dart:191, fault `save`).

**CoreProcess** has the supervisor's fields per instance of the application, one
`pc` per call, one action per stretch between awaits. `AttemptEnds` moves several
callers at once: the future they await completes and their continuations run as
microtasks. The output line and the exit of a core are events of their own that
come in either order. `hollow` is history: a start returned although the exit
callback or a stop had cleared `_process` meanwhile (line 184 does not look);
the properties hold until then and fail after it. A kill ends the core
(`Kill`) or `stop` gives up on it after its timeouts and goes on (`KillTimesOut`);
every operation on the pid file may fail, and the code swallows that. `wedged`
(cores given up on) and `unrecorded` (whose pid was not written) are history.

**MobileCore.** `attempt` is what became of each start attempt, named by the
token it generates: a caller's timeout abandons the callers, not the attempt
(`StartTimesOut`), so that the server may run with a token nobody heard of
(`"lost"`). `queue` is the main thread's messages, of the method channel and of
the service; `main` is the call whose `handleStart` blocks that thread;
`intents` are on their way to a service the system may have to create first.
`established`, `open` and `tunFd` are the descriptor as the service, the kernel
and the core know it. `NewActivity` is a new Dart program in the old process;
what the old one had posted is dropped when its turn comes (`Drop`). `left` is
the budget of calls, timeouts and new activities, `crossed` says that the last
stop handled ended a service while another START was still to come.

**ProfileStore.** A profile is its group and who wrote its file last. A call of
the notifier is a flow with a `pc`; `Lock` takes `_idLock` and scans, `Reserve`
gives a batch of ids and opens the gate, `Save`, `Remove` and `PutBack` are one
file each, in the order of the loops. Every file operation may fail (`Fault`),
and the application may die anywhere (`Crash`) and is opened again. `hits` counts
the failures of a call: a failure of the undoing itself excuses it.

**ShareLink, ConfigBuild, ProfileService.** A JSON object, a URL's query and a
bean are functions from keys to non-zero tokens; a link is its scheme, the form
of its user part (pair, base64, JSON), and its fields; an outbound is a function
from dotted JSON paths to tokens. The parsers, generators and builders are
operators with one clause for each branch of the Go code. `DecodeBean` is the Go
type a profile's label selects: two protocols may share one, and the
discriminator that every Dart save stamps (`ToJson`) then says which it is.
`BuildChain` merges the bean's `c_out` over the outbound (`Customized`): whole
top-level keys are replaced. Which text is a JSON object, saying what, is
external (`JsonObject`). An outbound's transport without a name is `Unnamed`, not
the absence of a transport. `BuildConfigSingBox` returns what a config *names*: outbounds, DNS servers, rule
sets, inbounds, and the rules in their order. sing-box's own matching is
external (`Holds`, `FirstOut`).

**RuleSetStore** makes every rename and removal of a named file an action, so
that a crash falls between any two, in the rollback of a download too
(`UndoPayload`, `Undo`), and any but the rollback's may fail. `before` records
what the last call that succeeded left, `died` where the holder of `mu` was when
the process died.

**SelfUpdate** follows a release from GitHub's list to the installed files. A
release is its rank, `listed` the order GitHub publishes in, which need not be
that of the ranks. `table` is `updateState.sessions`, `older` the order of its
sessions' `createdAt`: the TTL removes a session with all older ones, the limit
the oldest. `replacePayload` moves one entry per step; `Rollback(stuck)` is a failing rename with the entries in `stuck` failing
to be renamed back. `damaged` marks what the code does not recover from.

## 3. Runs

| run | asks | bounds, and why they are enough |
|---|---|---|
| `core_instance` | is the instance always usable; does a box leak; does a test disturb it; does every call return; is CoreService implemented | 3 handlers (a writer, a waiter, a reader), 2 boxes and 2 ports (two boxes that want one port, or can both serve) |
| `core_stop` (finding) | does a Stop that returned leave nothing serving | Start, Start, Stop: 2 handlers |
| `server_lifecycle` | do hook and drain keep their order; does nothing serve after a stop; is its port free in the end; does Exit end the process | 1 RPC, 2 Exits that race, 2 servers (a restart), 1 box; both modes |
| `session` | status, lost boxes, system proxy; flows end | scene *alone*: 1 flow, 1 flip of the switch, 2 nodes, faults crash, command, save, answer, quit at any step. Scene *overlap*: 2 flows, 1 node, faults crash, answer, late. Scene *flips*: 1 flow, 2 flips that overlap, 1 node, fault command |
| `core_process` | one attempt; endpoint, process and pid file agree; no core forgotten; calls return | 1 application (crashes, reopens), 2 callers (one starts, one waits or quits), 2 cores |
| `mobile_core` | is the endpoint the server's; does a stop end the VPN; do calls return | 3 attempts, and either 2 calls, 1 timeout and 1 new activity or 3 calls alone (two starts that overlap, and a stop) |
| `vpn_start` (finding) | does start return the descriptor | 2 calls |
| `profile_store` | are allocated ids free; does a failed import leave nothing; do calls return | 2 calls at once out of 6 kinds, batches of 1 and 2, 2 failures (one of the undoing), 1 crash; a store with a subscription's profile and one without a group |
| `profile_service` | does a profile keep protocol, encryption and outbound; does a config resolve; do DNS and routes agree | each scheme with a full and a bare link, every transport and security, editor forms retyped to all 13 types, custom forms with a `c_out` that names a type, a tag, a server or no JSON at all, 2 shares (the second must change nothing), 9 routings, TUN on and off |
| `rule_order` (finding) | does the first matching rule decide | the same inputs |
| `ruleset_store` | failure atomicity and recovery | 2 calls, 2 tags, 2 payloads, 1 crash (a second is the known counterexample below), any file operation failing but the rollbacks' |
| `self_update` | is what was shown what is downloaded, once; is the installation whole; never a downgrade | 2 sessions over a table of one, 2 handlers, 5 versions (two plain, a pre-release, one without an asset, one without checksums) of which either plain one is installed at first, 2 shipped entries and a stale one |

Identities are bounds too: a box, a server, a core, a token and a fetched payload
are used once. `CHECK_DEADLOCK FALSE` stands where the system may stop: an app
that has quit, calls, crashes or payloads used up, a config that was built.
CoreInstance, CoreProcess and SelfUpdate are checked for deadlock.

### What the failing runs show

* `core_stop`: `Start` declares a deferred function that sets `instance = nil`
  when it returns an error, and "instance already started" is one
  (grpc_box.go:62). The running box is forgotten, not closed; Stop then succeeds
  without touching it.
* `rule_order`: the routing page lets the user order rules "because sing-box
  executes the first matching rule", but `toGrpcRouting` merges the plain lists
  by outbound and `buildRoute` emits block, proxy, direct in that order, after
  all rules with other conditions.
* `vpn_start`: `NekoVpnService.start` waits on the main thread for
  `onStartCommand`, which Android runs on that thread. It always answers -1, and
  the interface established afterwards belongs to nobody.

### What the properties excuse, and known counterexamples

Each of the following is a behaviour of the models, listed under "hazards" where
no property can hold. No document promises otherwise, except where one is quoted:
there the program and its comment disagree, and the properties say what is left.

* ServerLifecycle: `StopServer` calls the hook before it stops the server
  (grpc.go:193), so a Start accepted in between survives; `main` may return
  before Exit's goroutine has called the hook. `RunCoreBound` returns before its
  goroutine has called `Serve` (grpc.go:172): a NekoboxStop in between calls
  `GracefulStop` on a server without a listener, which returns at once, and the
  port stays bound until `Serve` runs and closes it (`StopReleasesPort`). A
  restart on that port may fail meanwhile, although `StopServer` is there "so the
  core can be started again in-process" (grpc.go:181).
* ProxySession: a switch that fails after `stopCore` leaves the OS proxy on a
  port nobody serves (home_page.dart:1197); a flip of the proxy switch during a
  flow is undone by it; of two flips within one OS command the setting may keep
  the other's value (settings.dart:280); a flip to off that took in the OS and
  could not be written leaves the setting on and the OS's proxy off until the next
  start (settings.dart:191, `unsaved`); with two flows a Start is rejected and
  a box lost.
* RuleSetStore: a crash between the two renames of a download (manager.go:308,
  317), or in its rollback, loses the tag's payload, its old bytes being in a file
  with a fresh name; the registry still lists it. After a recovery from the backup,
  `saveIndexLocked` removes the only copy before the new one is in place
  (manager.go:135), so a second crash loses the registry. `Register` of a known tag overwrites its format and keeps
  its payload (manager.go:213); formats are left out. That a rollback's own renames
  succeed is assumed.
* CoreProcess: a second instance of the application reaps the first's core
  (core_process.dart:264), the pid file not saying whose it is. A core that `stop`
  gave up on (`wedged`) is known to nobody: "the stale-pid reaper covers next
  launch" (core_process.dart:223), but `stop` has deleted the pid file by then
  (line 239). Nor is one whose pid could not be written (`unrecorded`) once its
  application is gone.
* Config builder: a custom profile that is retyped, and a migrated one
  (profile.dart:208), keep their `c_out`; if it names a type, the outbound is not
  what the profile's label says, and if it names a tag, the final rule, the DNS
  detour and the statistics refer to an outbound that is not there
  (chain.go:45, 89).
* MobileCore: a second `prepare` overwrites `pendingResult`, and its first caller
  waits for ever (`Forgotten`); after a start that timed out, connects are
  refused because the server has a token nobody knows. A stop that finds a
  service ends it directly instead of sending a STOP behind the intents
  (NekoVpnService.kt:71): with two overlapping starts and a stop, the START of
  the second start arrives after its own stop ended the first one's service, and
  its VPN runs on (`crossed`).
* ProfileStore: a refresh deletes before it saves and a restore clears before it
  writes; `update` writes a copy that brings back a profile deleted meanwhile.
* settings.dart:190: `state` is assigned after the write, so the second of two
  setters within one write loses the first's change.

What the profile modules show besides: `LostPaths` lists, by protocol, what a
shared link drops (a vmess link all of TLS but the SNI; socks links come out as
`socks0`/`socks1`, which the parser refuses, as it does every `ss://` without
"@"). The parsers of naive, anytls, ssh and wireguard links drop the name. The
editor offers Security `reality`, which the builder does not know: the outbound
is in plaintext, as for a vmess JSON whose `tls` is `reality` (link.go:531)
(`Sayable` and `SaysTls` excuse them; a link that *says* reality is imported as
tls with a public key and keeps it). The forms ask for no certificate,
`packet_encoding`, header type and the like, and offer no network `h2`
(`Offered`). Their Encryption and Network lists show a value that is stored only
when it is chosen: a vmess profile whose encryption nobody touched comes back
from a link with `auto`, which it was not built with, and one whose network
nobody touched with `tcp`, which has no transport. Before that it was built with
`transport: {type: ""}`, which sing-box refuses: the field is not stored, and the
builder takes every network but `tcp` for a transport's name (outbound.go:20),
while the form shows `tcp` and its comment counts on "the core's zero-value
defaults" (dynamic_form.dart:94) (`Sayable` excuses both,
a shadowsocks plugin that the parser renames, and `c_out`, which no link has). The link of a trojan without
encryption does not mention it, so it comes back with tls, even at the second
share if the first link said none (`Unsayable`). What a link says counts as
encryption only where its parser reads it (`SaysTls`): a `?security=tls` of an
ssh link or reality of an http link is ignored. The editor's `custom` profile
has no core, so it builds "unsupported outbound". `_compileRuleToSingBox` drops
source, inbound and source port.

## 4. Fairness

* CoreInstance: weak fairness of a handler's own steps (a goroutine that can run
  does; probes end by their timeouts, `box.Close` returns) and strong fairness of
  `Locking`, because `sync.RWMutex` starves nobody: a waiting writer holds back
  new readers. Nobody has to call anything.
* ServerLifecycle: the same, and weak fairness of the goroutines, the one that
  calls `Serve` included, and of `main`.
* ProxySession: weak fairness of each flow's steps (Dart's event loop; every RPC
  the flows await has a deadline; that the OS's proxy commands and the write of
  the settings end is assumed).
* CoreProcess: weak fairness of each call's steps. The waits for the address and
  for the exit end by their timeouts, and an application that dies ends its calls.
  Of the awaits without a timeout (the pid file's operations, `Process.start`,
  `stdin.close`, `tasklist` and the first `taskkill`) it is assumed that they
  return.
* MobileCore: weak fairness of each call, of the attempts, of the main thread as
  a whole (its queue keeps the order), of the delivery of intents and of the
  dialog, which the user answers or dismisses.
* ProfileStore: weak fairness of each flow's `Work`. The waiters for `_idLock`
  are not starved in a finite run because calls are; the failures need not occur.
* RuleSetStore, SelfUpdate, ProfileService: safety only.

## 5. Proofs

**ServerLifecycleProofs** first treats CoreInstance alone, for every set of
handlers, boxes and ports, from `NilAssumption`: `TypeCorrect`, `InstanceAlwaysUsable`, `NoOtherBoxLeaks`,
`BorrowedBoxes` (the invariants of `core_instance`), `ProbesAreHarmless` (its
action property), `CoreServiceImplemented` (the refinement). All follow from the
inductive `IInv` (theorem `Invariance`): `InstanceUsable` speaks of the moments
when the lock is free, and that the box then published is started needs to know
where its creator is and that nobody else owns it. Hence `HandlerOK` (which
operation stands where, with which locals), `OwnOK` (a handler's box is its own,
in the state its position says, neither instance nor orphan until published),
`LockOK` (the holder of the lock is the handler inside Start's creation or
Stop's closing), `StartFoundNone`, and `GlobalsOK`. The refinement maps `RunBox`
of a Start to `Activate`, of a Test to `Probe`, `CloseInstance` to `Deactivate`,
`StartRejected` to `Forget`, `TestClose` to `EndProbe`, the rest to a stutter.

Then the servers around it, for every set of handlers, Exit calls and servers, from
`CallsAssumption`: `HookInOrder` and `NothingServes`, the invariants of
`server_lifecycle`. `ServerInv` follows a server from its calls (`ConnOK`: one
that has stopped has no handler), each Exit goroutine (`HookOK`: in the hook only
when the server it drained has stopped), the desktop's one server and one Exit
(`DesktopOK`), and on Android the one server that serves, or will when its
goroutine calls `Serve` (`MobileOK`).
`InstanceWithinServer` shows that the composition implements CoreInstance, so
`InstanceUsableInServer` carries the theorems about the instance over to it.

**ProxySessionProofs**, for any nodes, flows, flips and scenes, from
`SessionAssumption`: `NoLostBox`, `HonestStatus` and `ProxiedWhenConnected`, with
failing OS commands and failing writes of the settings. They speak of clients that do not overlap (`AloneOK`); between their awaits the proof needs
what a flow may rely on (`FlowOK`: who sends a Start has seen the core without an
active box), how the status, the core and the last answer fit together
(`StatusOK`), and the same of the setting, the value a flow read at its start and
the OS's proxy (`ProxyOK`), which is what the setting says unless the last flip was
not stored (`unsaved`). Two flips that overlap belong to `crossed` for the
sake of `ConnectedMeansProxied`, which is false with them (scene *flips*).

**CoreProcessProofs**, for any applications, callers and cores, from
`ProcessAssumption`: `SharedAttempt`, `CurrentEndpoint`, `KnownCores`, and
`RecordedCore` for one application (`OneApp`; with two it is false, see above).
`AttemptOK` says that the client inside `_start` is `_starting`, `PublishedOK`
what `_process` and `_endpoint` may be during an attempt and between two,
`HandOK` that a core that was adopted is `_process` until it is dead or `_quit`
is about to kill it, `KilledOK` that it then stays dead or is `wedged`. What the
pid file says is only used of cores that were recorded and not given up.

**SelfUpdateProofs**, for any sessions, handlers, versions and entries, from
`UpdateAssumption`: `DownloadedOnce`, `WholeInstallation`, `ShownIsDownloaded`
and `NoDowngrade`, all four properties of `self_update`. `SessionOK` follows a
session from its check to its download (nobody else uses it while it is checked,
what is fetched is what was shown), `VersionOK` says that whatever is on its way
to the installation, a session, a call, the package, a backup, is at least as new
as what ran last, and `UpdaterOK` where each entry is at each step of the updater.

**ProfileStoreProofs**, for any number of overlapping calls, ids, batches,
failures and crashes, from `StoreAssumption`: `AllocatedIdsAreFree` and
`FailedImportIsUndone`, that `FreshIdsFree` and `FailedImportLeavesNothing` always
hold. The first is not inductive. The proof needs

* `GivenOK`: ids given out lie below `_nextProfileId` and are disjoint;
* `ReserveOK` and `LockOK`: whoever is about to reserve holds `_idLock` alone,
  and every file an allocation wrote lies within its scan or below the counter.
  The counter dies with the process, and the scan finds what it knew;
* `RollbackOK`: what a rollback puts back is a file no allocation wrote, because
  a batch overwrites only ids it was given. So a rollback cannot bring an id back
  after another flow was given it;
* `FreshOK`: the first half of the property, and `PlaceOK`: which call may be at
  which step.

`Quiet` says what a step does that neither allocates nor writes a file, and
`QuietSteps` settles those at once; `Reserve`, `Save`, `Remove`, `PutBack` and the
failures of a batch have a proof of their own. For the second, `UndoOK` says of a
call that undoes its import that each id it was given is still to be undone or
has no file of its, unless one of the removals failed; what other calls do at the
same time does not matter, because the ids are its own (`FreshOK`).

**RuleSetStoreProofs**, for any tags, urls, calls, payloads and crashes, whatever
file operation fails, from `StoreAssumption`: `StoreIsConsistent`, that
`BytesMatchIndex` always holds, `FailureRollsBack`, that every step keeps
`FailedCallChangesNothing`, and `CrashIsRecovered`, that the restart after the
first crash does what `RestartRecovers` says. `BytesMatchIndex` speaks of the
moments when `mu` is free; in between `WorkOK` says how far its holder has come
from what it found (`before`) and that its locals `previous` and `spare` lead back there, and
`IndexOK` that what it found agreed, and whether the index of that time is still
`index.json` or set aside as its backup. `Undo` and `PlacePayloadFails` then
restore exactly `before` (`UndoRestores`, `PlacePayloadFailsRestores`), and
`Finish` leaves a registry that is the index just written. `CallOK`, `LockOK` and
`DownOK` say what a call at each step knows, that only the holder is inside, and
that a dead process has no calls. For the restart, `RecoverOK` says that until
the process dies a backup is there only while its save is under way, so that
wherever it dies the index or its backup has what the calls that returned left
(`LoadableAnywhere`); that the payloads are theirs too, but for the tag under way,
follows from how far its call had come (`WorkOK`).

**MobileCoreProofs**, for any number of calls, start attempts, timeouts and
activities, from `MobileAssumption`: `EndpointIsServers`, that
`EndpointMatchesServer` always holds. It needs `WaitersShare` (who waits, waits for
the attempt in flight), `OneAtATime` (during an attempt no endpoint is set) and
`ServerKnown` (the server is of the current endpoint, or of an attempt that timed
out). Steps that touch none of these are settled together (`Passing`). And
`StopIsObeyed`, that `StopEndsVpn` always holds: `Ends` says that after the user's
stop a start or stop is under way, whose own stop is yet to be handled, or what
is running, posted or intended ends with a stop (`Ending`). That the handling of
a stop leaves it so needs `Answered` (a call has at most one message, wait or
dialog, so what is posted is of a call under way) and `Unbound` (a service the
system no longer counts has its end posted behind its START). Without the
exception `crossed` the property is false, from three calls on.

**ProfileServiceProofs**, for any contents, forms, routings, data stores, rule
sets and destinations, from `ServiceAssumption` and `RulesAssumption`: all seven
properties of `profile_service`. The inductive `IInv` (`ServiceInvariant`) says
that a stored profile is `Labelled` (its discriminator is that of its type),
that a link that says tls or reality is stored as a profile that is `Encrypted`,
and that a config is what `BuildConfigSingBox` made of this profile and routing
(`ConfigInv`); an imported profile has no `c_out` (`FieldsInv`). From it:

* `BuildsWhatItIsLabelled`, `EncryptionSurvives`: one case per protocol; a save
  stamps the discriminator, so the bean the label selects is the right one
  whatever the editor left in it. What `c_out` does not name is as the builder
  made it (`NamesKept`), and without a `c_out` nothing changes (`Uncustomized`).
* `NoDanglingReference` (the outbound's tag is `proxy` unless `c_out` renames it,
  `TagOfChain`), `NoResolverLoop`, `ResolverFollowsRoute`: about the lists
  of rules and servers as they are put together with `\o`, for lists of any
  length. `toGrpcRouting`'s loop is a recursive function; that its rules have the
  outbounds and the sets of the rules it was given is shown by induction, as the
  smallest index where it would fail (`LeastNatural`).
* `SecondShareIsFaithful`, `FirstShareIsFaithful`: for each protocol a table says
  what a trip through a link leaves of every key (`SSHAfter`, `UrlAfter`, ...), a
  lemma that it does (`...Trip`), one that the table applied twice is the table
  (`...Settles`), and one that the builder makes the same outbound of it
  (`...Kept`). Two functions without empty values are equal when they have the
  same values (`Lean`); two outbounds `Agree` when their parts do. `TripInv` says
  that after a share the profile is one that came back from a link. `FieldsInv`
  says what no link and no form ever stores (a certificate, `packet_encoding`,
  the network `h2`, a port 0 that the parser would replace), which is why a link
  need not carry it.

Each inductive invariant was checked by TLC as an invariant of its component's
instance first.

Only model-checked: liveness (out of the prover's reach), and `RecordedAtRest`
for several applications, where it is false.

## 6. Not modelled

`PROJECT.json` "components" gives the reason for each. In short:

* `clash.go` is a field-by-field mapping of YAML; `filter.go` is not called by
  the client; the migrator is a one-shot import; the authenticator is a
  comparison, whose outcome MobileCore has; widgets render; generated code and
  scripts are no program logic.
* The config builder's inputs that the client never sends: mux,
  custom inbounds and global routes, the custom DNS object,
  the VPN rule lists, the Clash API.
* TcpPing and ListConnections change nothing; `watchParent` is one of the ways a
  core dies; pids are not reused; a rule set's format is left out; the update
  package's extraction and its URL rules are data; two updaters do not run at
  once; `SetRuleSetCacheDir` (a second manager) is not there.
* On Android `mobile_core`'s stop is called by `_quit` only, which has no entry
  there.
* The groups' own notifier, the settings setters other than `setSystemProxy`,
  percent-encoding, base64 and number syntax.

## 7. What could follow

1. An abstract registry that RuleSetStore refines, crashes included, and an
   abstract store of profiles for ProfileStore.
2. The group notifier with ProfileStore: a group deleted during a refresh.
