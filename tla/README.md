# Holy Blocker: verification project

TLA+ models of the stateful parts of Holy Blocker, TLC runs that check them on small instances, and
proofs checked by TLAPS that hold for every value of the constants. Everything is translated from
the source; `PROJECT.json` maps each definition to the lines it stands for, lists the runs, the
hazards, the seeded faults and the theorems.

    tlc -config ProxySupervisor.cfg ProxySupervisor.tla     # one run
    tlapm ProxySupervisor_proofs.tla                        # one proof module

## 1. The system

Holy Blocker keeps blocked content away from its user. It is several programs that share Rust
libraries.

| Part | State it keeps | Operations | Modules |
|---|---|---|---|
| **mac-daemon, proxy supervision** | machine state, restart counter, `hasConfiguredSettings`, snapshot file, the system's proxy settings, a child process | start, watch, stop; launch, probe, apply, restore, terminate, back off, give up; the verb `proxy-restore` | `ProxyCustody`, `ProxySupervisor` |
| **mac-daemon, agent** (`AgentRenderLoop`, `ScanLoop`, two scanners, overlay, suppressor, text walk) | last verdict, ages of scans, in-flight classification, overlay windows, cooldowns | tick, scan, classify, reconcile, hide | `Agent`, `TextWalk` |
| *mac-daemon, tamper watch* (`PermissionGate`) | last reading | poll, compare, assess | `TamperWatch` |
| **Android, protection mode and custom apps** | armed flag, disarm request and stamp, button drawn; list of apps, removal requests | arm, request, cancel, confirm, refresh; add, request, cancel, confirm removal | `Protection` |
| **Android, screen guard** | overlay, back-out state, re-looks, posted tasks | window events, look, scan, cover, back out | `ScreenGuard` |
| **Android, network guard** | VPN tunnel, native guard, pool, reader, posted commands | start, revoke, forward, tear down | `NetworkGuard` |
| **Android, tamper log and guard status** | log file, what the store remembers of it, last health | append, trim, classify a connect; watch, stop itself | `TamperLog` |
| **Android, screen capture** | projection, display, reader, thread, frame gate | begin, frame, teardown | `ScreenCapture` |
| **domain-blocklist, sweep and look-ups** | liveness cache (file and pending buffer), position in the corpus | canary, batch, look up, checkpoint, flush, prune | `Sweep`, `DnsCheck` |
| *domain-blocklist, fetchers* | none between runs | request, retry, verify the pin | `Fetch` |
| **domain-blocklist, pipeline** (merge, gates, FST build) | the published lists | fetch, merge, sweep, gates, publish | `Build` |
| **domain-blocklist, publication** | `current/`, `previous/`, `previous.tmp/` | load previous, rotate, write | `Publication`, `PublishedBuild` |
| **net-shield, lookup worker** | bounded queue, in-flight table, LRU cache | lookup with a budget, worker answer | `Lookup` |
| *net-shield, packet engine* | keywords | parse, decide, refuse, set keywords | `Datagram`, `DnsShield`, `PacketFilter` |
| mitm-proxy, text-policy, image-sandbox, domain-normalize, FFI crates | none that outlives a call, but a certificate cache | relay, score, classify, normalise | |
| daemon IPC, installation and trust, desktop, win-network, win-daemon, machine-learning, tools | thin shells, command sequences, stubs, training, tooling | | |

Bold: modelled. Italic: in part. The rest is not modelled; section 6 says why.

The parts meet through files and processes. mitm-proxy is a child of the supervision and an actor of
its model. The sweep and the publication are stages of one pipeline run: `Build` puts the stages
together, standing on what `Publication` is shown to implement. net-shield reads the slots (`Loads`
in `Publication`, `served` in `PublishedBuild`). On the phone every service reads the mode and
writes the tamper log: each of their models has the mode as a variable its environment changes, and
`TamperLog` has all the writers.

The behaviours that are hard here:

- **Crash and restart between two calls.** The daemon changes system settings by external commands
  and must undo them after any death. The publisher moves directories file by file. The sweep writes
  its cache in batches for hours. The log is appended by a process that may be killed.
- **Clocks that jump.** The Android mode and the log count with a clock that a reboot sets back to
  zero, and persist stamps of it.
- **Stale views.** A button acts on the phase it was drawn with; a cache row may not be readable;
  preferences reach the disk later than the eye; a verdict is about an earlier frame.
- **Resolvers that lie**, for a while or for single names, with pruning a domain from the blocklist
  as the consequence.
- **Threads without locks.** The VPN and the capture service are torn down by a thread of the system
  while the main thread starts them; a lookup waits for its worker two milliseconds at most, and its
  request lives on.
- **Missing events.** A guarded page may be in front before its tree can be read, and have no event
  left.

## 2. Modules

| Module | Models | Extends |
|---|---|---|
| `ProxyCustody` | abstract: what may happen to the user's settings and the snapshot | |
| `ProxySupervisor` | the daemon's supervision; implements `CustodySpec` | `ProxyCustody` |
| `Agent`; `TextWalk`; `MCAgent` | the render loop, its scanners and effects; the walk of the accessibility tree; the instance | |
| `TamperWatch` | the poll of permissions, accounts and start time | |
| `Protection` | protection mode and custom app list | |
| `ScreenGuard` | the accessibility service, its overlay and its settings guard | |
| `NetworkGuard` | the VPN service and its threads | |
| `TamperLog` | the log, its writers, and the status service | |
| `ScreenCapture`, `MCScreenCapture` | the capture service, its sessions and the frame gate | |
| `DnsCheck` | one look-up of one domain by one resolver, as operators | |
| `Sweep` | `run_sweep_streaming`, its cache and the pruning rule | `DnsCheck` |
| `PublishedBuild` | abstract: what a reader of the output directory may find | |
| `Publication` | the slots file by file; implements `PublishedBuild` | |
| `Fetch` | the fetchers, and the licences of what they fetch | |
| `Build` | a pipeline run over `PublishedBuild` | `Fetch`, `PublishedBuild` |
| `MCDomainBlocklist` | the instance of the three stages | `Sweep`, `Publication`, `Build` |
| `MCScreenGuard` | the instance of the guard and the mode | `ScreenGuard`, `Protection` |
| `Lookup` | `BlocklistLookup`, its worker thread and its LRU cache | |
| `Datagram` | packets and DNS messages by what the parsers tell apart | |
| `DnsShield`, `MCDnsShield` | the decision on one packet, over `Lookup`, with `set_keywords` | `Lookup`, `Datagram` |
| `PacketFilter` | the filter of whole packets | `DnsShield` |
| `*_proofs` | theorems (section 5) | the one or two modules they are about, TLAPS |

In each module an operator preceded by a comment "Seeded fault" is a wrong version of a definition
that follows it. No specification uses it. It shows that a property depends on the code: with the
body replaced by the fault, TLC reports the property violated under the run's own constants.

`MCDomainBlocklist` and `MCScreenGuard` hold several modules in one run, and `part` says which of
them a behaviour is one of; the variables of the others rest in their initial state. This is a way
of running them together, and no composition. The modules of a run share no variable: `Build` stands
on the abstract `PublishedBuild` that `Publication` implements, and what a sweep prunes is a choice
among the dead names; `ScreenGuard` takes every change of the mode for possible. What they owe each
other is stated there, and the product of their states is out of reach.

### ProxySupervisor and ProxyCustody

A *field* is one thing a network service holds that apply and restore write with one `networksetup`
command: web proxy, secure web proxy, bypass list. `settings` is what the system holds, `snapshot`
the file, `original` what the user last chose. A value `ours` is the daemon's own listener.

`dispatch(event)` hands an event to the pure machine and executes the actions it returns, and every
action may produce the next event, so the model keeps the event in hand (`event`) and the rest of
the plan (`todo`). `Dispatch` is `handle` with all its cases; each `Exec...` action executes the
plan's head. Apply and restore are split at every `networksetup` call (`ExecApply`, `ApplyField`,
`ApplyDone`; `ExecRestore`, `RestoreField`, `RestoreDone`), because the daemon can be killed, or the
command fail, between any two: `Crash` and `Throw` are enabled everywhere they can happen. `phase`
is the position of `runSupervisor` (in `start`, in the watch loop, in `checkLiveness`, in `stop`),
or the verb `proxy-restore`.

The child binds its port, exits, or never comes up; the orphan of a killed daemon can keep the port,
and then the probe answers yes for a child that cannot bind. `networksetup -listallnetworkservices`
is not checked for success, so a snapshot may come out empty.

`ProxyCustody` says what any such program owes: change a field only while the snapshot is faithful,
replace the snapshot or drop it only when the settings are the user's.

Abstracted: back-off delays, formats of `networksetup`, the number of services (fields of several
services are just more fields). `Restored` keeps one loss the code has on purpose: a disabled or
empty proxy comes back blank.

### Protection

A stored time is a *stamp*: `at`, the `elapsedRealtime` the code stores, and `on`, the real time it
was stored, which the code cannot see and the properties are about. A confirmed disarm also
remembers when its request was made. `EvaluateMode` is the schedule's function; `Refresh` is the main
screen, which binds its button to the phase it draws, so the operations (`Arm`, `RequestDisarm`,
`ConfirmDisarm`, `CancelDisarm`) are taken from a screen that may be old. The store evaluates again
where the code does (`ConfirmDisarm`) and not where it does not.

`prefs` is the map every reader sees, `disk` the file `apply()` writes later (`Flush`);
`ProcessRestart` and `PhoneReboot` go back to the file. `ClearData` deletes both stores. The custom
app list is a file replaced atomically; an operation reads it, which prunes and may write, and then
writes, and both writes may fail (`Rewrite`).

### Agent and TextWalk

One tick of the timer is a unit of time. `ScanTick` is the whole tick: debounce, which scanners are
due, the worst verdict, the overlay's reconciliation and the suppressor. An age counts ticks and
stops once every comparison with it is decided. A classification runs on a queue of its own
(`inFlight`) and ends between any two ticks (`Finish`), with whatever is in front by then. The text
scanner repeats its last verdict within its interval. What a policy makes of a window is a choice of
the environment, which also switches applications, connects displays, revokes the grant and refuses
to hide.

`TextWalk` is `AccessibilityText.extract`: a stack, a depth bound, a bound on the nodes, a set of
visited nodes and a budget of time that ends every read from some point on. `MCAgent` has
assumptions TLC evaluates over all 2197 shapes of three nodes with up to two children each, cycles
and shared nodes included: without bounds every reachable node is read once; a walk that names no
bound has read everything (`BoundsAreTold`); the node bound and the budget leave a beginning of the
whole text; a tree is read in reading order.

### TamperWatch

A poll runs four tools and asks for three permissions one after another, while the machine changes;
any may fail, and then nothing is kept. `told` is a history: what somebody knows who saw the first
reading and every event since. The module has theorems and no run.

### ScreenGuard

All handlers run on the main thread. What interleaves are events (`owed` windows still to be told
of), the bounded re-look, the posted re-check of the custom apps, list changes and the user.
`Event`, `Look` and `EnforceTask` are whole handlers with every window, back-out and overlay change
in them; the window manager and the global actions may refuse. A back-out is fresh, recent or old,
which is all the code compares.

### NetworkGuard

Handlers run on the main thread, `onRevoke` on a binder thread, packets on a reader, queries on a
pool. Each thread has a position, and a step is what runs between two accesses to the unlocked
fields. A *session* is what `establish()` sets up. The fields belong to the service object: a second
object finds them null while threads of the first go on. Native calls fail or throw, intents wait in
a queue, a process dies and a device restarts.

### TamperLog

A line of the file is what a reader makes of it; a line without its newline swallows the next one.
An entry that is read is named by its place in the file, so that `Recent` is a set of places.
`Record` is `record()` with load, coalescing, append, trim and the trim's own note. `Kill` may cut
an append of the capture or of a connect within the line or before its newline, or the trim between
its rename and its note. Connect is two actions, for a kill may fall between its two entries. The
status service is `Check`, `StartCommand` and those who ask for it (`Connected`, `Open`, `SetMode`);
the mode also changes with nobody told (`WindowEnds`; that a window may come round again after a
reboot, section 4, is left out here). `fate`, `kept`, `tried` and `attempt` are
histories. Failures of `appendText` other than a kill are left out.

### ScreenCapture

`begin` and `teardown` are taken apart wherever the other thread can come in between. Each session
has a thread, on which its frames arrive and on which it hears that its projection was stopped. A
plane is a sequence of lumas with a row stride; `Reduce` and `HammingDistance` are computed, so that
the gate really compares hashes.

### DnsCheck and Sweep

`DnsCheck` has no state: `HonestVerdicts(zone)` is what the code may conclude when a resolver
reports a zone as it is, with truncated, lost and mismatched datagrams, TCP behind them, CNAME
chains to the bound, RCODEs and Extended DNS Errors, and both address families.

In `Sweep` domains are numbered in the order of the corpus. `ReadEntry` and `BatchRead` fill a
batch, `CheckDomain` looks one domain of it up with both resolvers and stores the entry;
`CanaryPrimary` and `CanarySecondary` look every control up and pass on the expected verdicts only;
`Flush` is one write transaction, `Prune` the second pass over the corpus. `pending` is the buffer
of the `CacheStore`, or the copy in memory of a dry run.

A hijacked resolver answers anything, from any moment on until the sweep has ended, but it makes the
same of all the controls of one canary: it cannot tell them from other names. That it is caught then
is a lemma (`CanaryCatches`). A crooked one lies about swept names only, which no canary can see;
the two resolvers are not both crooked. Domains are registered and dropped while they are looked up,
so even an honest Dead may be out of date. Entries carry ghosts: who was hijacked when it was read
(`by`), whether its run of Dead reads only ever found the domain unregistered (`down`), and the
length of that run up to two (`reads`). `lastDead` remembers the latest answer about a domain even
if the sweep lost it.

### Fetch and Build

A document is a set of lines, a revision names its content. `Fetch` gives, for a pinned document and
a set of contents it may have had while the requests went out, the outcomes of each fetcher: the
requests fail one by one, are retried, and the source moves between them. The licence of a build is
worked out from what the documents were reviewed with.

`Build` is `run()`: `FetchAndMerge` (any failed fetch ends the run), the scope of each entry from
its hints, the public suffixes and the denylist, `--sample`, the sweep's pruning as any set of dead
names, the previous build as far as its slot can be read, every gate with its arithmetic, and the
publication as the abstract `PublishedBuild` allows it, interrupted or not. `Blocks` is net-shield's
lookup in the result.

### Publication

One action per call that changes the tree: remove `previous.tmp/`, move the artifact, move the
manifest, remove `previous/`, rename, write the artifact, write the manifest. A file is the number
of the build it belongs to; a manifest also has the version. `LoadPrevious` has its three outcomes:
nothing there, a verified build, or an error that ends the run (`refused`). `Publish` is the passing
of all gates with the version rule and the rollback check, `Decline` every other end of `run`;
`PublicationDies` is the end of the process in between.

`Store` is `PublishedBuild` with `served` as the build the loader would take: a build appears with
the second file of `current/`, and a run that dies counts as failed. Nothing else may change what a
reader finds.

### Lookup

A caller goes through `lookup` by its position `pc`: it asks the cache (`Call`), attaches to the
in-flight table (`Attach`), and the first for a domain sends the request (`Send`), after it has let
go of the table's lock. If the queue is full it removes the entry again (`Undo`), with whoever
attached meanwhile. It takes its answer (`TakeReply`) or stops waiting at any moment (`Expire`,
`FallBack`). The worker is `Receive`, `Store`, `Drain`, `Answer`, `NextRequest`. A step is one
section under one mutex, or one operation on a channel, which is the grain at which threads
interleave.

A caller's own channel is `reply`; the senders are in `waiters` (the table) and `due` (taken by the
worker). A sender whose receiver is gone has no effect, so `Expire` drops it. `result` is what a
lookup came to in the last step, and whether it counted a fallback. `Fragile` domains may panic in
the artifact, and the panic is caught and read as no rule; the model keeps "Panicked" apart from
"NoRule" only for the property. `Put`, `Get`, `Touched` are the LRU cache with its two halves, a map
and an order.

Abstracted: the length of the budget (any wait may end), the value of the default action, the
counters of requests and panics, the death of the worker thread (its one cause, a panic, is caught;
a full queue takes the same path).

### DnsShield and PacketFilter

`DnsShield` composes `Lookup` with what calls it. `inspect` holds the read lock of the keywords from
its first look to its verdict (`Ask`, `Await`), `set_keywords` waits for it, and a waiting writer
keeps new readers out, as the lock of the standard library does on the platforms built for. A name
is the sequence of its labels, a rule covers the names it is a prefix of. `Refusal` is the reply the
code builds, and the property reads it with the code's own parser.

`PacketFilter` is `NetShield.process_packet`: an operator from a frame to what the sink is told,
with the server name of a TLS hello length by length. A frame says what would be read at every
offset that may be taken for a header, so offsets that are wrong stay visible.

## 3. Runs

| Run | Module, configuration | What it asks |
|---|---|---|
| `proxy` | `ProxySupervisor` | `NoStranding`: no traffic is sent to a dead port of ours. `StopRestores`. The refinement `CustodySpec`. Liveness: `DispatchTerminates`, `ServedOrOpen` |
| `proxy_crash` | `ProxySupervisor`, `ProxyCrash.cfg` | *violated:* `RouteBack` after a relaunch |
| `agent` | `MCAgent`, `Agent.cfg` | `CoverIsBacked`: a cover has a reason. Liveness: `TextIsCovered`, `CoverIsLifted`, `OffenderIsAsked` |
| `agent_flicker` | `Agent`, `AgentFlicker.cfg` | *violated:* `CoverStays` over text that stays blocked |
| `screen_guard` | `MCScreenGuard`, `ScreenGuard.cfg` | The mode: `FallsAreServed`, `OneCooldownOneWindow`, `RemovalServed`. The guard, liveness: `GuardedIsHandled`, `ListedIsCovered`, `CustomCoverGoes` |
| `screen_guard_refusal` | `ScreenGuard`, `ScreenGuardRefusal.cfg` | *violated:* `RefusalHeals` after a window that was refused |
| `protection_reboot` | `Protection` | *violated:* `RebootVoids` in the boot after a disarm |
| `network_guard` | `NetworkGuard` | `EndIsRecorded`, `OneReader`. Liveness: `ThreadsEnd`, `ArmedIsFiltered` |
| `tamper_log` | `TamperLog` | `AttemptsCounted`, `NoFalseAlarm`, `KillIsNoticed`, `KillIsOnRecord`, `ModeIsWatched` |
| `screen_capture` | `MCScreenCapture` | `EndsWithService`, `DriftIsSeen`. Liveness: `DisarmReleases` |
| `domain_blocklist` | `MCDomainBlocklist`, `DomainBlocklist.cfg` | The sweep: `DiskTrusted`, `PrunesTheDown`, `PrunesConfirmed`, `PrunesOnLatestRead`. The slots: `FallbackKept`, the refinement `ImplementsStore`. The pipeline: `ControlIsSafe`, `SourcesAreHonoured`, `LossIsBounded` |
| `lookup` | `MCDnsShield`, `DnsShield.cfg` | `OneRequest`, `PolicyDecides`. Liveness: `EntriesDrain`, `SlowAnswersKept` |

Every property of a passing run has a seeded fault that breaks it. A module's `TypeOK` is a theorem
where the module has proofs. In the other modules no run of the table lists it; TLC finds it to hold
when it replaces the properties of the module's `.cfg`, with the constants as they are.

Three modules have operators without state, checked by assumptions that TLC evaluates before a run:

- `MCAgent`: the text walk (see above).
- `MCDnsShield`: `LongestRuleDecides` (the `IpFilter` is the longest rule on an address, whatever
  the order of the rules), `NamesAreRead` (a server name is found wherever its extension is and
  never read beyond the buffer, with each length off by one), `SegmentsAreRouted`,
  `Ipv6NamesAreMissed`.
- `MCDomainBlocklist`: `OutputLicenceCovers` (the licence a build inherits is no more permissive
  than that of any document).

### Bounds

- `proxy`: three fields, the third a bypass list (which has values of its own and is restored
  differently), give every prefix of an interrupted apply or restore; two restart attempts give a
  first restart, a repeated one and the giving up. 354,000 states.
- `agent`: two applications, of which one is protected from hiding, one screen that comes and goes,
  intervals of two ticks and one of two to three, so that every order of due and not due occurs, a
  cooldown of two. 286,000 states.
- `screen_guard`, the mode (and `protection_reboot`): a cooldown of 3, a ready window of 1 and a
  disarm window of 2, in 12 units of time: two full cycles, or one with a reboot in any unit of it,
  after which the uptime can pass the stored stamps. Two apps, one of which can never be added. A
  reboot takes one unit.
- `screen_guard`, the guard: a settings package and a listable app, each in either of two windows,
  one guarded surface, one text the policy warns of, one back-out before the cover, and two looks
  per event: the last look of a series is not the first.
- `network_guard`: two sessions that leave threads behind, so that a third is started while they end
  (numbers are used again), and a queue of two intents: a start behind a stop.
- `tamper_log`: the log is trimmed from four lines to two, the tail is three, so that the tail, the
  trim and the coalescing window meet; a clock to 2 has a reboot to below, at and above any stamp.
  5.1 million states.
- `screen_capture`: two consents, since one that comes while another session starts is the case to
  be seen, an inbox of two, planes of 4 by 2 in rows of 5 on a grid of 3 by 1, with a threshold of 2
  bits, so that two steps of drift make a change. One service object is modelled, from its first
  command to its end. `DriftIsSeen` is about the first session: a second one may reset the gate
  while a frame of the first is in it. The run may stop: a service that is gone stays gone.
- `domain_blocklist`, the sweep: two domains, batches of one, so that a batch follows a batch, a
  flush follows each, and a hijack falls before, in and after either. A time to live of 1 and a
  quarantine of 2 are the smallest that `Cli.validate` allows above zero; start times to 3 leave
  room for a first read, a re-read at the end of the time to live, and pruning. The primary is
  crooked, the rows of one domain may be unreadable.
- `domain_blocklist`, the slots: five builds, four versions, three interrupted runs: every slot gets
  a third generation, and two interruptions can meet in one rotation. 40,000 states.
- `domain_blocklist`, the pipeline: a public suffix, a popular site under it with a host of its own,
  a popular site elsewhere; three documents of two projects; two builds, so that the second is
  compared with the first, one of which may die while it publishes; limits of a quarter and a half,
  at which one name of four matters. 1.7 million states.
- `lookup`: two callers, since one that timed out may ask again while its first request is still
  under way, so more domains can be in progress than there are callers. A queue of one and a cache
  of one are full at once. A tenant of a private suffix, a name only a keyword blocks, one the
  allowlist and one a rule exempts from it. 97,000 states.

### Fairness

- `ProxySupervisor`: `WF_vars(DaemonStep)`. `dispatch` is one synchronous recursion, and each step
  of it returns: `networksetup` ends, a probe of a loopback port ends, a back-off sleeps a bounded
  time, `terminate` waits for a child that was sent SIGTERM. Nothing is assumed of the child,
  launchd, the user, signals, crashes or errors.
- `Lookup` and `DnsShield`: the worker, every waiting caller and the waiting writer are weakly fair:
  `recv` returns when there is a request, a mutex is held for a few statements, `try_send` does not
  block, `recv_timeout` returns after the budget. Nobody has to call, and no wait has to end by an
  answer.
- `Agent`: the repeating timer fires (`ScanTick`), a classification ends (`Finish`).
- `ScreenGuard`: Android delivers the events that are owed and runs posted tasks and re-looks, a
  back-out ages, a window gets drawn. The user owes nothing, which is why `GuardedIsHandled` excepts
  one who turns pages for ever.
- `NetworkGuard`: each thread takes its next step and the arming window closes; `Establish`, which a
  busy main thread can disable again and again, is strongly fair. `ArmedIsFiltered` is for a user
  who comes back to the app again and again.
- `ScreenCapture`: the main thread and each session's thread run; `OnStop` is strongly fair, since
  frames can keep the thread busy in between.

The other modules state no fairness: a sweep, a publication or a build may stop at any point for
good, and the log promises nothing about when it is written.

## 4. What the violated runs and the models found

Four runs contradict a sentence of the repository; `PROJECT.json` quotes both sides.

`proxy_crash`: launchd keeps the daemon alive. A daemon killed while traffic is routed is started
again, and `apply` snapshots what it finds: its own listener. The only copy of the user's settings is
overwritten, and the next clean stop "restores" the proxy of a dead port. Everything proved about the
supervisor assumes `~CrashRelaunch`: the settings were put back (by the verb `proxy-restore`) before
the daemon runs again.

`protection_reboot`: a disarm stamp of an earlier boot counts as spent only while it lies in the
future (`ProtectionSchedule.kt:125`, against 74-79 and 121-124). Once the uptime of the new boot
reaches it, the guard opens for up to a whole window, with no new request and no cooldown.
`FallsAreServed` therefore names all the ways in which a guard that is up comes down, this one among
them: by a confirmation, with the data of the app, with a process that dies before its last writes
are on disk, at a boot if the mode was off there, and at the old stamp. Whenever a disarm is in
force, its request waited a whole cooldown once (`CooldownServed`, proved); the guard is also off in
`OFF`, which a lost `arm()` or cleared data leads to and of which `CooldownServed` says nothing.
`OneCooldownOneWindow` is about one boot.

`agent_flicker`: the verdict of the loop is that of the last tick with a scan (`ScanLoop.swift:229`,
against `AccessibilityScanner.swift:186-189`). The cover is up over blocked text, a frame allows,
the next tick asks the image scanner alone, and the cover goes, to come back at the next text scan.
`TextIsCovered` is what holds of it: the cover comes up, and it stays up for good where from some
time on the text is blocked, no frame allows and the displays rest.

`screen_guard_refusal`: `show` takes the old window down before it adds the new one, and a refusal
leaves `shownState` as it was (`OverlayController.kt:49`, against 59-63). A warning that is refused
while a cover is up leaves no window and `COVER` on record, and the cover of a listed app is from
then on taken for shown: `apply` returns early until another state has been applied.
`ListedIsCovered` excepts a controller in that state (`Drifted`), and no other.

The models show more behaviours a reader of the code may not expect. The properties are stated so
that they hold with them.

Protection, sweep and publication:
- With its data cleared the mode is off, not armed.
- Checkpoints written before a canary fails stay on disk. They hold only batches that a passing
  canary followed, so `DiskTrusted` holds: the comment promises more than the code does, and pruning
  does not need it.
- A publisher that dies between rotation and writing leaves `current/` empty; the next run takes
  itself for the first: no shrinkage gate, no growth gate, version 1 (theorem `StalenessBounded`
  says what still holds). One that dies between the two files of `current/` leaves a slot every
  later run refuses until someone clears it.
- Nothing locks the output directory: two publishers at once (`slots.rs:116`) are outside the model.

Mac agent:
- The text walk does not tell that its budget was spent, though its type promises the reason it
  stopped (`AccessibilityText.swift:60-65`); and a node may be missed that is no deeper than the
  bound, if a longer way led to the node above it first (`WhatIsNotTold`).
- `rebooted` can not stand for a restart of the machine: the last reading is in memory only and the
  first poll reports nothing. It is told only when the clock is set by more than five seconds.
  `docs/components/mac-daemon/modules/07-permission-gate.md:77,81,146-149` says otherwise. What
  changes while the agent is down is never told.

Phone:
- A back action discharges what the settings guard owes when it is attempted; `GuardedIsHandled` does
  not ask what became of it.
- Of a session of the network guard `ThreadsEnd` looks at the threads, not at a native engine or a
  callback left behind; ends are a set, so one recorded twice looks like one.
- A trim whose note a kill took is not told apart from one with a note: `KillIsNoticed` asks for the
  killed session only, and `NoFalseAlarm` excepts a reboot whose uptime has passed the session's.
- `ScanGate.kt:18` lets one screen be scanned twice when its event and its re-look meet.
- `isRunning` of the capture can stay set after the service is gone, against "every path that
  refuses or ends a session clears it", and one end may be recorded twice; a `begin` that fails
  records an end without a start. A second start that is refused while a session runs clears the
  flag, and a disarm then leaves the capture to its next check.
- `FrameGate` is reset on the main thread while a frame may be in it: the frame is compared with an
  emptied plane.
- In the log, the first entry after a line that a kill cut short is lost with it. After a kill that
  is the event, which is why the connect behind it says the same in its detail (`KillIsOnRecord`).

net-shield:
- The "no rule" of a caught panic is cached like any answer and served until it is evicted.
- A caller preempted between cache and table for as long as a whole request of its domain issues a
  second one.
- `read_name` accepts wire names of 256 bytes.
- `process_packet` looks for the name of an IPv6 segment at an offset taken from the traffic class
  (`lib.rs:78`), so the rules on names do not see it (`Ipv6NamesAreMissed`). An HTTPS segment that
  ends before its data offset is indexed past its end (`lib.rs:79`). A rule of length 0 covers the
  addresses of both families (`radix.rs:155`). A server name may run past its own extension, and it
  is not normalised before it is looked up.

## 5. Proofs

| Module | About | Theorems | Assumptions |
|---|---|---|---|
| `ProxySupervisor_proofs` | `ProxySupervisor` | `TypeCorrect`, `Recoverability`, `CustodyRefinement`, `NeverStranded`, `EndsPutBack` | all but the first under `~CrashRelaunch` |
| `Agent_proofs` | `Agent` | `AgentTypeCorrect`, `CoverAlwaysBacked` | positive intervals |
| | `TamperWatch` | `LogAlwaysTells`, `LevelAlwaysTold`, `NoRestartIsTold` | none |
| `Protection_proofs` | `Protection` | `TypeCorrect`, `CooldownAlwaysServed`, `FallsServed`, `OneWindow`, `BootsGuarded`, `RemovalsServed` | positive periods |
| `TamperLog_proofs` | `TamperLog` | `LogTypeCorrect`, `AttemptsAlwaysCounted`, `NoAlarmIsFalse`, `KillAlwaysNoticed`, `KillAlwaysOnRecord`, `ModeAlwaysWatched` | a coalescing period above zero |
| | `ScreenCapture` | `CaptureTypeCorrect`, `CaptureEndsWithService`, `DriftAlwaysSeen` | a grid of at least one cell |
| `NetworkGuard_proofs` | `NetworkGuard` | `TypeCorrect`, `EveryEndIsRecorded`, `OneReaderEach` | none |
| | `Build`, `Fetch` | `BuildTypeCorrect`, `ControlAlwaysSafe`, `SourcesAlwaysHonoured`, `LossAlwaysBounded` | the control set ranks registrable domains |
| `Sweep_proofs` | `DnsCheck` | `HonestIsTrue` | none |
| | `Sweep` | `TypeCorrect`, `OnlyTrustedOnDisk`, `PrunedAreDown`, `PrunedAreConfirmed`, `PrunedOnLatestRead` | `Quarantine >= 2 * Ttl` (`Cli.validate`), controls on both sides (`CanaryConfig.new`), resolvers not both crooked |
| `Publication_proofs` | `Publication` | `TypeCorrect`, `PreviousNeverMixed`, `LastBuildSurvives`, `StalenessBounded`, `FallbackGuaranteed`, `VersionsAlwaysGrow`, `PublicationImplementsStore` | none |
| `DnsShield_proofs` | `Lookup` | `TypeCorrect`, `EntriesHaveOneRequest`, `AnswersAlwaysTrue`, `CacheAlwaysAgrees` | a queue and a cache of at least one |
| | `DnsShield` | `ShieldImplementsLookup`, `ShieldHasOneRequest`, `VerdictIsPolicy` | the same; `Listed` is what the artifact lists |

The constants' other assumptions are typing (`ASSUME` in each module). Theorems whose property no
run checks (`CooldownAlwaysServed`, `BootsGuarded`, `AnswersAlwaysTrue`, those of `TamperWatch` and
the rest without a "property" in `PROJECT.json`) stand on the proof alone. Where two components
share a module of proofs or a run, they name their definitions after themselves (`WatchSpec`,
`LogSpec`, `SweepSpec`), so that all can be extended. TLC finds the inductive invariants below to
hold with the constants of their components' runs.

**ProxySupervisor.** `Recoverable` is not inductive: whether the next write of a field is safe
depends on the plan in hand. `Control` ties the executor's position to the machine's flag: a plan
that restores is in hand only with `hasConfigured`, an `apply` only without. `Custody` says what is
known of the settings at each such position, for instance that a faithful snapshot, or an empty one
with nothing changed, exists from the snapshot to the last restored field (`Backed`), and that a
restore has put back every field below `next`. The refinement is then a case per action that changes
settings, snapshot or the user's choice; `TypeCorrect` needs no assumption.

**Protection.** `Stamped` relates the two clocks: `now = bootedOn + uptime`; a stamp of this boot
has `on = bootedOn + at`, any other is from before the boot. A matured uptime then means a served
cooldown (`MaturedIsServed`): for a stamp of this boot by arithmetic, for an older one because it is
older still. The same is carried for the map in memory, for the file, and for removals.
`FallsServed` goes through the actions: those that only write can raise the guard but not lower it
(`GuardUp`), and where time alone lowers it, a window has opened, which is none of this boot
(`WindowsOfThisBootStayShut`).

**Agent.** `CoverIsBacked` is not inductive: a verdict may stand on screen whose scanner has come to
say something else, and what stands behind it then is the next image scan. `ScansAreDue` says that a
classification under way was begun by an image scan, and that from the first frame on none is
overdue. `WorstIsOne` makes the worst verdict of a tick one of those it was taken from.

**TamperLog.** `AttemptsCounted` needs to know what memory and file have to do with each other.
While the guard is on, the process has loaded the log (`OnIsLoaded`), and the last attempt on record
is the newest entry in memory, if that is an attempt at all (`LastIsCounted`); so one that is folded
is folded into an entry of this process, and the window is counted from that. `ConnectIsClean` says
that nothing can cut the last line short between the event of a found-out kill and the connect
behind it; with what trimming keeps (`LastLinesEnd`) the connect or the event is among the last two
lines. `ModeIsWatched` needs no invariant: each action that could end the watching asks for it again
or is a kill.

`NoFalseAlarm` and `KillIsNoticed` compare what really happened (`fate`) with what the file says, so
the invariant between them (`FateInv`) says what the file tells in each case: no boundary before the
first session, a last boundary "off" after an orderly end, and "on", with no line since that is later
than now, while a session runs whose "on" is a line of its own, and after its kill. It rests on three
small facts: the line cut short is the last one and unreadable already, so what runs into it changes
nothing (`TornIsLast`); while the guard is on the file ends in a newline, so its "off" can be read
(`OnIsClean`); and the capture's time was read before now (`StampIsPast`). A trim takes lines at the
front only, which changes nothing that is told (`TellsStill`), and the boundary among the lines a
connect looks at is the last one of the file (`BoundaryIsLast`).

**ScreenCapture.** `EndsWithService` says something only of a service that is gone, so the
invariant has to follow every session until then. `Control` keeps the commands in order: each
consent asks once for its session, no start waits behind a stop, and once a command to end the
service is ahead of all starts (`Finished`) it stays so. `Lives` says that a session is untouched
until its start is taken, and hears of its end at most once. `Handover` follows the projection: a
teardown clears what it read, or what another thread has cleared, and that only when the service is
to end; a session that will hear of its end has its own projection to release; a live projection is
in the field or in some hand. `EveryStartEnds` is the count of it: starts on record, with the one
being begun, are no more than ends, with the teardowns under way and the projection nobody has
claimed. `DriftIsSeen` needs that of one session the gate's baseline is what the sink took last, or
is about to take, or is forgotten (`Alone`).

`Consent` has an assumption these proofs depend on: no stop the activity has sent is still waiting
when a person answers the dialog. Without it TLC finds, with three consents and three commands, the
main thread and a session's thread both in `teardown`, the later `projection = null` of which drops
the projection of a session begun in between: it stays live. "At most once" (`teardown`'s comment)
is not what the count says either: two threads may record one end, so ends are counted from below.

**NetworkGuard.** What two threads may do to one session without a lock is bounded by the grant:
`onRevoke` takes it away first, nothing is established without it, and it does not come back while
the binder thread is in `teardown` or a reader has not made its first step. `Hands` and
`TakesItsOwn` say whose session each thread has in hand and that nobody has put another in the
field; `FindsItsOwn`, that a reader which has not looked up its descriptor will find its own or
none. `OneReader` follows from `ReadsItsOwn`.

**Build.** `InTheMaking` says what the list in hand is at each place: what merging the pinned
documents gave, but for what was pruned or cut. That the documents are the pinned ones is
`FetchedIsPinned`, over every retry: a request comes back with one of its replies
(`RequestedIsReply`, from the fact that a set of places has a first one) and the accepted revision
names the content. `Gated` carries the gates' verdict to the end of the publication, and `Whole`,
`Reviews` and `Compared` from there to all completed builds. `ControlIsSafe` then rests on
`MergedEntry` (only a wildcard on a registrable domain is an `Apex`, so no control domain is blocked
but by its own entry), `LossIsBounded` on `GatesBoundLoss`: what is lost is what the list is shorter
by, plus what is new in it.

**DnsCheck and Sweep.** `DenialIsTrue` and `ArrivalIsTrue` say of the two ends of a chain what an
honest answer can mean; `HonestIsTrue` puts the two families together, for zones of any names and
any bound. `CanaryCatches`: whoever makes the same of every control fails one of the two lists. The
sweep's invariant follows a verdict from the look-up to the file. What is pending names only
resolvers hijacked now; the passing canary of the primary clears it from every entry, the
secondary's canary clears the rest; flush happens only where all are clear (`Cleared`). `Shaped`
relates the fields of an entry (a run of Dead reads has a first time, one read spans no time), so a
quarantine above zero needs a second read. `Settled` says every entry the loop has passed was read
in this sweep or not due: with `Quarantine >= 2 * Ttl` an entry that may be pruned is due, so its
last read is this sweep's. `LatestInv` does the same for look-ups that were lost.

**Publication.** `Control` says, place by place, which file is where; `Newest` that a whole
`current/` is the last build; `Stale` counts builds against crashes; `Calm` is the case of no crash;
`Grows` the order of versions. The refinement is a case per step: only the manifest's write
completes a build, and every interruption counts as a failed run.

**Lookup.** `Attached` says who waits for what: a sender in the table belongs to a caller that wants
that domain and has not been answered, one the worker has taken to a caller waiting for the domain
in hand. With it `OneRequest` is inductive: the entry a caller removes in `Undo` is its own, and
what the worker drains has no caller that is still sending. `Truthful` carries "a true decision of
this domain" from the worker through cache and channel to `AnswersTrue`. `CacheAgrees` rests on
lemmas about `Touched`, `Tail` and `Append`, and on a bijection between places of the order and
keys: the code compares the size of the map and evicts from the order.

**DnsShield.** A step of the shield is one of `Lookup` or leaves its variables alone
(`StepIsLookup`), so the lookup's invariant and theorems carry over. `VerdictIsPolicy` rests on what
the rules do (`RuleForIsLongest`: the last component found is the longest rule, from the fact that a
non-empty finite set of lengths has a greatest; `PolicyIsResolved`), on what the reply is
(`RefusalRefuses`) and on what a caller holds while it waits: the read lock, so that the keywords it
began with are those in force when it answers (`AskKeeps`, `AwaitKeeps`).

**TamperWatch.** What has been told plus what the poll is still collecting is the last reading; a
reading holds values the machine had at some moment of the poll, tool by tool. `EventsAddUp` says
that the differences of two readings lead from one to the other.

**Model-checked only.**

- All liveness: it is under fairness, which is out of the provers' reach.
- `RouteBack`, `RebootVoids`, `CoverStays` and `RefusalHeals`, which do not hold (section 4).
- `ScreenGuard`: its properties are all liveness. `TextWalk`'s and `MCDomainBlocklist`'s
  assumptions, which
  TLC evaluates, are about recursive operators or about the instance.

## 6. What the models leave out

- **Power loss.** Only processes die; a write that returned is on disk. `atomic_write` does not
  sync, and a torn file would fail the loader's digest check.
- **Two publishers, two sweeps, two daemons at once.** launchd and the scheduled job run one;
  nothing in the code locks.
- **A hijack that heals inside a sweep**, between a batch and its canary. The canary cannot see it,
  and the code does not say it can. **A clock set back between sweeps** only postpones pruning.
- **What pixels and words mean**: text-policy, image-sandbox and the matching of settings screens by
  their labels are choices of the environment.
- **Errors of the log's file system** other than a kill; back-off and retry delays; formats of
  `networksetup`; the notification texts.
- **mitm-proxy** relays one connection at a time with nothing shared but a certificate cache;
  `domain-normalize` is string normalisation, of which `scope.rs` is in `Build`; the FFI crates
  forward.
- **DaemonIPC** is a codec of one request and one reply, and nothing in the daemon calls it.
  Installation and trust are sequences of commands without state. The Wintun device of the packet
  engine and the sinks of win-network are stubs. Desktop, training and tools are shells or tooling.
- `run_sweep_with_resolvers` (tests only), `proxy-apply` (no supervisor), the reports of what was
  pruned, the provenance table, the onboarding prompts and the development kill switch.

`PROJECT.json` has the reason for each part, component by component.

## 7. Plan

1. `TextWalk` as a recursive function, and its bounds as theorems.
2. `Build`: three builds, and the conditional requests of the fetchers.
3. `PermissionGate` with the agent: what a lost grant does to the loop between two polls.
4. win-network's routing and rollback, once its sinks are more than stubs.
