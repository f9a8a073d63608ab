# Verification of signalk-doctor-server

TLA+ models of the doctor engine, the TLC configurations that check them on
small instances, and theorems about them that TLAPS checks for every value of
the constants. Paths below are relative to the repository; line numbers are
those of the sources the models were written from.

* [The system](#the-system)
* [Modules and how they correspond to the code](#modules-and-how-they-correspond-to-the-code)
* [What the runs check](#what-the-runs-check)
* [Bounds](#bounds)
* [Fairness](#fairness)
* [What is proved](#what-is-proved)
* [Where the code and its comments part](#where-the-code-and-its-comments-part)
* [Remarks](#remarks)
* [What is only model-checked, and what is not modelled](#what-is-only-model-checked-and-what-is-not-modelled)
* [Plan](#plan)
* [Running it](#running-it)

## The system

The doctor is a Node server in a container of its own, beside the
`signalk-server` container and beside a second engine, `signalk-updater-server`,
which lives in another repository. It diagnoses (read-only probes) and it
recovers: it restores last-known-good Quadlet files, restarts units, updates
plugin dependencies in the data dir of `signalk-server`, refreshes the host's
installer scripts, and has the host collect a bug report. The two engines share
the host and promise one another to be the only writer while they hold one lock
file (requirement CC-5 of the repository).

### Components

| Component | State | Operations | Interacts with | What is hard |
|---|---|---|---|---|
| **Operation lock** `mutex.ts` | the file `operation.lock`; per acquisition a one-shot flag and a nonce | `acquireMutex` (open `wx`, write, fsync, close), `release` (read, compare, unlink), `withMutex`, `readLock`, `forceClear` | every mutating route, the heal job, the boot prune; the updater uses the same file by existence, without a nonce | acquisition and release are several system calls each; the file outlives its engine; the operator may remove it at any time |
| **Data-dir heal** `routes/drift.ts`, `drift/heal-jobs.ts`, `drift/heal.ts`, `podman/exec.ts` | job registry (a map of at most `MAX_JOBS`), the operation lock, an exec in another container | `POST /api/drift/heal`, `startHealJob`, `finalize`, `runDataDirHeal`, `execInContainer`, `waitForExit` | lock, runtime API, drift scheduler and report | npm is not the doctor's child: it survives the timeout, a broken stream and the doctor's death; the lock must survive with it |
| **Drift scan** `drift/scheduler.ts`, `scanner.ts`, `store.ts`, `installed-packages.ts`, `npm-registry.ts` | the scan in flight, timer, back-off; the report on disk | `refreshNow`, timer, `runDriftScan`, `saveDriftReport`, `loadDriftReport` | runtime API, npm registry, heal | coalesced callers; a dozen awaits during which image, data dir and registry change; every call can fail and the report must not lose what it knew |
| **Heal outcomes** `drift/heal.ts` | targets and verdicts of one heal | `selectHealTargets`, rescan, `outcomeFor` | drift report before and after | judged by a report that may be stale, joined or unread |
| **Recovery and restart** `recovery/restore.ts`, `routes/recover.ts`, `routes/restart.ts`, `dbus/systemd-user.ts` | Quadlet files, what systemd has loaded, what units run | `recoverAll`, `recoverOne`, restart route, `daemonReload`, `restartUnit` | lock, systemd over busctl, updater | restart jobs are only queued and may kill the doctor or the updater; a timed-out call may have worked |
| **Bug report** `bug-report-jobs.ts`, `bug-report.ts`, `routes/bug-report.ts` | job registry, directory of tarballs | `startBugReportJob`, `generateBugReport`, `finalize` | the host's user systemd | the collector is a transient unit: killing its client or the doctor does not end it |
| **Log streams** `log-stream-broker.ts`, `routes/logs-stream.ts` | one broker per container: subscribers, stream, respawn timer, ring of recent lines | `subscribe`, `spawnIfNeeded`, `scheduleRespawn`, `fanOut`, `pushHistory` | runtime log streams, SSE clients | streams that fail while opening, while open, while a respawn is pending |
| **Installer refresh** `installer/refresh.ts`, `routes/installer.ts` | host scripts and Quadlet templates, temporary files, snapshots | `refreshInstaller`: per artifact fetch, compare, snapshot, write, rename, fsync | lock, GitHub Pages | partial failure between artifacts; errors outside the `try`; a temporary name that two refreshes share |
| **Image retention** `image-retention.ts`, `tagClassifier.ts` | the runtime's images | `pruneOldDoctorImages` at boot; `compareSemver` | lock, runtime API | list, inspect and remove are separate calls; the lock keeps the updater out, not the operator |
| **Host boot record** `host-boots.ts`, `pi-power.ts` | one JSON record and its copy in memory | `recordBoot`, `noteUnderVoltage`, `markCleanStopSync` | signals, two probes | stop, kill and power loss between reads and writes; writes that fail |
| **Probe runner** `probes/runner.ts`, `budget.ts`, `updater-health.ts`, `signalk-health.ts` | a timer per probe, a budget, the error to report | `runAllProbes`, `runWithTimeout`, `startProbeDeadline`, the two multi-hop probes | all probes | timers racing late answers, on a loop that may be held up; retries within a budget |
| **Runtime client** `podman/client.ts` | memoized runtime, detection in flight | `resolveRuntime` | everything that calls the runtime | a burst of callers whose continuations clear the promise |
| **Comparing probes** `probes/version-drift.ts`, `timezone-drift.ts`, `dependency-drift.ts`, `cgroup-delegation.ts`, `storage-type.ts`, `watchdog.ts`; `drift/classify.ts` | none | verdict from several sources | runner | sources that cannot be read must not count as well |
| **Web application** `useApi.ts`, `useLogStream.ts`, `api.ts`, `views/Drift.tsx`, `views/BugReport.tsx` | the page's state, requests under way | refresh, poll, lookup, heal, generate, upload, follow a log | the engine's routes, filebin.net | answers in another order than the requests, or never |
| Other probes, `explain.ts`, `ghcr.ts`, auth, session, server wiring, the other pages | none, or a read-only cache | – | – | reading and wording |

Concurrency here is of three kinds. Within the doctor every `await` is a point
where another handler, job or timer may run. Between the doctor and its
neighbours (updater, operator, systemd, the container runtime, npm, the host's
collector) everything interleaves at the granularity of a system call or an API
call. And the doctor dies at any moment, not least by its own hand: a recovery
restarts its unit.

### What makes each component correct

* *Lock*: at most one writer, through crashes, full disks, failing unlinks and
  deliberately retained locks; whatever an operation meets, it gives its lock
  back, unless the lock file itself fails it or its engine dies; what a force-clear of a lock in use can expose is limited by the nonce.
* *Heal*: npm never runs without its job's lock on disk; a running job is never
  forgotten by the registry; a POST is never refused because of the very heal
  it should be given; a job ends even if npm never does.
* *Drift*: a scan that could not read never empties a report it could load; an
  etag always belongs to the version beside it; the scheduler survives every
  failure.
* *Outcomes*: the operator is told the truth about the data dir.
* *Recovery*: `ok` means restored, loaded and restarted; nobody writes over it.
* *Bug report*: a job reports its own tarball; the directory stays in its cap;
  jobs end.
* *Logs*: one stream, always another one to come, no hole on the page.
* *Installer refresh*: no command on the host's PATH is ever half of one; what
  is replaced was copied away; the answer is true.
* *Image retention*: the image that runs and the last one to roll back to stay.
* *Boot record*: no clean restart is called unclean, no lost boot is lost from
  a record that says it was being kept by then, under-voltage is reported of the
  boot that had it.
* *Probes*: every request is answered; a probe with a budget speaks for itself
  and never blames an endpoint for a timeout of its own making; one detection
  of the runtime at a time; `ok` is only said where what was read agrees, and,
  but for `version-drift`, where everything was read.
* *Pages*: what is shown belongs to what was asked last, and an operation that
  changes the host has an outcome told.

The hazards behind these properties are listed, each at its line, in
`PROJECT.json` under `hazards`.

## Modules and how they correspond to the code

```
SingleWriter <-- implemented by -- OperationLock
OperationLock <-- Heal
              <-- Recovery
              <-- InstallerRefresh, ImageRetention <-- HostOperations
HostOperations <-- LockReturned <-- MCHostOperations
ArtifactStore <-- implemented by -- InstallerRefresh
DriftScan <-- DriftHeal
          <-- DriftHistory <-- MCDriftHistory
RecentReport <-- implemented by -- DriftHistory
ProbeRunner, RuntimeClient, HostBoots, Verdicts (<- Versions) <-- MCProbes
BugReport, LogView (<- LogBroker), WebConsole <-- MCConsole
```

An arrow is `EXTENDS`. `MC<Module>` instantiates a module for TLC;
`<Module>Proofs` (and `HostProofs`, `BootProofs`, `ProbeProofs`, `DriftProofs`,
`ConsoleProofs`) hold theorems; a proof module EXTENDS what it is about.

`PROJECT.json` maps every definition to its lines. The modules follow the same
conventions: a module's operations keep the names of the functions they
translate; an `await` that other code can run across ends an action; a comment
that begins with "A fault" marks a variant of the action after it that the
specification does not use, kept to show that a property would notice the bug.
Text, timestamps, HTTP details and logging are abstracted.

**SingleWriter** is the abstract promise of CC-5: a token that an acquisition
takes, mutates under, and frees when nobody mutates.

**OperationLock** (`mutex.ts`). `lock` is the file: the acquisition that created
it (a number that stands for the nonce of a doctor's lock) and whether its body
was written. `Create` is the `open(…, 'wx')`; `Write`/`WriteFails` the body and
fsync; `Finish` the one-shot flag of `release()`; `ReadOwn`/`ReadOther` its read
and ownership check; `Unlink`/`UnlinkFails` its unlink. `Retain` is what the
heal job does when npm may still be running. `UpdaterRelease` (external) unlinks
without looking, as the updater's older protocol does. `Crash` kills an engine's
operations but not the file and not what they started elsewhere (`lingering`).
`ForceClear` is `forceClear()`, which no route of this engine calls, or the
operator who removes the file; `ClearsLiveLock` says whether only locks that
nobody uses are cleared or any, and nobody has to clear one. `exposed` is a history variable: releases whose
file was removed between their read and their unlink.

**ArtifactStore** is the abstract promise of the installer refresh: a file
changes in one step, from what has been copied away (`Save`) to a body the pages
have served, and never to an older one (`Replace`). **RecentReport** is that of
the drift scan: a report says of each location of a package (the copy in the image,
the copy in the data dir) what was there at some moment since its scan began, each
at a moment of its own, and of the registry that or what the report before it said
(`SavesRead`); when nothing could be read it carries the packages over
(`SavesUnread`). What the report before it said is lost where that report could
not be loaded (`Bases`).

**Heal** (`routes/drift.ts`, `heal-jobs.ts`, `heal.ts`, `exec.ts`) extends
OperationLock with the handler (`Post`, `ReadLock`, `Refuse`, `Start`: the
await of `readLock()` separates two looks at the registry), the registry
(`Register` with its pruning, `Finalize`) and the job's promise chain:
acquisition, report, exec creation, start, stream, its timeout, `waitForExit`
after each of the three ways the stream can end, rescan, and the `finally` that
gives the lock back only when npm is known to have stopped (`JobReleases`,
`JobRetains`). `npm` is the process in the container. Other operations of the
doctor and the updater are those of OperationLock (`Elsewhere`).

**DriftScan**. The scheduler (`RefreshNow` with coalescing, `TimerFires`,
`ScanEnds` which resets or doubles the back-off and arms the timer) and the scan
as one action per await: `LoadReport`, `ReadTag`, `Probe`, for each package
`FirstLookup` and `SecondLookup`, `ReadsDone`, `FetchPackage` for each package,
`Save` or `SaveFailure`. `LoadReport` may find none although there is one
(`store.ts:145` and `163-165`: not readable, not JSON, of another shape). The two
locations of a package are looked up side by side (`installed-packages.ts:300-303`),
either of them first (`half`), and image, data dir and container may change in
between; a container that is gone answers 404, which the lookups read as a missing
path. `Save` may fail after its rename, with the new report on disk. A version
is a number, an etag is told by the version it was served with, and an image
copy by the image it was read from, because that is what the properties tell
apart. Image, data dir and registry change at any step, and the container goes
and comes back (`RemoveContainer`, `CreateContainer`).

**DriftHistory** extends DriftScan with what RecentReport remembers: the tags, what a
look into the data dir could have found, and the answers of the registry there have been since the scan
in flight began. The three history variables restrict no step.

**DriftHeal** extends DriftScan with a heal's view of the data dir: targets from
the report, npm moving one copy at a time within its dependents' ranges, the
rescan through `RefreshNow` (which may join a scan), `OutcomeFor`. `fresh` is a
history variable: the report to be judged comes from a scan begun after npm had
stopped.

**Recovery** extends OperationLock with the three routes and systemd: Quadlet
files, what the last daemon-reload loaded, what each unit runs from, and the
queue of restart jobs. `Copy`, `Rename`, `Reload` and `RestartUnit` each have
their failing variants, including the one in which the call worked and was
reported as failed. `RunJob` is systemd, at any later time; for the doctor's
unit it kills the doctor, for the updater's the updater.

**BugReport**. Registry and every step of `generateBugReport()`; the collector
on the host goes on after its client is killed. Tarballs are numbered as their
collectors began, which is what their names sort by.

**LogBroker**. The broker of one container and the permanent subscriber that
keeps the ring. Lines are numbered; a container created anew starts a new log. The
log of a container that has stopped can be asked for until the container is removed
(`Vanishes`): the stream then brings its newest lines and ends, and the broker asks
again, so the ring receives those lines over and over.

**LogView** (`routes/logs-stream.ts`, `useLogStream.ts`) extends LogBroker with
a page that follows the log: `Connects` is the route's warm-up, subscription and
backfill in one turn of the event loop; the connection breaks and is made anew,
the tab is hidden, the page is paused or cleared. `whole` is a history variable:
the page is connected and has dropped nothing since.

**InstallerRefresh** (`installer/refresh.ts`, `routes/installer.ts`) extends
OperationLock. One action per await of `refreshOne()`: `CheckMount`, `Fetch`,
`Compare`, `Snapshot`, `Open`, `WriteBody`, `Rename`, `Fsync`, each with its
failure: a status in the answer where the code catches it, `Throws` where it
does not. `Torn` is a file being written, `Short` one whose `write()` took fewer
bytes than it was given (`refresh.ts:235` does not look at the count).

**ImageRetention** (`image-retention.ts`) extends OperationLock with
`ListImages`, `Inspect` (which also works out what to protect) and `RemoveTag`,
one call each; `Pull` and `StartFrom` are the operator at the shell,
`EngineRefuses` is podman without `force`. **HostOperations** runs refreshes,
the prune and the updater side by side; a death of the doctor ends both.
**LockReturned** adds a history variable, `left`: the lock on disk is there because
its owner could not write, read or unlink it, or died.

**HostBoots** (`host-boots.ts`, `pi-power.ts`, the handlers of `index.ts`).
`DoctorStarts` loads the old record, or fails to, which to the code is the same as
none (`host-boots.ts:101-122`): the next record is then begun anew, and its `since`
(`trackingSince`) says in which boot. `RecordBoot` stores the new one, `Sample`
is `noteUnderVoltage()`, `Stops` the signal handler. A write stores, or fails
before or after its rename. `ended`, `dipped` and `sagged` are history: what
really happened to the host.

**ProbeRunner** (`runner.ts`, `budget.ts`, `updater-health.ts`,
`signalk-health.ts`). Time in ticks of half a second on two clocks, the timers'
(`now`) and the wall's (`wall`, by which the budget goes). The event loop may be
held up (`Tick` past a due timer); then timers fire late, in the order in which
they were due.

**RuntimeClient** (`client.ts`). `resolveRuntime()` split at its await:
`Resolve`, `Detected`, and `Continue` for each waiting caller in turn.

**Verdicts** with **Versions**. The comparing probes as functions from what is
on the host, and can be read, to a status; `classify()` and `compareSemver()`.
`case` ranges over every combination of sources, `Judge` applies the function. The
sources of `version-drift` keep apart what the code reads as the same null: a Quadlet
that is absent or unreadable, a container that is not there or no runtime to ask, an
updater that does not answer or a server that is not asked.

**WebConsole** (`useApi.ts`, `views/Drift.tsx`, `views/BugReport.tsx`,
`api.ts`). The polling hook with its effects and overlapping ticks (`Ask`,
`TickEnds`), package lookups by sequence number (`LookupWhy`, `LookupEnds`),
the heal from confirmation to outcome, and generate/upload of a bundle. The alerts
with an answer can be closed (`DismissWhy`, `DismissOutcome`). The engine and the
network are whatever answers, late, or never. `clicked`, `dismissed` and `crossed`
are history variables.

## What the runs check

| Run | Shows |
|---|---|
| `host_operations` | Two refreshes, the boot-time prune and the updater, with an operator who clears only dead locks: whatever changes the host holds the lock (`MutatorHoldsLock`), the file protocol implements SingleWriter (`ImplementsSingleWriter`), and whatever an operation meets it gives its lock back, with nobody to clear it, unless the lock file could not be written, read or removed or its engine died (`LockIsFreedAgain`); the refresh implements ArtifactStore (`ImplementsArtifactStore`: no file is ever torn, replaced unsaved, or replaced by an older body) and its answer is true (`AnswerIsTrue`); `RunningImageStays`, `RollbackSurvives` of the prune. |
| `lock_force_clear` | With an operator who clears locks in use: a release is about to unlink somebody else's lock only if its own was removed between its read and its unlink (`ForeignUnlinkOnlyInWindow`). |
| `heal` | `NpmUnderLock`, `RunningJobIsRegistered`, `NoRefusalOffOwnHeal`, `JobEnds`, and that the jobs use the lock as OperationLock says (`HealUsesLock`, a refinement). |
| `drift_reports` | The scan implements RecentReport (`ReportsAreRecent`), whatever fails and changes meanwhile. `OnlyAReadDropsPackages`: a report that could be loaded is emptied only by a scan that read a package, saw the image switched, or looked everywhere and met no error. `EtagMatchesLatest`; `ScansGoOn` and `RefreshReturns`. |
| `drift_switch` | A violation, see below. |
| `drift_heal` | `FreshOutcomesAreTrue`: verdicts drawn from the heal's own successful rescan say what happened in the data dir. |
| `drift_heal_joined` | A violation, see below. |
| `recovery` | `OkMeansRecovered`, `RestoredStaysRestored`, `RecoveryUsesLock` (a refinement), `RequestEnds`. |
| `bug_report_collectors` | A violation, see below. |
| `console` | Bug report: `ReportIsOwn`, `RetentionHolds`, `CollectionEnds`. Logs: `OneFeed`, `PageShowsHistory`, `LinesArrive`. Pages: `RefreshShowsNew`, `LookupIsLatest`, `LinkIsOfBundle`, `OutcomeIsTold`. |
| `probes` | Runner: `SpeakForThemselves`, `NoStarvedVerdict`, `EveryProbeIsReported`. Client: `OneDetection`. Boots: `NoFalseRestart`, `LossIsCounted`. Verdicts: `OkMeansWell`. |
| `release_order` | A violation, see below. |

`console` and `probes` put modules side by side that share no variable. A
behaviour chooses one of them (`part`) and leaves the others at rest, so such a
run checks the sum of its parts and not their product, which could show nothing
more.

Every module states one type invariant. They are proved, and can be added to any
configuration.

## Bounds

Counters that the code does not bound are bounded by constants: `MaxAcquisitions`,
`MaxHealJobs`, `MaxChanges`, `MaxVersion`, `MaxContents`, `MaxReports`,
`MaxLines`, `MaxOutages`, `MaxGlitches`, `MaxBreaks`, `MaxBody`, `MaxMoves`,
`MaxBoots`, `MaxTime`, `MaxStall`, `MaxCalls`, `MaxRequests`, `MaxPolls`. `RoomForJobs` in Heal reserves
acquisitions for the jobs.

* *Lock*: three operations of the doctor and one of the updater, four
  acquisitions (`lock_force_clear`). The worst case of the protocol needs three parties: one that
  reads, one that removes the file, one that creates the next.
* *Heal*: two requests, two jobs, a registry of capacity one, so that every
  registration evicts; one other operation and the updater. Two requests
  suffice for the race between the two looks at the registry.
* *Drift*: one package, two image tags, two versions, and two changes of the
  world (a container that is removed counts, its return does not), which is what a wrong etag or a report of two moments takes: a release, a
  switch and the scan between them. What `RecentReport` says it says of each
  package by itself, and a scan handles packages one after the other, so a second
  one adds nothing but orders; that several do no harm is what the theorem says.
  `MCHistoryInit` begins with the first image, since the two are alike, and with
  version 1 in the data dir and on the registry. `RouteAsksEarly`: the route asks
  for a scan only before the first change, since who awaits a scan does not bear on
  what it saves. The back-off cap is one doubling; the scheduler compares it,
  nothing counts it.
* *Heal outcomes*: two packages, one of them held back by its dependents. The other
  scans are the timer's (`OnlyTheTimer`), and nothing fails and no container is
  missing before the heal begins, which needs a report to choose its targets from
  (`WellUntilHeal`); from then on everything may.
* *Recovery*: three Quadlets with the doctor's in the middle, so that its
  restart precedes another one. One operation of the doctor serves request
  after request: a second one would only be refused by the lock (which
  the lock's own runs show with three).
* *Host operations*: two refreshes, the prune and the updater with two
  acquisitions, so that the second works beside whatever the first left behind.
  Two artifacts, one of them a host script, and two bodies: what goes wrong with
  one artifact is seen in the answer for the next, and the pages change once in
  between. Three versions, a keep window of one and two moves of the operator: one
  image runs, one is kept, one is removed; with a pull and a start the operator
  can move the container off what the prune has seen. `MCHostNext` lets the
  operator move images only while the artifacts are up to date, which the prune
  does not read. `MCHostInit` lets either the refresh or
  the prune find something to do, since they share nothing but the lock.
* *Bug report*: two jobs, a registry of one and a directory of two that is full
  at first; an old collector disturbs the later run.
* *Logs*: a ring of two of which a page is sent one, so that both are cut, three
  lines, one stop, one broken stream and one broken connection: a line can be missed
  by the page only between its connection and the backfill, or around one
  reconnection. After a stop the container may be removed, started or created anew.
* *Pages*: four requests of each kind: two effects with a tick each, in any
  order of arrival, and one more on either side. Two packages to look up.
* *Probes*: one probe without budget beside the two with; eighteen ticks are the
  ceiling and two more; the loop is held up for at most three ticks, which is as
  long as the pause before a retry, and the clock is set forward by three.
* *Boots*: four boots and a cap of two, so that the cap pushes out a restart.
* *Client*: three callers asking twice: two can still wait when the third, gone
  on already, asks again.
* *Verdicts*: two packages, two version numbers, five zones in three classes
  (of which the code knows two aliases by heart), two controllers; every
  combination is a case.

`drift_heal` starts with every package installed (`MCDriftHealSpec`);
`drift_reports` and `host_operations` narrow their initial states as said above.
The other runs do not.
Runs whose bounds let the system stop say `CHECK_DEADLOCK FALSE`.

## Fairness

* `OperationLock`: none is asked for. `LockIsFreedAgain` is checked of the
  operations there are, under the fairness of `HostOperations`; that anybody clears
  a lock is not assumed, since nothing in this engine does.
* `Heal`: the doctor's own continuations run, and the runtime answers. npm need
  not end, the stream need not end, and nothing is asked of crash, updater or
  operator. That the runtime answers is an assumption: no dockerode call has a
  timeout (`podman/client.ts:91`), so against a socket that accepts and never
  answers a heal hangs with the lock held. Only the exec's stream has a timer,
  and `JobEnds` relies on it.
* `DriftScan`: timers fire and every call answers, with a failure if need be.
  The registry calls have a timeout, the runtime's do not (as above). `stop()`
  is never called by the server, `runOnce()` catches everything.
* `Recovery`: files answer; busctl has a timeout (`dbus/systemd-user.ts:52`).
  Nothing is asked of systemd.
* `BugReport`: the doctor's steps and its timer. Nothing is asked of the host.
* `LogBroker`: the timer fires, the runtime answers, a stream brings what is
  written and ends with its container.
* `HostOperations`: files, the runtime and the pages answer, with an error if
  need be (`fetch()` gives up by itself after minutes of silence); an operation of
  the updater that has started runs to its end. Nothing is asked of deaths, of a clearing of the lock, the operator's pulls or the pages'
  releases.
* `ProbeRunner`: time passes and timers fire. No endpoint and no probe need
  answer.
* `WebConsole`: the browser's timers fire (`AbortSignal.timeout()` and the pause
  between polls). Neither the engine nor the network need answer.

## What is proved

For every value of the constants: any sets of operations, jobs and requests, any
capacity of the registry, any last-good list, any bound.

| Module | Theorem | States |
|---|---|---|
| `OperationLockProofs` | `TypeCorrect` | `Spec => []TypeOK` |
| | `SingleWriterSafe` | `~ClearsLiveLock => (Spec => []MutatorHoldsLock)` |
| | `LockImplementsToken` | `~ClearsLiveLock => (Spec => ImplementsSingleWriter)` |
| | `NonceLimitsExposure` | `Spec => []ForeignUnlinkOnlyInWindow`, whatever the operator clears |
| `HealProofs` | `HealImplementsLock` | `HealSpec => HealUsesLock` |
| | `HealTypeCorrect` | `HealSpec => []HealTypeOK` |
| | `RegistryIsTrue` | `HealSpec => []RunningJobIsRegistered` |
| | `BusyIsNotOwn` | `HealSpec => NoRefusalOffOwnHeal` |
| | `NpmAlwaysUnderLock` | `~ClearsLiveLock => (HealSpec => []NpmUnderLock)` |
| `RecoveryProofs` | `RecoveryImplementsLock` | `RecoverySpec => RecoveryUsesLock` |
| | `RecoveryTypeCorrect` | `RecoverySpec => []RecoveryTypeOK` |
| | `RestoredQuadletsStay` | `~ClearsLiveLock => (RecoverySpec => []RestoredStaysRestored)` |
| | `OkIsTrue` | `~ClearsLiveLock => (RecoverySpec => []OkMeansRecovered)` |
| `HostProofs` | `HostImplementsLock` | `HostSpec => HostUsesLock` |
| | `HostSingleWriter` | `~ClearsLiveLock => (HostSpec => []MutatorHoldsLock)` |
| | `HostImplementsToken` | `~ClearsLiveLock => (HostSpec => ImplementsSingleWriter)` |
| | `RefreshImplementsStore` | `~ClearsLiveLock => (HostSpec => ImplementsArtifactStore)` |
| | `NeverTorn` | `~ClearsLiveLock => (HostSpec => []NoTornArtifact)` |
| | `RefreshTellsTruth` | `~ClearsLiveLock => (HostSpec => []AnswerIsTrue)` |
| | `ReplacedIsSaved` | `~ClearsLiveLock => (HostSpec => NothingReplacedUnsaved)` |
| | `RunningImageKeepsTag` | `HostSpec => RunningImageStays`, whatever the operator clears |
| | `RollbackIsKept` | `Keep # 0 => (HostSpec => RollbackSurvives)` |
| | `RefreshTypeCorrect`, `RetentionTypeCorrect` | `HostSpec => []RefreshTypeOK`, `HostSpec => []RetentionTypeOK`, whatever the operator clears |
| `DriftProofs` | `DriftTypeCorrect` | `DriftSpec => []DriftTypeOK` |
| | `EtagBelongs` | `DriftSpec => []EtagMatchesLatest` |
| | `OnlyReadsDrop` | `DriftSpec => OnlyAReadDropsPackages` |
| | `ReportsRecent` | `HistorySpec => ReportsAreRecent` |
| | `HealOutcomeTypeCorrect` | `DriftHealSpec => []DriftHealTypeOK` |
| | `OutcomesAreTrue` | `DriftHealSpec => FreshOutcomesAreTrue` |
| | `RangeLimitedIfFresh` | `DriftHealSpec => [](fresh => RangeLimitedIsUnchanged)` |
| `BootProofs` | `NoRestartInvented` | `BootsSpec => []NoFalseRestart` |
| | `LossIsKept` | `BootsSpec => []LossIsCounted` |
| | `UnderVoltageIsOwn` | `BootsSpec => []UnderVoltageIsOfThisBoot` |
| | `BootsTypeCorrect` | `BootsSpec => []BootsTypeOK` |
| `ProbeProofs` | `BudgetIsKept`, `NeverStarved` | `ProbeSpec => []SpeakForThemselves`, `ProbeSpec => []NoStarvedVerdict`, if `ClockSteps \subseteq Nat` |
| | `RunnerTypes` | `ProbeSpec => []ProbeTypeOK`, under the same condition |
| | `RuntimeDetectedOnce`, `ClientTypeCorrect` | `ClientSpec => []OneDetection`, `ClientSpec => []ClientTypeOK` |
| | `VerdictsMeanWell`, `VerdictTypeCorrect` | `VerdictSpec => []OkMeansWell`, `VerdictSpec => []VerdictTypeOK` |
| | `ShortReleasesOrdered` | `VerdictSpec => []NewerIsNewer`, if prereleases are numbered 0 to 9 |
| `ConsoleProofs` | `OwnIsReported` | `ReportSpec => ReportIsOwn` |
| | `RetentionAlways` | `ReportSpec => []RetentionHolds` |
| | `OnlyOutlivingCollide` | `ReportSpec => []CollectorsApart`: two collectors at work are not both of jobs that run |
| | `ReportTypeCorrect`, `ViewTypeCorrect`, `WebTypeCorrect` | the type invariants of BugReport, LogView (with LogBroker) and WebConsole |
| | `OneFeedAlways`, `NeverColdAlways` | `ViewSpec => []OneFeed`, `ViewSpec => []NeverCold` |
| | `NoHoleInPage` | `ViewSpec => []PageShowsHistory` |
| | `RefreshIsNew` | `WebSpec => []RefreshShowsNew` |
| | `LatestLookupIsShown` | `WebSpec => []LookupIsLatest` |
| | `LinkBelongsToBundle` | `WebSpec => []LinkIsOfBundle` |

The assumptions are those the modules name: the two engines' operations are
disjoint, the jobs are operations of the doctor, the last-good list names each
Quadlet once, the prune is not one of the refreshes, the page makes a request when
it opens (`WebBoundsAssumption`), no zone has the name of a failure, the names by
which the code knows UTC are names of UTC, bounds are natural numbers.
The condition `~ClearsLiveLock` is the
operator's: a force-clear of a lock in use voids the promise by design.

**The lock.** `MutatorHoldsLock` is not inductive: it says nothing of an
operation that has created the file and not yet begun to work, or of one that is
releasing. `HolderInv` adds that whoever is not idle holds the file with its own
acquisition, that there is one such operation at most, that lingering work has
the file too, and that acquisition numbers in use are below the next one. Then
`Create` needs nobody active (the file would exist), and an unlink leaves nobody
active. The refinement uses the same invariant: `Create` is `Take`, `Write` is
`Begin`, an unlink or a force-clear is `Free`, `Finish`, `Retain`, `Crash` and
`Settle` are `End` or a stutter.

`HolderInv` fails as soon as a lock in use may be cleared. `WindowInv` is what
remains: an operation past its ownership check still finds its own file, or its
file was removed since (`exposed`).

**Heal and Recovery implement the lock.** Every step of theirs is a step of
OperationLock or leaves its variables alone (`HealLockStep`,
`RecoveryLockStep`). So `HolderInv` is an invariant of both, and their proofs
start from it.

**The registry** (`RegistryInv`). `RunningJobIsRegistered` with the fact that an
entry shown as running is in the map. A job is registered only when none runs,
so the prune that follows drops settled jobs only, and the new job, the newest
entry, stays whatever the capacity (lemma `Kept`). `NoRefusalOffOwnHeal` is about a
step: only `Refuse` answers busy, and it looks at the registry a second time.

**npm** (`HealInv`). `ChainInv` says what the stage of a job's promise chain
tells of its lock: before the acquisition it is idle, between acquisition and
the `finally` it works, in the `finally` it releases. `NpmInv` says that a
running npm belongs to a job at a stage that has not yet judged it stopped, or
to a lingering acquisition. `HolderInv` then puts the lock on disk in both
cases. Two jobs' acquisitions differ, so one job's release is not another's.

**Recovery** (`RecoveryInv`). While one operation works all others are at rest
(`OthersRest`, from `HolderInv`), so a step needs to be looked at for its own
operation only (`OneAtATime`), and the updater cannot write meanwhile. As long as
a recovery has had no failure it has restored every Quadlet wanted that it has
not still to do (`NothingMissed`), and from the reload on every unit is loaded
from the last known good file and is to be restarted, queued, or restarted
(`UnitsFollow`). That a job of systemd may run at any time, the doctor's own
included, is what makes the last one less than obvious: a restart before the
reload would run the old file, which `UnitsFollow` excludes.

**Refreshes** (`FileInv` with `HolderInv`). A temporary file may be torn at any
time: what makes a rename safe is that the refresh at `rename` has written the
file itself and that nobody has opened it since. The name of the temporary file
is the same for every refresh of the process, so this needs the lock: only the
holder is inside the loop, and a refresh that died is no longer in it. The
invariant therefore says, per stage, what `tmp`, `dest` and `snapshots` hold of
the artifact the holder is at, and that everybody else's loop is idle.

That the refresh implements ArtifactStore needs the contents' ages as well
(`Ages`): every body there has been served, and at the stages before the rename
the body fetched is newer than what the destination holds, although the pages
may publish at any moment, because the comparison with the destination comes after the fetch
and only the holder writes in between. The types alone need no lock
(`WorkTyped`).

**The prune** (`PruneInv`). That the running image keeps a tag needs no lock at
all, only the engine's refusal. That a version to roll back to stays needs to know
which: the newest version other than the one seen to run is among those the keep
window protects, since none is newer (`NewestExists`, a well-founded descent over
the finite set of releases, as no induction over data is available). From the
inspection to the last removal that version keeps its tag (`KeptVersion`): the
prune removes unprotected tags only, and a pull sets tags and takes none from
another version. If the container is later moved to the kept version, the one it
has left is the rollback, which is why the property asks that it still has a tag.

**The drift report** (`PairInv`, `ReadInv`). An etag beside a version it was served
with stays so in the report, in what is carried over from it, and in the entries
being built; `EtagMatchesLatest` alone does not see the last. A scan that goes on
to the registry has read something or met no error, and one that saves unread has
what it could load: so the only saves that drop packages after an error are that of
a switched image and that of a report that could not be loaded.

**Recent reports** (`RecentInv`). What a scan holds in its hands at each stage was seen
since it began: the tag it read, what it found of either location of a package, also
with only one of the two looked at, and the entries built. An entry
either has both version and etag from an answer since then or both from the
report carried over (`BuiltRecent`), which is why the base it was carried from
must not change while entries are being built. `InOrder` says which packages have
been read and built so far. History only grows while a scan is in flight (`SeenStays`), and
the save puts what is in its hands on disk in one step (`SavedIsRecent`,
`SavedUnread`).

**The verdicts of a heal** (`HealInv` of DriftProofs). The verdict compares three
things that change independently, so the invariant has a part for each: no entry
knows a version that is not published (`KnownVersions`); npm, once it has exited
with 0, has settled every target (`NpmInv`); and what a scan has read since npm
stopped is what is on the disk (`FreshInv`), in the packages found, in the entries
built and, once the heal's own rescan has ended, in the report. The same invariant
gives `RangeLimitedIfFresh`: the violation found by `drift_heal_joined` needs a
report that is not `fresh`.

**The bug report** (`JobInv`, `Room`). A job number is an order in time: a job that
runs is later than all that ended, and no later one has begun, so no tarball is
newer than its own. For the retention, room for one tarball is made before the
collector is spawned and is there until it has written. That the oldest ones the
prune takes are enough is a counting argument: what is left is injected by rank
into an interval of the right length (lemma `OldestMakeRoom`). That one job is at
work at a time also bounds what `bug_report_collectors` finds: of two collectors
at work one has outlived its job.

**The boot record** (`BootsInv`). The record in the file, the one a starting
doctor has loaded and the doctor's own copy must each be true (`True`: what it
counts is over, was not marked, and comes in order), complete (`Complete`: a lost
boot since the record was begun is its own, unmarked, or counted, or pushed out) and
see this boot's under-voltage (`Sees`, of a record begun before it). A record that
could not be loaded leaves one begun in this boot, of which both say nothing yet. The
step that is not obvious is a failed write, after
which file and copy differ: both still satisfy the three, and the next record is
drawn from the file alone.

**The budget** (`RunnerInv`, `NeverBrief`, `OwnTime`). As long as the wall clock
is not behind the timers', what the budget leaves a call ends before the runner's
timer is due; a late loop delays both and fires the earlier one first. So the
call's own abort, or the end of the pause, always precedes the runner's. Without
the condition the theorem is false: a clock set back gives the probe more time
than the runner grants it.

**One detection** (`DetectionInv`). The promise that is kept is that of the last
detection, the only one that may be at work. One that succeeded is the last: its
value is stored, or those who will store it go on before anybody else is heard.

**The verdicts**. Each probe's verdict is `ok` in the same cases as what
`OkMeansWell` asks (lemmas `VersionVerdict`, `ZoneVerdict`, `DependencyVerdict`,
`DelegationVerdict`). Two of them take an argument: the property asks whether
there is one value among the sources, where the code compares them by twos, only
where there are two tags to compare, and never counts (`DifferingAreTwo`, `OneZone`), and the code compares zones by their canonical names but knows those of UTC
by heart, which agrees with comparing zones only if they are all names of UTC
(`UtcAssumption`). For releases, numbers of one digit compare as strings as they do as
numbers (`ShortOrdered`), so that the disorder found by `release_order` takes
longer ones.

**The logs** (`FeedInv`). `OneFeed` and `NeverCold` are inductive together with
the shape of the streams: whoever starts one looks at the broker's own variable
first, and an end that is not that stream's is ignored. `NoHoleInPage` adds that
the newest lines of the ring after a delivery are among those before it and the
line itself (lemma `HistoryAfterPush`, also when the ring drops one), and the
page receives the same line.

**The pages**. An answer of an earlier effect is ignored; the sequence number
in force belongs to the package clicked last, and what it brought goes by the user's
hand or by a newer lookup only; the link is dropped when a new bundle is asked for.

## Where the code and its comments part

* `drift_switch` / `SwitchDiscardsPackages`. `scanner.ts:98-100` says that the
  previous packages are discarded when the image was switched since the last
  scan. The switch is told by comparing two known tags; a scan that cannot
  inspect the container saves `signalkImageTag: null` (`scanner.ts:111`), so a
  switch around it goes unnoticed and the next failing scan carries the old
  image's packages over under the new tag.
* `drift_heal_joined` / `RangeLimitedIsUnchanged`. The heal's rescan joins a
  scan in flight (`scheduler.ts:42`), which may have read a package before npm
  moved it. The verdict compares the old version with itself and says
  `range-limited`, which `heal.ts:33-36` defines as unchanged and still behind.
* `bug_report_collectors` / `OneCollector`. The timeout kills the `systemd-run`
  client, not the transient unit (`bug-report.ts:388`), and ends the job; the
  next POST starts a second collector beside the first, which
  `bug-report-jobs.ts:79-83` says does not happen.

* `release_order` / `NewerIsNewer`. `compareSemver()` compares the suffixes of
  two prereleases by `localeCompare` without `numeric` (`tagClassifier.ts:55`), so
  `beta.9` counts as newer than `beta.10` (so does `beta.2`, the pair in the run's
  trace), although the comment above it promises the newer one. The prune then keeps the wrong prerelease to roll back to.

## Remarks

Met while modelling, visible in the models, and not stated as properties:

* The nonce narrows, and does not close, the window between the read and the
  unlink of `release()` (`mutex.ts:159-164`): after a force-clear in that window
  a foreign lock is unlinked. The code's comment admits it.
* An exec record cannot tell a process that has not begun from one that is over
  (`exec.ts:125-128`, `276`). A start call that fails while the daemon is still
  going to begin the process is therefore taken for stopped; that npm (value
  `"late"`) runs without the lock, and `NpmUnderLock` leaves it out, as it does
  an npm that begins after its job could not read the record (its lock is then kept)
  or after the doctor died.
* `forceClear()` (`mutex.ts:181`) has no caller in this engine, and no route removes
  the lock, although `heal.ts:88-90`, `routes/drift.ts:106` and
  `routes/restart.ts:40` send the operator to it. A lock that a failure left
  behind (`left` in LockReturned) stays until somebody removes the file by hand.
* A report that exists and cannot be loaded is to the scan as none
  (`store.ts:139-141`, "recompute from scratch"). If the packages cannot be read by
  that scan either, it saves an empty report over it; `OnlyAReadDropsPackages`
  speaks of reports that could be loaded.
* The two copies of a package in one report need not have been there at the same
  time (`installed-packages.ts:300-303`). `RecentReport` says so.
* A container that is removed while a scan looks into it answers 404, which reads as
  a package that is not installed: such a scan saves a report without packages and
  calls it readable.
* When the rescan fails, a heal is judged by the report from before it
  (`heal.ts:320`).
* `recoverAll()` with the doctor's own unit in last-good kills itself in the
  middle: the lock stays and later units are not restarted, although restored
  and loaded (`restore.ts:66`).
* A recovery replaces Quadlets without a snapshot of what it replaces
  (`restore.ts`), unlike the refresh of the installer.
* Five tarballs are kept but eight jobs: a listed job can outlive its tarball
  (`routes/bug-report.ts:88`).
* A short write of an artifact (`refresh.ts:235`) is renamed into place and
  reported with the hash of the whole body. `AnswerIsTrue` and `NoTornArtifact`
  allow for it (`Short`).
* A refresh that throws outside the `try` (`refresh.ts:293-305`) answers 500 and
  tells nothing of the artifacts it has already replaced.
* The comment at `image-retention.ts:163-166` says that a running image that
  could not be inspected is covered by a rolling tag or the keep window. It need
  not be, if the operator has moved the container to an older version. What
  protects it then is that podman refuses to remove it; `RollbackSurvives`,
  whose keep window then goes to the wrong image, therefore asks for an
  inspection that came through.
* The protected set is as old as the inspection. When a pull takes the rolling tag
  off the image that ran and the operator then has the container run the version
  that was kept, the prune may leave no other version with a tag.
  `RollbackSurvives` asks that the image seen to run still runs or has a tag.
* A `recordBoot()` whose write failed leaves the doctor without a record of its
  own, so neither under-voltage nor a clean stop of that process is noted, and
  the boot may later count as unclean; the comment at `host-boots.ts:195` says so
  of the last of these.
* A boot record that cannot be loaded is begun anew with no unclean boots
  (`host-boots.ts:159`): what it counted is gone, with nothing but a later
  `trackingSince` to tell. `LossIsCounted` asks only for boots since then.
* The budget goes by the wall clock (`budget.ts:63`).
* The slow-answer check of `signalk-health.ts` measures from before the HTTP call
  that failed; `updater-health.ts:125-127` measures the last call only.
* `version-drift` says `ok` of what it does not know: when no runtime could be
  resolved (`version-drift.ts:85`), when the Quadlet cannot be read (`70-72`), when
  the updater does not answer (`121`); lines 193-196 want a failure of the runtime
  surfaced. Only a refused inspection is. `OkMeansWell` therefore says of this probe
  that what it was told agrees, and of the others that nothing was kept from them.
* Two ticks of one effect of `useApi()` may overlap, and the answer to the older
  may come last (`useApi.ts:53-57`). `RefreshShowsNew` is about effects.
* An upload of the old bundle that crosses the making of a new one leaves the old
  one's link beside the new bundle (`BugReport.tsx:76`); `LinkIsOfBundle` excuses
  it by `crossed`.
* The pull of the report after a heal has no deadline (`Drift.tsx:357`), nor have
  the requests of `downloadBugReport()`.
* The page that follows a log receives the history again after each reconnection
  and shows those lines twice, and what came while it was away only as far as the
  newest `TAIL` lines reach, which is all `PageShowsHistory` asks for; a page that was resumed keeps saying it is paused
  until its connection is opened anew (`useLogStream.ts:162-165`).

## What is only model-checked, and what is not modelled

Liveness (`LockIsFreedAgain`, `JobEnds`, `ScansGoOn`, `RefreshReturns`,
`RequestEnds`, `CollectionEnds`, `LinesArrive`, `EveryProbeIsReported`,
`OutcomeIsTold`) is out of TLAPS's reach and stays with TLC. All other properties
of the passing runs are proved. The four properties that a run finds violated are
of course not; of three of them a theorem says what is left when the cause is
taken away (`RangeLimitedIfFresh`, `OnlyOutlivingCollide`,
`ShortReleasesOrdered`). For `drift_switch` there is no such theorem: besides the
scan that saw no tag, an image switched in the middle of a scan breaks it too, and no
single condition of the code separates the two from the rest.

Abstracted within the modules: the best-effort `npm explain` pass before the
heal (it only reads); the candidate paths of one location and the tar parsing of
the package reads, and the migration of old reports (a look finds the package, finds
nothing, or fails); error categories; the length of delays. Failing
alternatives of a probe that the code tries in order are an ordered choice. In DriftHeal the appstore and the registry
leave the packages alone while the heal runs, and the doctor lives; in
LogBroker nothing closes a broker, as nothing does in this engine, and the SSE
hand-off is one turn of the event loop. `quadlet/rewriter.ts` has a write side
that nothing in this engine calls.

In HostBoots timestamps are left out, and with them the seven days over which
`host-restarts` counts; in ProbeRunner the words of an error and the warnings of
slow answers; in RuntimeClient how the kind of a socket is guessed; in Verdicts
the wording, the paths and the transient unit by which a zone is read, and the
uid that `cgroup-delegation.ts:50` caches from a fallback; in InstallerRefresh
modes, URLs and the read-only status route; in WebConsole the first load and the
rescan of the Drift page, which set a flag and the table. A late rescan may
overwrite the table from after a heal; there is no promise it would break.

Not modelled: the probes that make one call and compare it with a threshold
(`podman`, `containers`, `dbus`, `disk`, `memory`, `snapshots`, `time-drift`: no
state, nothing to interleave; the runner sees them as probes that may not
answer); `explain.ts`, which turns text into lines; `ghcr.ts` (a cache of one
fetch, whose overlapping fetches give equally good answers); authentication (a
token compared per request); the server's wiring; the pages that make one request
at a time. The updater, systemd, npm, the runtime, the browser and the host's
scripts are external: they appear as the actions their interface allows.

## Plan

Done, in this order: OperationLock with its abstract specification and its
proofs (everything else rests on it); Heal; DriftScan and DriftHeal; Recovery;
BugReport; LogBroker; then InstallerRefresh and ImageRetention (with
HostOperations), HostBoots, ProbeRunner, RuntimeClient, Verdicts, LogView,
WebConsole, and the proofs about them; then the abstract specifications
ArtifactStore and RecentReport with their refinements, the verdicts for any set of
sources, the theorems that delimit the violations, and the remaining types.

Left:

1. DriftHeal on the abstract report: that what `OutcomeFor` needs of the scan
   follows from RecentReport alone.
2. Abstract specifications of the remaining components with state of their own
   (the boot record, the registries).

## Running it

```
tlc -workers 2 -config host_operations.cfg MCHostOperations
tlapm OperationLockProofs.tla
```

`PROJECT.json` names the module of every configuration. The longest runs take
about two minutes.
