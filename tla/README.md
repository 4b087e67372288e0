# node-problem-detector in TLA+

A verification project kept beside the node-problem-detector sources: TLA+
modules translated from the Go code, TLC instances that check them, and TLAPS
proofs of the results that hold for every instance. Line references are to the
files under `src/`; `PROJECT.json` maps every definition to the lines it models.

## The system

node-problem-detector (NPD) is a daemon with three layers.

* **Problem daemons** watch the node. A *system log monitor* reads a log
  watcher (file, journald or kmsg), matches each line with its buffer against
  regular expressions, and turns matches into events and permanent conditions.
  A *custom plugin monitor* runs scripts on schedules and turns exit codes into
  events and conditions; two of the scripts are binaries of the repository, the
  *health checker* and the *log counter*. A *system stats monitor* only records
  metrics.
* **The problem detector** starts the monitors, merges their status channels
  into one and hands every status to every exporter; on cancellation it stops
  the monitors one by one.
* **Exporters** publish: the Kubernetes exporter sends events and keeps the node
  conditions in sync with the API server; the Prometheus and Stackdriver
  exporters serve the metrics.

Everything is goroutines, bounded channels, a few locks, and a small stop
protocol (`pkg/util/tomb`).

What is hard in it: reports racing the sync routine; patches lost, unacknowledged
or applied late; restarts; bounded channels whose reader goes away during
shutdown; stop requests racing worker goroutines, timeouts and channel closes;
statuses that alias live state; log rotation racing reads; a script's deadline
racing its exit, its output and its children; a service that restarts while it is
being judged; counters that wrap or vanish between samples.

What must be right: no report is lost and the last one becomes visible; the API
server is not flooded; a rule never overlaps itself and the concurrency limit
holds; nothing is sent on a closed channel; Stop returns; condition, event and
gauge tell the same story; log lines are matched as if the whole buffer were
searched; a script's status is the one it earned; metrics add up; what runs is
what was configured.

## Modules

| module | models | source |
| --- | --- | --- |
| `ConditionReport` | what the Kubernetes exporter promises about conditions: three registers | (abstract) |
| `ConditionManager` | condition manager, problem client, API server, restarts | `condition/manager.go`, `problemclient/problem_client.go`, `k8s_exporter.go` |
| `Plugin` | scheduler of the custom plugin monitor | `custompluginmonitor/plugin/plugin.go` |
| `PluginRun` | the run of one script: caller, two readers, killer, os/exec's watch, process, child | `plugin.go` (`run`, `readFromReader`), `util/exec_unix.go` |
| `HealthChecker` | one check of a systemd service, and the service | `pkg/healthchecker`, `cmd/healthchecker` |
| `LogCounter` | one count of journal lines | `pkg/logcounter`, `cmd/logcounter` |
| `Scripts` | composition: `run` around either binary or any other script, over and over | |
| `ScriptsProofs` | inductive invariant and theorems of the run, the health checker and the log counter | |
| `CustomPluginMonitor` | conditions, events, metrics and statuses made of results; the exporter's copies | `custom_plugin_monitor.go`, `problem_metrics.go`, `k8s_exporter.go` |
| `CustomPluginProofs` | inductive invariants and theorems of `Plugin` and of `CustomPluginMonitor` | |
| `LogBuffer` | ring buffer, compilation of patterns, matching | `log_buffer.go` |
| `LogBufferProofs` | matching against its reference definition | |
| `LogWatcher` | kmsg, journald and file watchers, the tailing reader, the node that logs | `logwatchers/`, `third_party/forked/cadvisor/tail` |
| `LogMonitor` | composition: the log monitor over a watcher and the buffer, with the exporter | `log_monitor.go` |
| `LogStateProofs` | what the watchers and the log monitor hold, and the pace of restarts | |
| `LogWatcherProofs` | inductive invariant of the delivered lines, and its theorem | |
| `LogMonitorProofs` | inductive invariant of the monitor, and its theorems | |
| `Metrics` | tags, views and rows of the metric wrappers | `pkg/util/metrics` |
| `SystemStatsMonitor` | the stats monitor and its six collectors | `pkg/systemstatsmonitor`, `util/metrics/system` |
| `ProblemMetrics` | the problem metrics manager with its mutex and concurrent callers | `problem_metrics.go` |
| `NodeMetrics` | composition: all that records metrics in one process | |
| `NodeMetricsProofs` | its inductive invariant and theorems | |
| `ProblemDetector` | composition: detector, forwarders, monitor loops, watchers, tombs | `problem_detector.go`, `log_monitor.go`, the watchers, `tomb.go` |
| `ReportingProofs` | inductive invariants and theorems of `ConditionManager`, with its refinement of `ConditionReport`, and of `ProblemDetector` | |
| `Configuration` | flags and configuration files: defaults, parsing of durations, validation | `cmd/options`, the `config.go` files, `problemdaemon`, client configuration |
| `NodeProblemDetector` | main to Run, the exporters' start, the wait for the API server, the metadata, the Windows service | `cmd/nodeproblemdetector`, `exporters/` |

`MC*` modules only define symmetry sets and the constants that are sequences,
records or sets of them. Definitions marked "Mutant of X" are X with one plausible
mistake; `PROJECT.json` names for every checked property the mutant that violates
it.

### ConditionManager

The variables are the fields of `conditionManager` and of `nodeProblemClient`,
the program counter of the sync routine, and the Node. The clock only occurs in
comparisons with `latestTry`, so the state keeps its age in update periods
(`sinceTry`), saturating where both comparisons are true for good. One turn of
`syncLoop` is `HandleTick`: draining `updates`, the three `need...` tests and the
start of `sync` are one step, because nothing else reads or writes what they use
between them (`updates` is drained under the lock). The attempts of
`retry.OnError` are separate steps, so ticks, reports, cancellations, other
writers and restarts fall between them. An attempt may succeed, be refused, be
applied unacknowledged, or be abandoned and applied any time later (`late`). The
history variable `foreign` records which types of the Node somebody else wrote
last. A patch that arrives late counts as somebody else's write.

### Plugin, PluginRun and Scripts

A *runner* of `Plugin` is a goroutine that executes `runRules`: `Main` (the boot
batch) and one per interval group. `stage` and `worker` are the program counters;
each channel operation, each check of `Stopping` and each deferred call is a step
of its own. `syncChan` is the number `slots`; the holders of the slots are computed
from the program counters and compared with it.

`Plugin` takes a script for a step of any finite length. `PluginRun` is the inside
of that step. The context ends by its deadline or by the deferred cancel; two
goroutines kill then, os/exec's (the process) and NPD's own (the process group).
The readers keep a limited number of bytes and go on draining. `Wait` comes after
both readers are done and closes the pipes. The process writes, forks once, and
exits at any moment; its child may leave the process group and may hold the pipes.
`Scripts` puts in the place of the process the health checker, the log counter or
any script, and runs it again after it has returned. The health checker's reads of
the uptime, of the endpoint and of the journal and its kill are separate steps,
between which the service hangs, dies, logs and is restarted. Times are ages in
seconds that saturate; systemd's time stamps have that resolution.

### CustomPluginMonitor

One result is handled in four steps: deciding the change, storing it, the
metrics, the send. `Status.Conditions` is the monitor's own slice and not a copy,
so the exporter's copy of a condition may overlap the storing of the next value.
A copy takes each field from any value the condition had during the copy
(`seen`); this is the data race as a choice. Whether the exporter writes events and
updates conditions is a setting each (`writeEvents`, `updateConditions`). `gauge`, `lastReason` and `counter`
are the state of the problem metrics manager as this monitor drives it.

### LogWatcher, LogBuffer and LogMonitor

The three watchers share their channel, stop and deferred function and differ in
how they read. kmsg: the parser closes its channel on a failed read; the loop closes
the parser, waits if the last restart was less than `retryDelay` ago, opens a new
one and seeks to its end; the parser may fail to open or to seek. journald: an entry
may be unreadable. File: `Tail` opens the file, adds the inotify watch and, when the
file is moved, closes and opens again, each a step between which the node writes,
rotates and creates the file; lines are written and read in pieces. An entry is its
message with what the filters make of it.

A buffer is a record and its operations are operators. Messages are sequences of
letters. An expression is a list of alternatives, each a sequence of starred or
plain letter classes with an optional start anchor: enough for the questions the
code asks of an expression (can it match a newline or an empty line; where does
`\z` bind), which are operators on its syntax as in the code. Where an expression
matches is the library's and marked external.

`LogMonitor` writes a condition field by field, in the order of the code, because the
exporter may read it meanwhile: once it has taken a status it copies the monitor's
conditions one after the other (`copying`), each field from any value the condition had
during its copy (`values`). Metrics reporting and the update of conditions are settings.
The writing of events is the exporter's code that `CustomPluginMonitor` models.

### Metrics, SystemStatsMonitor, ProblemMetrics and NodeMetrics

A view keeps a row for each combination of the labels it knows, aggregated as a sum
or as the last value. Each collector is one action: nobody else writes what it uses,
and a scrape only reads. Its inputs are the kernel's figures, with every read that
can fail failing or not, devices that come and go, mounts that change between rounds,
and counters that go back.
Unsigned integers wrap at twice `HalfWord`. Metrics that a collector treats alike
are one metric here. In `ProblemMetrics` the steps of `SetProblemGauge` are separate:
two monitors may be in it and a scrape may come at any of them.

### ProblemDetector

For each monitor a pipeline: watcher, `logCh`, loop, output channel, forwarder of
`groupChannel`, detector. The kinds differ where their code does: the file and
journald watchers look for a stop only before a read and use a plain send; kmsg
and the plugin select; journald does not close `logCh`; a custom plugin monitor
does not close its status channel and may skip the initial status; a stats
monitor is a loop without channels. `Plugin` is the inside of the "custom"
watcher, `LogWatcher` that of the others.

### Configuration and NodeProblemDetector

An optional value is a set of at most one member, a duration a number or
`Unparsable`. A file is one record with the fields of all daemons: nothing in a file says
which daemon it is for, and what a daemon does with the file of another is the code's
own checks. `npd` is the phase of the start-up; each exporter, each check of the
API server, each attempt at the metadata server and each server that begins to
listen is a step, and signals and the Windows service manager's requests come at
any time. `Run` starts the monitors, some of which may fail, and, once it is cancelled,
returns or is stuck in a stop; `ProblemDetector` is the inside of these steps.

## What is checked

Every run is an exhaustive search of its instance.

| run | properties | shows |
| --- | --- | --- |
| `condition_safety` | `Synced`, `Punctual`, `PatchCachesUID`, `NoFlood`, `ImplementsReport` | no report is lost or sent half; an idle manager agrees with the Node; never overdue; equal patches are a period apart; the registers are implemented |
| `condition_liveness` | `Convergence` | when the outside world leaves the Node alone, a report that stays ends up there for good |
| `plugin` | `NoOverlap`, `SlotsAccounted`, `ClosedIsQuiet`, `StopCompletes`, `EveryTickRuns`, `PluginTypeOK` | a rule never overlaps itself; every slot has one holder; nothing is sent on the closed channel; a stop completes and no group starves |
| `scripts` | `StatusIsEarned`, `OutputIsWhole`, `RunReturns` | a status and an output are the script's own, whatever the deadline does; a run ends |
| | `CoolDownRespected`, `BlamedForItsOwnLog`, `HungServiceRepaired` | a service is not killed while it starts, not blamed for its former self's log, and a hung one is repaired |
| | `CountIsNet` | the count is what the buffer's lines call for |
| `custom_plugin` | `DefaultsRestored`, `GaugeTellsCondition`, `CountsRisingGauges`, `SettledAgrees` | condition, gauge and counter, and what the exporter wrote if it is set to, tell the same story after any sequence of results |
| `logs` | `StatusesFollowLines` | the monitor's statuses are those of a reference that joins and searches all lines the buffer may hold |
| | `SettledExport`, `CountsEvents` | the exporter's last copies are the conditions the monitor holds, if it updates conditions; what was counted and set are the monitor's events and conditions, if it reports metrics |
| | `LinesInOrder`, `RestartsPaced`, `WatcherStops` | entries arrive once and in order across restarts and a rotation; restarts are a delay apart; a stop ends a watcher and leaves no parser open or closed twice |
| `metrics` | `IncreasesAddUp`, `AverageInterval`, `GaugesTellNode` | sums of increases are the kernel's counters; the average queue length of a device is over the time since it was measured, or over less if it missed the last sample; gauges tell memory, disks and features as they are |
| | `LastReasonOnly` | at any moment one reason per type is set, and it is the last one |
| `metrics_sums` | `CountersTold` (violated) | finding 2 |
| `detector` | `StatusesInOrder`, `ReturnedIsQuiet`, `Delivered`, `StopCompletes` | statuses are neither lost, repeated nor reordered; `Run` leaves no loop of a monitor or of its watcher behind; a stop completes if nothing is stuck |
| `detector_failed_start` | `StopAlwaysCompletes` (violated) | finding 1 |
| `startup` | `RunsAsConfigured`, `StartupEnds`, `ServiceStops` | there is one daemon for each file, of a type its flags name, and metadata of the file are kept; the start-up ends; a Windows service stops and stays stopped unless `Run` is stuck |
| `startup_wait` | `WaitsForAPIServer` (violated) | finding 3 |

Bounds, and why they are enough to be interesting:

* *Conditions*: two types are needed for a patch that carries one type and not
  another, two values for an overwritten report, two UIDs for a re-created Node.
  Periods 2 and 3 keep resync and heartbeat apart from each other and from one
  tick; two retries give a first, a last and a failed attempt. One late patch
  (`MaxLate`) may be pending. `condition_liveness` uses one type and one UID.
* *Scheduler*: two rules in two intervals give every grouping (none, shared, own,
  defaulted). One slot and a result channel of one make every wait happen; the
  theorems cover every other capacity.
* *Scripts*: a pipe holds one unit, the readers keep two and the result three, and
  scripts write up to four, so each limit is hit and exceeded. The cool-down is one
  second and ages go to two; two log entries are enough for a count to be reached by
  entries of two lives of the service. Three journal lines fill a buffer of two and
  push one out. Which scripts have a deadline, fork or write how much is fixed by
  `MCPlans`, one plan per question.
* *Custom plugin monitor*: one condition with two reasons and two messages, in
  every setting; any rule may produce any result at any time. Counters are kept
  modulo 2, enough to see a single increment. With one condition the copies of
  several conditions in a row are not exercised.
* *Logs*: three entries for kmsg and journald and two for a file, in a buffer of
  two: the ring is empty, partly full, full and wrapped. The five rules are an event,
  a pattern over two lines, an anchored one, an alternation and a second one for a
  condition another rule sets. kmsg fails twice, which is needed for a restart right
  after a restart. One rotation; `LinesInOrderAlways` covers any number. Only the
  journald instance also runs with metrics reporting and the update of conditions off.
* *Metrics*: twenty configurations of one or two collectors each, so that a product
  of all collectors' inputs is avoided (collectors share nothing but the views); two
  devices, CPU states and interfaces, counters up to two in three bits, sums modulo
  three. Two callers of the metrics manager, one type, two reasons: types are keys of
  independent entries. The table of mounts is one of two in each round, so that a disk
  is mounted again with other options, or no longer.
* *Detector*: two monitors, channels of one, up to one match per log. Statuses
  are numbered modulo 3, more than can be in flight.
* *Start-up*: command lines and files are chosen, one per branch of the code that
  looks at them (`MCNodeProblemDetector`); the wait is two polls and the metadata two
  attempts long; three requests of the service manager.

`CHECK_DEADLOCK FALSE` appears where the system really stops: after `Run`, `Stop` or
a start-up has returned, the process has died, or the bounded inputs are used up.

Fairness, per specification:

* `ConditionManager`: time passes and the sync routine is scheduled (weak); an
  API server that is asked again and again some time answers (strong, on
  `PatchOK`). Without the last nothing can become visible.
* `Plugin`: goroutines are scheduled and scripts end, which `RunReturns` of
  `Scripts` justifies (weak); a goroutine blocked on `syncChan` or `resultChan` gets
  its turn (strong), because Go queues blocked senders first come, first served.
  Nothing forces a stop.
* `Scripts`: goroutines are scheduled, deadlines pass, and the repository's own
  binaries go on step by step (weak). A script or a child without a deadline exits some
  time; with one, nothing forces it to. systemd restarts a service that exited.
* `LogMonitor`: watcher, tail, loop and exporter are scheduled and timers fire
  (weak); a `select` that finds a stop ready again and again takes it some time
  (strong), because Go chooses at random. Nothing forces the node to log.
* `ProblemDetector`: the same, weak for the goroutines and strong for the stops.
  Nothing forces logs to appear, reads to fail or the context to end.
* `NodeProblemDetector`: the start-up goes on and time passes (weak); the API server
  need not answer before the wait is over; a cancelled `Run` goes on to stop its
  monitors, and returns or is stuck: nothing makes it return.
* `NodeMetrics` has safety properties only, and no fairness.

## Findings

1. *Failed start* (`detector_failed_start`). `Run` stops every monitor, including one
   whose `Start` failed, and waits for ever for a loop that was never started.
2. *Totals added up* (`metrics_sums`). The CPU and network collectors record totals
   since boot into metrics that sum what they are given; after two rounds the exported
   counter is not "Number of forks since boot."
3. *No wait for the API server* (`startup_wait`). The condition of the poll returns
   `GetNode`'s error, which ends the poll: an API server that refuses the first
   connection is not waited for.

Observations that are in the models and that no run of its own shows:

* *Resync.* The comment on `ConditionManager` (`manager.go:48`) says it synchronizes
  every `resyncPeriod`; `needResync` only does so after a failure. `Punctual` states
  what holds.
* *Torn export.* Both kinds of monitors share their conditions with the exporter by
  reference (`custom_plugin_monitor.go:280`, `log_monitor.go:230`); a copy can mix an
  old status and a new reason. `SettledAgrees` and `SettledExport` show that a later
  status repairs it.
* *Blocked watcher.* The file and journald watchers use a plain send on `logCh`, whose
  reader is already waiting for them to stop; the kmsg watcher has a comment on why it
  must not (`log_watcher_linux.go:143`). `WatcherStops` and `StopCompletes` except it.
* *Stuck service.* A `Run` that is stuck, for this reason, for the next or for finding 1,
  keeps the Windows service in its state after a stop request; `ServiceStops` excepts it.
* *Tail.* The stop of a file watcher tells `Tail`'s goroutine to end and does not wait for
  it (`tail_linux.go:86`): it may have the file open for a moment after `Run` has returned.
* *Full output.* The detector stops receiving before it stops the monitors; a monitor
  whose status channel fills up meanwhile never sees its stop (`log_monitor.go:163`).
* *Scripts.* A child that left the process group and holds the pipes keeps `run` from
  returning after the deadline (`plugin.go:302`); `RunReturns` excepts it. A script that
  exits with 0 while os/exec is killing it is reported as Unknown, and OK or NonOK can
  carry a message about a timeout when the exit and the deadline coincide.
* *Health checker.* The uptime is read before the kill: a service that restarts in
  between is killed while it starts, which `CoolDownRespected` excepts. An endpoint that
  does not answer together with a log check that fails gives Unknown and no repair.
* *Log counter.* It ends after a second of silence and undercounts then; a line that
  reverts without a line to revert makes the count negative.
* *Rotation.* A second rotation whose event is delivered late makes the tail open the
  same file twice, so its lines come twice. `LinesInOrder` excepts a file that was rotated
  so hastily, and allows a rotation to join the read half of a line to another line.
* *journald.* Its watcher leaves `logCh` open, and calls `Next` again at once when it
  fails.
* *Average queue length.* One `lastSampleTime` serves all devices. For a device that
  missed a sample the increase since it was last measured is divided by the time since the
  last sample, and the "average IO queue length since last measurement"
  (`disk_collector.go:184`) is too high. `AverageInterval` says that the time is never too long,
  and right for the devices of the last sample.
* *Remounted disk.* The mount options are a label of the disk's rows, and a last value stays
  in its view. Rows of a disk are not duplicated within a round; after it was mounted with
  other options it has the rows of both. `GaugesTellNode` allows the options that its first
  partition had in some round.
* *Unpaired quotes.* `withinQuotes` outlives a call, so a command line with an unpaired
  quote is split differently in every other round; `FeaturesTold` excepts such lines.
* *Configuration.* A file that is named by the flags of two daemons gets one of them, in the
  order of a Go map; a system stats monitor accepts any JSON object, collects nothing from
  it, and keeps the other daemon from being created. A concurrency of zero, a timeout of zero or less and a negative
  output length of a custom plugin pass its validation. A Stackdriver retry interval of
  zero stops the process, and a timeout shorter than the interval means to retry for ever,
  which `StartupEnds` excepts. A kubeconfig file in the API server override disregards the
  other overrides.
* *Windows service.* If `npdMain` returns by itself, `Execute` waits for the next stop
  request; an interrogation can report Running again after StopPending.

## What is proved

The proofs are for every value of the constants that satisfies the named assumptions
of the modules: any number of condition types, monitors, rules, devices, callers, lines,
failures and rotations, any capacities, limits, patterns and buffer sizes. Every
theorem about a specification has the same shape: an invariant that is inductive (`IInv`;
`ManagerInv` and `PluginInv` where two components share a module), a lemma that the
initial states satisfy it, lemmas that a step keeps each of its conjuncts, a theorem
`Invariance == Spec => []IInv`, and `XAlways == Spec => []X` (or `Spec => X` for an action
property) for each property `X` that a run checks.

| module | theorems | from |
| --- | --- | --- |
| `ReportingProofs` | `ManagerTypeCorrect`, `SyncedAlways`, `PunctualAlways`, `PatchCachesUIDAlways`, `NoFloodAlways`, `Refinement` | `ManagerAssumption`: periods and retries are positive numbers, the absent value is no value |
| | `StatusesInOrderAlways`, `ReturnedIsQuietAlways` | `ConstantsAssumption`: a channel has room, statuses are numbered modulo more than can be in flight |
| `CustomPluginProofs` | `PluginTypeCorrect`, `SlotsAccountedAlways`, `ClosedIsQuietAlways`, `NoOverlapAlways` | `PluginAssumption`: capacities are positive |
| | `DefaultsRestoredAlways`, `GaugeTellsConditionAlways`, `CountsRisingGaugesAlways`, `SettledAgreesAlways` | `ConstantsAssumption`, `NoneAssumption`: a channel has room for a status, counters do not wrap at once, the absent value is no value |
| `ScriptsProofs` | `StatusIsEarnedAlways`, `OutputIsWholeAlways`, `CoolDownRespectedAlways`, `BlamedForItsOwnLogAlways`, `CountIsNetAlways` | `RunAssumption`, `HealthAssumption`, `PlansAssumption`, `CounterAssumption`: pipes and buffers have room, ages are told apart beyond the cool-down, options and lines have their types |
| `LogBufferProofs` | `MatchIsCovered` | `BufferSizeAssumption`: the buffer has a line at least |
| `LogStateProofs` | `RestartsPacedAlways` | `EntriesAssumption`: messages have their types |
| `LogWatcherProofs` | `LinesInOrderAlways` | `EntriesAssumption` |
| `LogMonitorProofs` | `StatusesFollowLinesAlways`, `CountsEventsAlways`, `SettledExportAlways` | `RulesAssumption`: rules and conditions have their types; `BufferSizeAssumption` |
| `NodeMetricsProofs` | `IncreasesAddUpAlways`, `AverageIntervalAlways`, `LastReasonOnlyAlways` | `StatsAssumption`: the kernel's counters stay below half the range of their type; `ConfigsAssumption`, `ReportingAssumption`, `CallersAssumption`, `SumModulusAssumption`: types |

**ConditionManager.** `Synced` is not inductive: a successful patch puts `patch` on
the Node, so one must know that `patch` still is what the manager maintains
(`PatchIsTarget`: conditions only change in a turn that also syncs, since a turn
without an effective update changes nothing). `Punctual` needs `Timing`: inside
`SetConditions`, an empty ticker channel means that no time has passed since the
try was recorded, so an overdue period always finds a tick waiting.
`AttemptsLeft` keeps the retry counter from going below zero. The refinement
(`ManagerSpec => ImplementsReport`) maps every step to one of the abstract steps or a
stutter; it needs `PatchIsTarget` to see a patch as the publication of the whole
target.

**Plugin.** The invariant has a control part (groups run only after the
boot batch has drained, `Main` returns last, only a stop ends anything), a part
about batches (a worker belongs to a rule of its runner that the running batch
has already taken off its list), and the slots. `NoOverlap` follows because
groups have no rule in common and the boot batch excludes them all;
`ClosedIsQuiet` because a runner that has ended has no workers; `SlotsAccounted`
by following the set of holders through each step: one is added, removed,
replaced, or none changes.

**CustomPluginMonitor.** The properties speak of the moments between two
results; the invariant says what holds in the middle of one. `Handling` ties the
change in hand to the result it was made for. `Gauges` says which gauge is due and
that only the gauge of the last reason can be 1. `Rising` is what makes
`CountsRisingGauges`, an action property, follow in the step that counts. For
`SettledAgrees`, `Copies` follows the exporter's copy through a condition that is
being written, and `Events` finds the last event about each condition in the channel
or behind it.

**ProblemDetector.** `Order` is `StatusesInOrder` place by place: what the
forwarder holds follows what was exported, the channel continues from there, and the
monitor's next number comes after its end. `Goroutines` and `Progress` say which
goroutines exist in each phase of `Run`; `ReturnedIsQuiet` is what is left of them
at its end.

**Scripts.** The run, the health checker and the log counter have an invariant
each, and a step of one leaves the variables of the others alone. Run: a reader has
kept the first bytes of what left the pipe, and is done only when the pipe is empty
and no writer is left (`Output`); the process is reaped after both readers, and judged
after os/exec's goroutine has reported (`Waiting`). Health checker: what the service
logged before its start is at least as old as the start, and the check looks back no
further than that unless the service was started behind its back (`Dated`, `Cooled`).
Log counter: the ring holds the lines read (`Buffered`), so that `MatchIsCovered`
turns each `Match` into the reference, and the count of a set that grows by one
element follows.

**LogBuffer.** `MatchIsCovered` says of the pure algorithm that for every
buffer size, every sequence of pushed lines and every expression, `Match` returns the
lines that the leftmost match in the joined text covers. It is proved in three parts.
The ring read from its oldest slot is the window of the last lines (`RingHolds`, kept
by `Push`). The loop from the tail, which adds up lengths, stops at the line that
owns the first letter of the match: the length of the text of the first *n* lines and
the letters covered from the tail add up to the length of the text. An expression
that accepts no newline and has no start anchor, once anchored by `\z`, matches the
joined text exactly where it matches the last line. The prover cannot use induction
over an operator; sums and positions are recursive functions here, and each induction
is done over the set of the numbers where a claim fails, by its least member.

**LogWatcher.** `LinesInOrder` rests on the whole state of the watchers:
the pieces of a line lie in order within a generation of the file and from one
generation to the next (`FileOrder`); `Tail` opens a generation it has not read unless
the file was rotated again before it had noticed (`Tailed`, with the flag `hasty`);
what the watcher holds was read and is in order (`ReadInOrder`, `ReadWhole`); what was
delivered comes before it (`DeliveredInOrder`, `DeliveredWhole`). `RestartsPaced` needs
`Paced`: an attempt in this delay means that the last restart is recent or the loop
waits. The types of all this, and `Tail`'s place in the file, are `WatcherHolds`; they and
`Paced` are proved first, in `LogStateProofs`.

**LogMonitor.** The monitor's invariant relies on the watchers' for one thing only, that
they send logs (`LogTypes`, from `HoldsAlways` of `LogStateProofs`), so it is proved apart.
For `StatusesFollowLines`, `Reported` says how many rules of the last line have been told
of at each place of `parseLog`; `MatchIsCovered` gives the step. `CountsEvents` needs
`CountedEvents` and `GaugesTell`, which except the condition that is being set, and hold
if metrics are reported. `SettledExport` needs `Settled` at every place of the loop and of
a copy: when no status is on its way, what was already copied is exact, and so is the one
value that the copy under way can find; a write that could spoil them is made in a match
that has a status to follow.

**NodeMetrics.** Each collector records to its own views, which the lemmas
`...Elsewhere` say; so the rows of a metric change in the steps of one collector or in
those of the callers of the metrics manager. `SumInv`: a row tells what its collector
read last, modulo the range of the sum (`LastTold`), and the history knows no other rows
(`KnownRows`); a metric that is recorded has its tags (`Created`), or the measurement
would be refused. The increase of an unsigned counter, converted to a signed one, is the
difference of the two readings also when the counter went back (`SignedDifference`).
`ProblemInv`: the mutex is held exactly by a caller between its two records, no reason
but the one on record is set, none once it is cleared, and what was asked for last is
told or about to be. `Ages`: every
device that was measured is as old as the last sample or older, and those of the last
sample are as old.

Only model-checked:

* liveness (`Convergence`, `StopCompletes`, `EveryTickRuns`, `Delivered`, `RunReturns`,
  `HungServiceRepaired`, `WatcherStops`, `StartupEnds`, `ServiceStops`): fairness and
  ENABLED are out of the prover's reach;
* `GaugesTellNode`: it adds up rows with a fold of the community modules and counts
  quotes by parity, both inductions over data that the prover cannot do for an operator
  of a library;
* `RunsAsConfigured`: a case analysis over command lines and files, each chosen for one
  branch of the code; enumerating them says all there is to say.

## What is not modelled

* The engine of regular expressions (where an expression matches is a library's), and
  the file watcher's timestamp expression: an entry has a time or is not parsed.
* What libraries do with the operating system: parsing of `/proc`, the journal, inotify,
  OpenCensus' export. Their outcomes are inputs.
* The HTTP handlers and their answers, the conversions to API objects, and the parser of
  Prometheus text, which only the end-to-end tests use: they copy or parse, without state.
* Tables filled before `main` and only read afterwards: version, names of metrics,
  registration of plugins. A missing entry is a case of `Configuration`.
* Windows builds of the watchers, the collectors, the health checks and the process
  kill: stubs, or commands whose effect the code does not look at. The Windows service
  is modelled.
* Times of transitions and events, and the wording of messages.

`PROJECT.json` gives the status of every component and the hazards with the
properties that cover them.
