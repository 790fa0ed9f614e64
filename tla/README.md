# Verification of the O1 adapter

TLA+ specifications of the OCUDU O1 adapter (`src/src/*.py`), the TLC
configurations that check them on small instances, and theorems that TLAPS
proves for every value of the constants.  File and line references are to the
repository.  Section 1 is the inventory, 2 the plan, 3 to 5 say what is
modelled, checked and proved, 6 what is not, and 7 where code and documentation
disagree.

## 1. Inventory

The adapter is one Python process.  An asyncio event loop runs
`netconf_main`, `ws_handler`, the M-plane session, the metrics and PTP monitors
and the RU forwarder.  Beside it run the thread of the health endpoint and
worker threads (`asyncio.to_thread`) for whatever blocks: the cycle handlers of
an M-plane session and its notification handlers.

| Component | State it keeps | Operations | Talks to |
|---|---|---|---|
| Alarm registry (`alarm_manager.py`, `alarm_defs.py`), VES sender (`ves.py`) | definitions, one state per alarm, the sender's sequence number | `register`, `set_alarm`, `clear_alarm`; render and post | called by every other component from several threads; posts to the VES collector |
| M-plane session (`mplane_session.py`) | command and notification session, call-home listener, `ru_mplane_state`, starvation deadline, keepalive time, two alarm flags | `run`: connect (dial twice, or accept a call-home), subscribe, reset the watchdog, run cycle handlers fed, listen, tear down, retry | the O-RU; alarms 1003 and 1004; cycle handlers and notification handlers |
| Metrics alarms (`metrics_monitor.py`) | per condition: debounced severity and the run that may shift it; per cumulative counter: last counts and window | `handle_metrics` of a report, `_update`, `_sync_alarm`, `_check_failures` | fed by the WebSocket's metrics; alarm registry |
| Fault bridge (`ru_fm_bridge.py`, `fm_parsers.py`) | `_reports`, `_known_faults` | `reconcile` once per connect cycle, `handle_notification` | the O-RU's active-alarm-list and alarm-notifs; alarm registry |
| Configuration management (`o1_adapter.py`, `config_manager.py`, `remote_commands.py`, `state.py`) | `last_config`, `pm_jobs`, the config file, `ws_send_queue`, `restart_req`, alarms 1001 and 1002 | `netconf_main`, `ConfigManager.run`, `_full_restart`, `write_full_config`, `ws_handler`, `/config-healthy`, `/restarted` | the NETCONF datastore; the gNB by file and WebSocket; whoever restarts it |
| Rendering (`netconf_to_yaml.py`, `ofh_config_builder.py`) | none | one tree into another | configuration management, RU forwarder |
| RU forwarder (`ru_forwarder.py`) | `ru_update_queue`, the flag `ru_nc_connected` | once: copy the O-RU's configuration into the source; then connect, take the latest update, merge it into the O-RU | configuration management; the O-RU; alarm 1003 without supervision |
| RU provisioner (`ru_provisioner.py`, `ru_config.py`) | the profile; the state is the O-RU's | `provision`: find the interface, write piece by piece, wait for synchronisation, activate carriers, read them back | a cycle handler of the M-plane session |
| PTP monitor (`ptp_monitor.py`) | statistics, consecutive counts, alarms | a log line to a snapshot to alarms | the log of ptp4l and phc2sys; alarm registry |
| PM files and streams (`pm_files.py`, `pm_metrics.py`) | jobs, granularity periods, files | `handle_ws_message`, `handle_ru_metrics`, `add_samples`; `run` closes periods and files and publishes | metrics reports; VES `notifyFileReady` |
| RU PM bridge (`ru_pm_bridge.py`) | `pm_config`, the set it converged on | `configure`, notifications to samples | a cycle and notification handler of the session |
| Command-line client (`ru_controller.py`) | none | one-shot reads and writes; `--supervise` | the O-RU |
| YAML to NETCONF (`yaml_to_netconf.py`) | none | an offline command | |
| Helpers (`rpc_log.py`, `ssh_algorithms.py`, `xml_utils.py`) | none | logging, algorithm lists, XML | NETCONF clients |

What is hard in each, and what makes it correct:

- **Alarm registry.**  The change is made under a lock, the event is completed,
  numbered and posted without it, and a post may fail.  Alarm 1003 may have two
  callers at once.  Correct: the collector's last event of an alarm tells the
  registry's status, unless one is on its way, was lost or overlapped another of
  that alarm; events of an alarm that do not overlap follow on from one another.
- **M-plane session.**  A dozen awaits, each of which may fail, be refused, time
  out or find a stop requested; handlers block on a thread while a watchdog in
  the O-RU runs; the O-RU's clock cannot be trusted.  Correct: phase and alarms
  agree; the deadline is neither shrunk nor stretched by the O-RU; the O-RU is
  fed; nothing outlives its cycle; a stop is honoured; a silent O-RU is noticed;
  the session recovers.
- **Metrics alarms.**  Runs of mixed severities, several sources of one alarm,
  counters that start over, older gNBs that do not count failures.  Correct: the
  alarm is the worst debounced severity, and no failure is judged that did not
  happen or is lost with a report, up to the attempts in flight that an older
  gNB's counts cannot tell from failures.
- **Fault bridge.**  Sources come and go, a list is read that is newer than the
  notifications queued before it, some ends are not announced, sweeps may meet a
  dead session.  Correct: the alarm aggregates the mirrored reports, and the
  mirror catches up with the O-RU.
- **Configuration management.**  Two sessions, a file, a queue that is emptied on
  reconnecting and a flag that an outsider resets, with a wait of up to 30 s in
  the middle; an exception of any task ends the process, and one of the worker
  may leave commands queued and the file as it was.  Correct: the file follows
  the datastore; the gNB is on the file or flagged for a restart, but for three
  named ways, and goes back only when it starts from a file that lacks what was
  read last.
- **RU forwarder.**  Only the latest update is kept, a failed forward is dropped
  with some of it applied, the bootstrap runs beside the forwarder and both write
  alarm 1003; the source is first read before the worker subscribes.  Correct: the
  newest update is never overlooked, the O-RU never goes back and catches up
  unless an edit failed, a reboot lost it or the worker did not hear of the change,
  and what the source adopted stays.
- **RU provisioner, RU PM bridge.**  Sequences of edits that are rejected, not
  answered, or cut by a reboot, started over every cycle; waits with a bound; an
  all-or-nothing edit that is tried again with less.  Correct: no edit refers to
  what is not there, carriers are only active over a complete configuration,
  every cycle's handlers end, what was refused is not asked for again, and a calm
  cycle repairs whatever came before.
- **PTP monitor.**  Snapshots repeat statistics of earlier lines.  Correct: no
  excursion is missed, and both alarms are debounced.
- **PM files.**  Periods and files on wall-clock boundaries, jobs that come, go and
  change, reports that arrive while a file is published.  Correct: every accepted
  report in one period of one file, and published in the end.

`PROJECT.json` lists the hazards one by one, at their lines, with the properties
that would catch each.

## 2. Plan

Modelled, in this order: `AlarmManager` (every alarm passes it), `MplaneSession`,
`MetricsMonitor` and `FailureRatio`, `RuFaultBridge`, `ConfigSync`,
`RuProvisioner` and `RuPmBridge` with their composition `RuCycle`, `RuForwarder`,
`PtpMonitor`, `PmFiles`, and `FailureAlarm`, which composes the two halves of the
metrics monitor.  Proved: the safety properties of all of them.  Open: the TDD
switching points of `ofh_config_builder.py` as recursive functions against a
reference definition.

How the modules depend on one another:

    AlarmManager    --INSTANCE--> AlarmFeed       what the registry promises northbound
    MplaneSession   --INSTANCE--> RuSupervision   what phase and alarms promise
    MetricsMonitor  --INSTANCE--> Debounce        debouncing told from the reports
      both EXTEND ReportWindow
    FailureAlarm    EXTENDS MetricsMonitor, FailureRatio
    PtpMonitor      --INSTANCE--> Debounce, twice  its two alarms
    RuCycle         EXTENDS RuProvisioner, --INSTANCE--> RuPmBridge
    RuFaultBridge, ConfigSync, RuForwarder, PmFiles   on their own

Components meet at narrow interfaces, and each module models the other side of
its own by all that side may do.  `AlarmManager` lets its callers set and clear
in any order, and `MplaneSession`, `MetricsMonitor` and `RuFaultBridge` hold the
alarms they own as the registry holds them, which `AlarmManager` shows to reach
the collector.  `MplaneSession` shows that cycle handlers and notification
handlers do not overlap with another cycle's, which `RuFaultBridge` assumes:
list read, sweep, then notifications one by one.  The session of `RuFaultBridge`
is the one of `MplaneSession` with its awaits folded into "reading", "sweeping"
and "listening", and in `RuCycle` into "down" and the handlers' own steps, whose
requests are answered, rejected or not answered as the exchanges of
`MplaneSession` are.  `RuForwarder` takes of `ConfigSync` the reads and writes of
`write_full_config` and the worker's subscription, and nothing else of the DU's
side.

## 3. The modules

**AlarmFeed, AlarmManager.**  A task is a thread of control that calls the
manager; `Callers` gives every alarm the tasks that do so.  Most have one: the event
loop, or the worker thread of their bridge.  Alarm 1003 has more with `--ru_forward`
and without supervision: `try_connect` clears it, on the worker thread of the
bootstrap and on that of the forwarder, and `RuForwarder.run` sets it on the event
loop; so `Callers` is any set, and nothing orders the emissions.  The ghosts
`company` and `raced` note which events overlapped another of their alarm.
`SetAlarm`, `ClearAlarm` and `Register` are the critical sections with
their early returns (a call that changes nothing emits nothing), `EmitEvent` is
`_emit_event` after the lock is released, where a clear reads its trend from the
registry entry, `Render` is `send_alarm` building the message with
`VesMessages.sequence`, and `Deliver` and `Lose` are `_send_ves_message`, which
steps the number and posts.  Message and details are one `Note`, because the
code only compares and forwards them.  `AlarmFeed` is the promise, per caller: a
change makes it owe one report, which tells the status of that change and is
eventually handed over or dropped.  It promises no order between callers.

**RuSupervision, MplaneSession.**  `run()` and what it awaits are one thread;
`pc` names the await, and what happens between two awaits is one step.  The
worker thread of the cycle handlers, the O-RU, the network, the operator and the
clock are separate.  Time is in ticks that pass only while `run()` is suspended;
`timer` bounds the await, `left` is the starvation deadline, `ka` the next
keepalive, `silence` counts what the deadline ought to be about, since the O-RU last
answered, and `unfed` the time since its watchdog was last fed: a rejected reset
ends the silence and does not feed.  The link of a
session is none, up or down; in call-home both are one.  `CycleHandlers` and
`CallHome` select the two configurations of the code; `EndlessOther` lets the
O-RU send unrelated notifications for ever.  `calm` and `mute` are choices of the
environment: from now on nothing goes wrong, from now on no supervision
notification.  They exist for the liveness properties and restrict nothing
before they are chosen.

**ReportWindow, Debounce, MetricsMonitor.**  One alarm and the conditions of its
sources; alarms share no condition and the monitor runs on the event loop alone,
so one alarm, a report at a time, is the general case.  `Confirm`, `Shift` and
`Settle` are the three outcomes of `_update`, the last with `_sync_alarm`.
`Debounce` says the same from the last reports alone.  **FailureRatio** is
`_check_failures` with `_CumulativeFailures`: the gNB counts from its start, any
report may be lost, and a restart shows only when the attempts went down.  The gNB
either reports its failures, or is `older` and reports successes, of which the
monitor makes failures by the attempts left (`Told`), those in flight included; that
count goes down when an attempt succeeds.  The module carries what really happened
(`atts`, `tried`, `fails`, and `inFlight` at the baseline) beside what was judged.
**FailureAlarm** makes a judged window a report of one source of the alarm, beside
sources that report what they like: that is what `_check_resource_usage` to
`_check_ue_capacity` come to.

**RuFaultBridge.**  `oru` is the truth, `reports` the mirror, `registry` the
alarms, `queue` what the session has not yet taken.  `ReadList` is the read of the
active-alarm-list, residual entries of cleared faults included; `SweepRaise` and
`SweepClear` are the two loops of `reconcile`, alarm by alarm, in the order of
the fault ids; `HandleNotification` is `handle_notification` with `_apply`.

**ConfigSync.**  A configuration is three version numbers: what needs a restart
(`static`), what the gNB takes at run time, and the active PerfMetricJobs.
`netconf_main` is `main`, the worker `worker`, with the await of `_full_restart`
("waiting") and the blocking refetch after it ("writing"), during which nothing
else runs on the event loop (`LoopFree`).  An exception that reaches
`asyncio.gather` is `Crash`.  `Commanded` and `Read` are what `update_runtime_config`
and the first half of `write_full_config` queue and store before rendering:
`UpdateRaises` and `RefetchRaises` are exceptions after any of it, which end the
worker, and `unwritten` says that what was read last did not get to the file.
`excuse` records the ways in which a gNB on an old
configuration goes unflagged (see `StaleGnbIsFlagged`).

**RuProvisioner, RuPmBridge, RuCycle.**  One connect cycle is `Connect`, the steps
of `provision`, those of `configure`, and `Lost`.  A piece is what one edit writes;
`After` is the order of `set_full_config`, `Gated` pieces ask the yang-library
first.  A request is applied and answered (`Edit`), rejected (`EditRejected`: the
handler ends, the session lives on) or not answered (`EditUnanswered`: it may have
been applied, the cycle ends).  `Dangles` is the O-RU's own rule, that a reference
must have a target.  Under sudo the processing element is bound to the interface
the profile names, or to `uc-vlan<vlan>` (`ResolveOwn`), while only the latter is
created: a profile that names another is `Unmet`.  `oru`, `interfaces` and `active`
are the O-RU's datastore, `locked` and `ready` its state, `Reboot` empties all of it;
`CarriersFault` is the O-RU taking its carriers down by itself.  `calm` is a choice of
the environment, as in `MplaneSession`.  In `RuPmBridge` the steps after `Start`
are the two reads of `configure` and the loop of `configure_perf_measurement`;
`Takes` says what the O-RU can measure, and `Drop` is what the code makes of an
rpc-error that names objects.  `RuCycle` runs one handler after the other and
hands reboots and lost links to both.

**RuForwarder.**  `main` is `netconf_main` with the bootstrap
(`sync_source_netconf_from_ru`), `fw` is `RuForwarder.run`; their awaits
interleave.  A configuration is a version for each top-level element that is
forwarded; edits merge, and one that fails may have been applied in part
(`PartlyMerged`).  `Serve` is the first `write_full_config`, before the worker runs;
`Subscribe` comes after it and may be refused (the worker is then "deaf") or raise
("dead"), as may the handling of a change.  The operator commits, either session
drops, the O-RU reboots with a configuration of its own, the adapter restarts and
bootstraps again.

**PtpMonitor.**  A line and the snapshot it makes are one step: the queue between
reader and consumer never holds two.  `statsLines` is what the statistics lines
said, the two report windows what the snapshots said.

**PmFiles.**  `run` is a loop of rounds (`StartRound`, `Close` for every job,
`EndRound`) on the event loop; reports and job changes come only while it sleeps
or while a thread publishes.  `at`, `accepted` and `dropped` follow the reports.

`PROJECT.json` maps every definition to the lines it models.

## 4. The runs

TLC explores the state space of each run completely.  The module `MCx` gives `x`
its small sets.

| Run | Instance | Shows |
|---|---|---|
| `alarm_manager` | two tasks, an alarm of the definitions that both call about and one that one of them registers at run time, one severity, a message or none, 3 events | but for events that overlapped another of their alarm: the collector agrees with the registry, clears tell their own trend, events follow on; and in every case `AlarmFeed` is implemented, its liveness included |
| `mplane_session` | dialled pair with cycle handlers; interval 2, guard 1, exchanges of up to 2 ticks, promises past, short, in range and too far ahead, 2 queued notifications | phase and alarms agree; the deadline is honest; the O-RU is asked for a reset in time while handlers run, and goes unfed for longer only when it rejects one; no handler or session outlives its cycle; `RuSupervision` is implemented |
| `mplane_live` | call-home with cycle handlers, exchanges of one tick, 1 queued notification, unrelated ones without end, with fairness | a stop is honoured and the listener released, recovery, silence noticed unless another notification waits at every deadline |
| `mplane_rejected` | dialled pair; a violation | SUPERVISED after a rejected reset |
| `metrics` | a ratio of one cause, of a gNB that reports failures or an older one, windows of 2 attempts, one unnoticed restart, beside a second source; 2 reports to raise, 2 to clear | no phantom failures, nothing lost with a report, up to what an older gNB has in flight; counting runs is debouncing; the alarm is the worst condition |
| `fault_sources` | one fault, two sources, three severities with WARNING, 3 queued notifications | alarms aggregate the reports; the mirror catches up |
| `config_sync` | 3 changes, one of them of jobs, the second restart-relevant value not renderable | the file follows the datastore; snapshots are asked for; a stale gNB is flagged but for three named ways; the gNB goes back only when it starts from a file that lacks what was read last |
| `ru_cycle` | six profiles (both roles, more and fewer endpoints, inactive, with an interface of their own, without upload or binding), five measurement sections, one read per wait | references, activation and repair over cycles; the measurement configuration converges, remembers and ends |
| `ru_forward` | two elements, 2 commits, one drop on either side, one reboot, one restart | the newest update is not overlooked; the O-RU never goes back, and catches up with what the worker heard of; the bootstrap and the alarm |
| `ptp` | 3 lines to raise, 3 to clear, any lines | both alarms are debounced; no excursion is missed |
| `ptp_late` | the same; a violation | one bad statistics line counts three times |
| `pm_files` | two jobs, periods 1/2 and 2/4, 4 seconds, 2 reports, one change | every accepted report in one period of one file; files tile; all is published |

**Why the bounds are enough.** *Alarms:* a caller's events are sequential, so
two callers of one alarm show every overlap of two events, and a third event
lets a lost or a lone one lie between; two tasks race for the number. *Session:*
an interval of 2 and a guard of 1 keep poll, feed period, budget and twice the
budget apart; an exchange can be shorter than, equal to or longer than a feed
period; two queued notifications put one of each kind in either order. Cycles
repeat without bound, since nothing counts them. `silence` is counted up to
`SilenceCap`, above all that is compared with it. *Metrics:* a run of two can be
mixed, cut short or shifted, and three severities put it on either side of the
middle one; with two attempts a lifetime a window fills in one report or over
two, a failure may follow its attempt by a report, and a restarted count may
reach the last one; causes are counted apart and only their sum is judged, so
one shows all that can go wrong with a count (the proofs have any number).
*Faults:* faults are independent but for the order of the sweep, which no
property depends on (the proofs have any number of them); two sources suffice
for worst-of-others and three queued notifications for clear, raise, clear.
*Configuration:* two changes suffice for a change during the handling of another
and for a file that lags behind an unrenderable value, and a third follows a
worker that failed over one; the WebSocket queue needs no bound of its own,
since changes bound what is put into it. *Cycles:* they repeat without bound;
one poll tells a wait that ends early from one that gives up; three receive and
four PRACH endpoints make the pairs that `PrachCarrier` has to fold.
*Forwarder:* two elements make an edit that is applied in part, two commits an
update that is overtaken by the next, one drop, one reboot and one restart fall
between any two steps. *PTP:* 3 is the smallest number at which one statistics
line, counted for others, differs from two. *PM files:* a file of two periods,
another job whose round comes after a publication of two seconds.

Deadlock is checked but where the system may stop: in `alarm_manager`, where
`MaxSeq` stops the tasks, in `ru_cycle` and `ru_forward`, where everything may be
done, and in `pm_files`, where the clock ends.  `MplaneSession` ends in `Stopped`,
a step of its own.

**Fairness.**  `AlarmManager`: an emission that has begun ends, because the post
has a timeout.  `MplaneSession`: the event loop runs what is ready
(`SessionStep`, which includes an exchange being answered or timing out), time
passes (`Tick`), cycle handlers return (`HandlersFinish`; each of their
exchanges has a reply deadline).  Of the environment only this is assumed, and
only once it has become `calm`: an O-RU that is not mute keeps sending
supervision notifications, and dials in to a listener.  Stop requests, drops,
answers and their contents are never fair.  The registered notification handlers
are assumed to return: `DispatchDone` is part of `SessionStep`.
`RuCycle`: the handlers' thread and the session go on, as each request has a reply
deadline; the O-RU owes nothing, and `Heals` speaks of cycles that begin when it
is calm.  `RuForwarder`: both tasks go on (weak fairness); an O-RU that is tried
again and again is reached, and an update is taken from a session that is there
again and again (strong fairness of `Connect` and `Take`): drops are bounded, so
this asks for no more than an O-RU that is up in the end.  `PmFiles`: time passes
and the loop goes on.

Every property of a passing run has a mutant in `PROJECT.json`: a slip
somebody could make in the code (the operators marked "Slip" in the modules),
which TLC finds to break the property.

## 5. The proofs

A module `x_proofs` holds the theorems about `x`: there is one each for
`AlarmManager`, `MplaneSession`, `RuFaultBridge`, `RuForwarder`, `PtpMonitor`,
`ConfigSync` and `RuCycle` (with both of its handlers).  `Metrics_proofs` is about
what is made of metric reports: `FailureAlarm` (with both halves of the metrics
monitor) and `PmFiles`.
The assumptions are the `ASSUME`s of the modules: for
instance that the callers of an alarm are tasks, that timers are natural numbers and
those that must not be are not zero, that severities are numbers.  There is no
bound on tasks, alarms, sources, faults, changes, drops, endpoints, objects, jobs,
reports, queue lengths or timers.  In each module
one lemma shows that `Init` implies `IInv`, one (or one per conjunct) that a step
preserves it, a case per action, and together they give `Spec => []IInv`, from
which the theorems follow.

- **AlarmManager.**  `IInv` adds to `TypeOK`: `InFlightMatches` (the event of a task
  that had no company is the only one of its alarm under way and tells what the
  registry holds of it, `EventMatches`) and `NumbersUsed` (every number the collector
  has seen is below `sequence`), and the two invariants `NorthAgreesWithRegistry` and
  `ClearTellsItsOwnTrend`.  `InFlightMatches` is why they are inductive for any
  callers: whoever changes an alarm while an event of it is under way gives that
  event company.  From `IInv` follow `EventsFollowOn` and the safety part of
  `AlarmFeed`, which needs no word about company, because a caller's debt is its own.
- **MplaneSession.**  `IInv` adds `PhaseMatchesPc`, `SessionsMatchPc` and
  `HandlersMatchPc` (which phase, links and handler states each await allows) and
  `FeedInTime` (what is left of the period or the exchange bounds the silence, and the
  hunger of the watchdog unless the last reset was rejected);
  `DeadlineHonest` is inductive as it stands.  They give `AlarmsMatchPhase`,
  `DeadlineHonest`, `FedWhileHandling`, `HandlersDoneBeforeTeardown`,
  `NoSessionOutlivesCycle`, `NoConnectionAlarmOnStop` and that the session
  implements `RuSupervision`, for all timers, promises and both ways to connect.
- **FailureAlarm.**  `IInv` adds `RunOf`: the run a condition counts is the one
  its last reports show, with the closest of them.  It gives the refinement of
  `Debounce` for any numbers of reports and severities, and `AlarmIsWorst`; a step
  of the composition is a step of the monitor alone or leaves it as it is, so both
  hold there, too.  The ratio's own invariant adds to its type
  `LostReportsLoseNothing` (judged, gathered and unreported counts make up all) and
  `Ledger`: what was judged, what the window holds and what the next report would
  add are no more than happened.  What it would add is the rise of a count, or the
  whole count when the attempts went down; that a restart may go unnoticed is why
  it is an inequality, and why it implies `NoPhantomFailures`.  For an older gNB what
  happened are the attempts made (`tried`) instead of the failures.
- **PmFiles.**  Lemmas about `NextBoundary` come first: it is ahead by no more than a
  period, no boundary lies between, and a period ends within its file because the
  file's length is a multiple of the period's.  The invariant `FilesIInv` adds
  `Collecting` (what a job collects is on its boundaries, `InGrid`, and not sampled
  before its period, `Sampled`), `Made` (every file was due when it was made, and what
  is collected follows on it), which is why `FilesTile` survives a job that starts
  over, `Came` (what is anywhere has come) and `OnePlace`, which is `OneFile` without
  the count.  `OnePlace` is inductive because each of the code's moves is: lemmas
  follow a report from the buffer to its period (`WherePeriodClosed`), from there to
  its file (`WhereFileClosed`) and out with its job (`WhereDropped`).
- **RuFaultBridge.**  `IInv` adds `CycleStarts` (a closed session has an empty
  queue, one that reads has not synchronised yet), `SweepLeft` (only a sweep has
  faults left, reported ones to set and unreported ones to clear), `LastTells` (the
  last queued notification of a source tells what the O-RU reports, warnings' ends
  apart),
  `MirrorCatchesUp` and `RegistryMirrorsReports`.  `LastTells` is why catching up
  is inductive although the queue is older than the list: whatever old
  notifications do in between, the last one restores the truth.

- **RuForwarder.**  `IInv` adds `SyncFirst` (nothing is queued before the bootstrap
  is over), `HandIsLast`, `CopyFaithful` (what the bootstrap copied is in every
  update), `Committed` (no version is newer than the last commit) and `InOrder`:
  the O-RU, the copy the bootstrap read, the update in hand, the one that waits and
  the source are ordered, element by element.  `InOrder` is what makes
  `RuNeverGoesBack` hold for an edit that is applied in part, for a bootstrap over
  a newer source and for an O-RU that reboots between two steps of either.
- **PtpMonitor.**  `IInv` adds `MasterRun` and `LateRun` (each count is the length of
  the run its snapshots show) and `LinesCounted`: a run of statistics lines is never
  longer than the count, because snapshots of other lines only repeat the latest
  statistics.  From the first two the refinement of `Debounce` by both alarms, from
  the third `ExcursionSeen`.
- **ConfigSync.**  `IInv` adds `Behind` (gNB, file and datastore follow one another,
  part by part, but that the gNB may have been commanded beyond the file, up to
  `Limit`, while what was read last did not get there), `Rendered` (a worker that
  has not failed has written what it read, where that can be rendered), `Seen` (a
  worker with no notification left has read the datastore) and `Queued` (pending
  commands lead, in order, from what the gNB runs no further than `Limit`).
  `Limit` is why `GnbNeverGoesBack` needs its exception and no more than that.  A
  step has one of a few effects on these, and most have none (`Quiet`).
  `StaleGnbIsFlagged` is model-checked only.
- **RuCycle.** `Rank` is the order of `set_full_config`. `IInv` adds `Progress`
  (on the connection the cycle began with, every piece that was dealt with is in
  the O-RU) and `BoundThere` (the interface the processing element refers to is
  there, or the edit that creates it comes first, or the profile is `Unmet`).
  They speak of a living connection alone, because a reboot drops it: that is
  why an empty datastore is never built upon. Every step is of one of a few
  kinds (`Path`, `Carriers`). From this follow `NoDanglingEdit`, with a lemma
  that `PrachCarrier` stays within the carriers for any number of endpoints, and
  `ActiveOverComplete`; the measurement handler does no more to them than end
  the connection. For `RefusalsKept`, `PmIInv` adds `Tried` (what is tried is
  what was requested, or what was requested with the default put in, without
  what was refused in this cycle) and `Remembered` (once something was learned,
  the kept set names every group and nothing that was refused). `Staged` says
  that the objects to activate are among those written, as no connection
  outlives a reboot. The exception `DefaultsRefused` was found by this proof:
  without it, the step where the kept set equals the request fails, and TLC
  reaches the state (section 7).

Only model-checked: `StaleGnbIsFlagged`, and all liveness (`StopHonoured`,
`RecoversWhenCalm`, `SilenceDetected`, `HandlersEnd`, `Heals`, `CatchesUp`,
`AllPublished`, the fair part of `AlarmFeed`), which the prover cannot do
without `ENABLED`. The type invariants are theorems, so no run repeats them.

## 6. What is not modelled

- Whole components: rendering, XML and YAML conversion, templates, algorithm
  lists, logging and argument parsing are stateless; `ru_controller.py` is one-shot
  commands over `ru_config.py`, and its supervise loop a reset and a sleep.
- **Alarm registry:** queries, the definitions' texts, pnfRegistration and
  notifyFileReady events, acknowledgement of a post beyond delivered or lost.
- **Session:** the reconnection of a command session that the O-RU has reaped,
  inside an exchange; a notification handler that never returns.
- **Metrics:** the reading of single fields of a report; sources that vanish; a gNB
  that is upgraded, from one that reports successes to one that reports failures, while
  it is watched.
- **Faults:** leaves other than source and severity, event times, XML.  A notifier
  that fails has no step: the code contains it after registry and bookkeeping
  have changed, and what that costs northbound is `AlarmManager`'s `Lose`.
- **Configuration:** startup options.  A runtime command that is lost is lost in
  the model too; the code promises nothing about it.  A write of the config file
  that fails halfway (it is truncated first) is taken as one that left the old file.
- **Forwarder:** the alarm's way north, which is `AlarmManager`'s.
- **Provisioning:** the leaves of an edit but for its references; the checks of a
  profile, of which only valid ones are modelled; dry runs; `get_full_config` and
  the writes of the command-line client.
- **Measurements:** intervals and units; the notifications of results, which are
  handed to the event loop as reports of `PmFiles`; pushes to stream targets,
  which are not repeated; the retention of files.
- **PTP:** log rotation, and lines that are read in two parts, which match nothing.
  The numbers of lines to raise and to clear are any positive ones; the program does
  not validate its parameters.
- **PM files:** a wall clock that is set back.  It is assumed to go forward, and a
  file's period to be a multiple of its job's granularity, as the SMO is to configure
  it.

## 7. Where code and documentation disagree

With a run that shows it:

- `mplane_rejected` (`SupervisedMeansFed`): the flag of the reset after the handlers
  is dropped (`mplane_session.py:266`), and a rejected reset in the listen loop
  leaves the phase, contrary to the module's text at 51-54 and 34.
- `ptp_late` (`LateMeansConsecutive`): the consumer counts the statistics of every
  snapshot (`ptp_monitor.py:204`), also of those put for other lines, contrary to
  the docstring at 166, "for N consecutive stats snapshots".  `ExcursionSeen` says
  what remains true.

Stated in the modules and refuted by TLC when put into the named configuration
as an `INVARIANT` or `PROPERTY`:

- `OneNumberPerEvent` (`MCAlarmManager`): two threads may render two events with
  one sequence number (`ves.py:150-159` against the stepping at 247), contrary to
  the comment at `ves.py:245-246`.
- `SilenceAlwaysDetected` (`MCMplaneLive`): with a notification waiting whenever the
  deadline has passed, the look at the queue never finds it empty
  (`mplane_session.py:326-334`), so unrelated notifications do feed the budget, for as
  long as they keep coming, contrary to the docstring at 302-303.  `SilenceDetected`
  says what remains true.
- `StaysActiveWhileReported` (`MCRuFaultBridge`): a queued clear older than the list
  ends an alarm whose fault the O-RU reports (`ru_fm_bridge.py:89`), contrary to
  `docs/mplane-service.md:259`.  It ends well: `MirrorCatchesUp`.
- `RestartBringsTheChange` (`MCConfigSync`): the unhealthy status precedes the file
  by up to 30 s (`config_manager.py:135-143`), and a restart in between is answered
  by `/restarted`, which leaves the old configuration running under a healthy
  status, contrary to the README's procedure (lines 42 to 46).
- `ActiveMeansBound` (`MCRuCycle`): the feature read before the TDD binding is not
  strict (`ru_config.py:635-646`), so one that fails is taken for an O-RU without
  the feature, and the carriers are activated with an uploaded pattern that is not
  bound to them, contrary to the docstring at 660-662.
- `AllAdvertisedRequested` (`MCRuCycle`): the set the client converged on replaces
  the groups a profile does not name (`ru_pm_bridge.py:314-316`), so objects that
  were not known in the cycle of a refusal are never asked for later, contrary to
  the docstring of `requested_pm_config` (205, "all of them when pm_config names
  none for the group").
- `NeverAskedAgain` (`MCRuCycle`): where the profile leaves the receive window to its
  default, the O-RU exposes no capabilities and refuses all of the default,
  what is left equals the request and is not kept (`ru_pm_bridge.py:315`), so the
  defaults are asked for and refused again in every cycle, contrary to
  `docs/mplane-service.md:358`, "so the rejections happen once per process".
  `RefusalsKept` says what remains true.

Exceptions that the properties name, each of which TLC reaches when it is left out:

- `raced`, in the properties of `AlarmManager`: two callers of one alarm may send
  their events in the other order than they changed it, and the collector keeps the
  older status until the alarm changes again; `alarm_manager.py:106-110` calls the
  manager thread-safe, which holds of the registry and not of what it reports.  With
  `--ru_forward` that is alarm 1003.
- `answer = "rejected"`, in `FedWhileHandling`: a handler goes on for as long as it
  takes under rejected resets (`mplane_session.py:711-716`), although none of them fed
  the O-RU's watchdog.
- `stray`, in `NoSessionOutlivesCycle`: the transport of a call-home peer that was
  refused and did not answer the close-session stays open
  (`mplane_session.py:423-430`).
- `older`, in `NoPhantomFailures` and `LostReportsLoseNothing`: for a gNB that reports
  no failures, attempts in flight are judged as failures, the later success does not
  take them back, and those in flight at the baseline may hide as many real failures
  (`metrics_monitor.py:310-314`).
- `unwritten`, in `GnbNeverGoesBack`: a runtime command is queued before the
  configuration is written (`config_manager.py:117-118`); when it cannot be rendered, or
  an exception ends the worker in between, the gNB takes the value and loses it when
  it next starts.
- `unseen`, in `FileFollowsDatastore`, and `Unheard`, in `CatchesUp`: a commit between
  the first read (`o1_adapter.py:193`) and the subscription (`config_manager.py:362`) is
  not seen before the next one; nor is any after a subscription that was refused, or
  by a worker that failed, whose exception is kept until the session drops.
- `Unmet`, in `NoDanglingEdit` and `Heals`: the docstring at `ru_provisioner.py:136-137`
  says that sudo creates "uc-vlan<vlan> from the interface section, or
  processing.interface_name", but only the former is created
  (`templates/mplane/ietf_interfaces.xml`), and the processing element refers to the
  latter (`oran_processing_elements.xml:13`): it is rejected in every cycle.
- `step = "down"`, in `Heals`: carriers that the O-RU took down by itself stay down
  until the next connect cycle begins, as `docs/mplane-service.md:420-424` says.
