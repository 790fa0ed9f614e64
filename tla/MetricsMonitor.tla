--------------------------- MODULE MetricsMonitor ---------------------------
(***************************************************************************)
(* The debouncing of the metrics alarms (metrics_monitor.py): one alarm,   *)
(* fed by the conditions of several sources (cells, AMFs, DUs).  A report  *)
(* of a source is the severity of its breach, CLEARED when it is clean; a  *)
(* report without the field the condition needs changes nothing.  Alarms   *)
(* do not share conditions, and the monitor runs on the event loop alone,  *)
(* so one alarm, one report at a time, is the general case.                *)
(*                                                                         *)
(* recent and since only record the reports, for the properties.           *)
(***************************************************************************)
EXTENDS ReportWindow

CONSTANT Source

ASSUME SourceAssumption == Source # {}

VARIABLES
  cond,      \* _conditions of the alarm: severity, and the run that may shift it
  alarm,     \* the severity the registry was last told, 0 when cleared
  recent,    \* the latest reports of each source
  since      \* their number since its severity last changed

vars == <<cond, alarm, recent, since>>

\* No run reaches the length that ends it.
Condition == [severity : Severity, shifts : 0 .. Depth - 1, shift : Severity]

TypeOK ==
  /\ cond \in [Source -> Condition]
  /\ alarm \in Severity
  /\ recent \in [Source -> Window]
  /\ since \in [Source -> 0 .. Depth]

Init ==
  /\ cond = [s \in Source |-> [severity |-> 0, shifts |-> 0, shift |-> 0]]
  /\ alarm = 0
  /\ recent = [s \in Source |-> [i \in 1 .. Depth |-> 0]]
  /\ since = [s \in Source |-> 0]

-----------------------------------------------------------------------------
\* The run a report r of another severity than c's belongs to: it goes on
\* while the reports stay on one side of the severity, and keeps the closest
\* one to it.
Up(c, r) == r > c.severity

Runs(c, r) == c.shifts > 0 /\ (c.shift > c.severity) = Up(c, r)

\* Slip: the latest report is kept, not the closest.
ClosestLatest(c, r) == r

Closest(c, r) ==
  IF Runs(c, r) /\ (Up(c, r) = (c.shift < r)) THEN c.shift ELSE r

Shifts(c, r) == IF Runs(c, r) THEN c.shifts + 1 ELSE 1

Needed(c, r) == IF Up(c, r) THEN RaiseN ELSE ClearN

\* A report at the severity in force ends any run.
Confirm(s, r) ==
  /\ r = cond[s].severity
  /\ cond' = [cond EXCEPT ![s].shifts = 0]
  /\ since' = [since EXCEPT ![s] = Count(since[s])]
  /\ UNCHANGED alarm

\* The run is not long enough yet.
Shift(s, r) ==
  /\ r # cond[s].severity
  /\ Shifts(cond[s], r) < Needed(cond[s], r)
  /\ cond' = [cond EXCEPT ![s] =
       [severity |-> cond[s].severity, shifts |-> Shifts(cond[s], r), shift |-> Closest(cond[s], r)]]
  /\ since' = [since EXCEPT ![s] = Count(since[s])]
  /\ UNCHANGED alarm

\* Slip: the alarm is told of the condition that changed only.
SyncAlarmToLast(conditions) ==
  LET changed == {s \in Source : conditions[s] # cond[s]}
  IN alarm' \in {conditions[s].severity : s \in changed}

\* _sync_alarm: the highest severity of the conditions, or a clear.
SyncAlarm(conditions) ==
  /\ alarm' \in {conditions[s].severity : s \in Source}
  /\ \A s \in Source : conditions[s].severity <= alarm'

\* The run reaches the number its direction needs: the severity shifts.
Settle(s, r) ==
  /\ r # cond[s].severity
  /\ Shifts(cond[s], r) >= Needed(cond[s], r)
  /\ cond' = [cond EXCEPT ![s] =
       [severity |-> Closest(cond[s], r), shifts |-> 0, shift |-> Closest(cond[s], r)]]
  /\ SyncAlarm(cond')
  /\ since' = [since EXCEPT ![s] = 0]

Update(s, r) ==
  /\ recent' = [recent EXCEPT ![s] = Push(recent[s], r)]
  /\ Confirm(s, r) \/ Shift(s, r) \/ Settle(s, r)

Next == \E s \in Source, r \in Severity : Update(s, r)

Spec == Init /\ [][Next]_vars

-----------------------------------------------------------------------------
(***************************************************************************)
(* The alarm is raised while any condition is active, at the highest       *)
(* severity among them, although the registry is only told when some       *)
(* condition's debounced severity changes (_update, _sync_alarm).          *)
(***************************************************************************)
AlarmIsWorst ==
  /\ \A s \in Source : cond[s].severity <= alarm
  /\ \E s \in Source : cond[s].severity = alarm

(***************************************************************************)
(* Counting runs implements debouncing as the reports themselves define    *)
(* it (_update against Debounce).                                          *)
(***************************************************************************)
Reference == INSTANCE Debounce WITH level <- [s \in Source |-> cond[s].severity]
ImplementsDebounce == Reference!DebounceSpec
=============================================================================
