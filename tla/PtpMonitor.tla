----------------------------- MODULE PtpMonitor -----------------------------
(***************************************************************************)
(* The PTP monitor (ptp_monitor.py): a reader tails the log of ptp4l and   *)
(* phc2sys and puts a snapshot in a queue for every line it recognises; a  *)
(* consumer counts snapshots and holds two alarms.  A snapshot is a        *)
(* reference to the reader's rolling state.  The queue never holds two:    *)
(* the consumer's wake-up is scheduled by the put, before the reader asks  *)
(* the executor for its next line.  So a line and its check are one step.  *)
(* A line read in two parts matches no expression and takes no step.       *)
(*                                                                         *)
(* A statistics line is 1 when its max exceeds max_latency, else 0.  The   *)
(* windows record what was reported, for the properties.                   *)
(***************************************************************************)
EXTENDS Integers

CONSTANTS LateN,         \* max_consecutive
          MasterClearN   \* master_clear_consecutive

ASSUME PtpAssumption == LateN \in Nat \ {0} /\ MasterClearN \in Nat \ {0}

VARIABLES
  source,        \* ptp4l_state["best_master_source"]
  stats,         \* ptp4l_state["stats"], -1 for None
  master,        \* master_alarm_active, as a severity
  confirms,      \* master_clear_confirms
  late,          \* max_latency_alarm_active, as a severity
  exceeds,       \* max_exceed_count, no further than any decision looks
  masterReports, masterSince,   \* best master of each snapshot
  lateReports, lateSince,       \* statistics of each snapshot that has some
  statsLines                    \* statistics of each statistics line

state == <<source, stats>>
masterAlarm == <<master, confirms, masterReports, masterSince>>
lateAlarm == <<late, exceeds, lateReports, lateSince>>
vars == <<state, masterAlarm, lateAlarm, statsLines>>

Verdict == {0, 1}

MasterWindow == INSTANCE ReportWindow WITH Severity <- Verdict, RaiseN <- 1, ClearN <- MasterClearN
LateWindow == INSTANCE ReportWindow WITH Severity <- Verdict, RaiseN <- LateN, ClearN <- 1

\* Neither count survives the alarm it leads to or from.
TypeOK ==
  /\ source \in {"none", "remote", "local"} /\ stats \in {-1, 0, 1}
  /\ master \in Verdict /\ confirms \in 0 .. MasterClearN - 1
  /\ master = 0 => confirms = 0
  /\ late \in Verdict /\ exceeds \in 0 .. LateN
  /\ (late = 1) = (exceeds = LateN)
  /\ masterReports \in MasterWindow!Window /\ masterSince \in 0 .. MasterWindow!Depth
  /\ lateReports \in LateWindow!Window /\ lateSince \in 0 .. LateWindow!Depth
  /\ statsLines \in LateWindow!Window

Init ==
  /\ source = "none" /\ stats = -1
  /\ master = 0 /\ confirms = 0 /\ late = 0 /\ exceeds = 0
  /\ masterReports = [i \in 1 .. MasterWindow!Depth |-> 0] /\ masterSince = 0
  /\ lateReports = [i \in 1 .. LateWindow!Depth |-> 0] /\ lateSince = 0
  /\ statsLines = [i \in 1 .. LateWindow!Depth |-> 0]

-----------------------------------------------------------------------------
(* The consumer *)

\* Slip: the snapshots need not be consecutive.
StillLocalKeeping == master = 1 /\ UNCHANGED <<master, confirms>>

\* Local for the first time, or still: no progress towards clearing.
MasterLost == master = 0 /\ master' = 1 /\ confirms' = 0
StillLocal == master = 1 /\ confirms' = 0 /\ UNCHANGED master

\* Not local: progress towards clearing an alarm that is active.
NoAlarm == master = 0 /\ UNCHANGED <<master, confirms>>
Confirm == master = 1 /\ confirms + 1 < MasterClearN /\ confirms' = confirms + 1 /\ UNCHANGED master
MasterBack == master = 1 /\ confirms + 1 >= MasterClearN /\ master' = 0 /\ confirms' = 0

CheckMaster ==
  LET local == IF source' = "local" THEN 1 ELSE 0
  IN /\ IF local = 1 THEN MasterLost \/ StillLocal ELSE NoAlarm \/ Confirm \/ MasterBack
     /\ masterReports' = MasterWindow!Push(masterReports, local)
     /\ masterSince' = IF master' = master THEN MasterWindow!Count(masterSince) ELSE 0

\* Slip: a good line clears the alarm but not the count.
InTimeKeeping == late' = 0 /\ UNCHANGED exceeds

\* Slip: the count must exceed the number.
ExceedsAndMore ==
  /\ exceeds' = IF exceeds < LateN THEN exceeds + 1 ELSE exceeds
  /\ late' = IF exceeds >= LateN THEN 1 ELSE late

\* One more snapshot above the limit, or one that ends the run.
Exceeds ==
  /\ exceeds' = IF exceeds < LateN THEN exceeds + 1 ELSE exceeds
  /\ late' = IF exceeds' >= LateN THEN 1 ELSE late
InTime == late' = 0 /\ exceeds' = 0

CheckLatency ==
  IF stats' = -1 THEN UNCHANGED lateAlarm
  ELSE /\ IF stats' = 1 THEN Exceeds ELSE InTime
       /\ lateReports' = LateWindow!Push(lateReports, stats')
       /\ lateSince' = IF late' = late THEN LateWindow!Count(lateSince) ELSE 0

Check == CheckMaster /\ CheckLatency

-----------------------------------------------------------------------------
(* The reader *)

\* "selected best master clock", or the local clock as best master.
BestMaster(s) ==
  /\ source' = s
  /\ UNCHANGED <<stats, statsLines>>
  /\ Check

\* A line of ptp4l's statistics.
Stats(v) ==
  /\ stats' = v
  /\ statsLines' = LateWindow!Push(statsLines, v)
  /\ UNCHANGED source
  /\ Check

\* A line of phc2sys.
Phc2sys ==
  /\ UNCHANGED <<state, statsLines>>
  /\ Check

Next ==
  \/ \E s \in {"remote", "local"} : BestMaster(s)
  \/ \E v \in Verdict : Stats(v)
  \/ Phc2sys

Spec == Init /\ [][Next]_vars

-----------------------------------------------------------------------------
Master == INSTANCE Debounce
  WITH Severity <- Verdict, RaiseN <- 1, ClearN <- MasterClearN, Source <- {"gm"},
       level <- [s \in {"gm"} |-> master],
       recent <- [s \in {"gm"} |-> masterReports],
       since <- [s \in {"gm"} |-> masterSince]

Late == INSTANCE Debounce
  WITH Severity <- Verdict, RaiseN <- LateN, ClearN <- 1, Source <- {"max"},
       level <- [s \in {"max"} |-> late],
       recent <- [s \in {"max"} |-> lateReports],
       since <- [s \in {"max"} |-> lateSince]

(***************************************************************************)
(* Both alarms implement debouncing over what the snapshots carry:         *)
(* PTP_GM_LOSS is raised at once and cleared when master_clear_consecutive *)
(* snapshots in a row are not local; PTP_LATENCY_TOO_HIGH is raised after  *)
(* max_consecutive snapshots in a row above the limit and cleared at once  *)
(* (ptp_health_checker_consumer against Debounce).                         *)
(***************************************************************************)
Debounced == Master!DebounceSpec /\ Late!DebounceSpec

(***************************************************************************)
(* Although snapshots of other lines are counted too, no excursion that    *)
(* lasts max_consecutive statistics lines is missed, and none is alarmed   *)
(* whose last statistics line is fine.                                     *)
(***************************************************************************)
ExcursionSeen ==
  /\ LateWindow!AllAbove(statsLines, LateN, 0) => late = 1
  /\ statsLines[1] = 0 => late = 0

(***************************************************************************)
(* The docstring of ptp_health_checker_consumer: the alarm tells of max    *)
(* above the threshold "for N consecutive stats snapshots".                *)
(***************************************************************************)
LateMeansConsecutive == late = 1 => LateWindow!AllAbove(statsLines, LateN, 0)
=============================================================================
