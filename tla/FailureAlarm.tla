---------------------------- MODULE FailureAlarm ----------------------------
(***************************************************************************)
(* A failure alarm as the metrics monitor keeps it (metrics_monitor.py,    *)
(* _check_failures): one source's windows, once judged, are reports of the *)
(* debounced condition, beside those of the alarm's other sources.  A      *)
(* report that judges nothing is no report of the condition.               *)
(***************************************************************************)
EXTENDS MetricsMonitor, FailureRatio

CONSTANT Ratio   \* the one of the alarm's sources FailureRatio is about

\* Clean, MAJOR and CRITICAL are what a window may be judged.
ASSUME FailureAlarmAssumption == Ratio \in Source /\ {0, 3, 4} \subseteq Severity

alarmVars == <<vars, ratioVars>>

AlarmInit == Init /\ RatioInit

AlarmTypeOK == TypeOK /\ RatioTypeOK

Gnb == (\E c \in Cause : Attempt(c) \/ Fail(c) \/ Succeed(c)) \/ Restart

\* _update is called when a window was judged.
Feed ==
  IF judgedAtts' > judgedAtts
  THEN Update(Ratio, verdict')
  ELSE UNCHANGED vars

Other(s, r) == Update(s, r) /\ UNCHANGED ratioVars

AlarmNext ==
  \/ (Gnb \/ Baseline) /\ UNCHANGED vars
  \/ Gather /\ Feed
  \/ \E s \in Source \ {Ratio}, r \in Severity : Other(s, r)

AlarmSpec == AlarmInit /\ [][AlarmNext]_alarmVars
=============================================================================
