------------------------------ MODULE AlarmFeed ------------------------------
(***************************************************************************)
(* What the alarm pipeline promises northbound.  Every alarm has a status  *)
(* in the registry and the report of it that was last handed to the VES    *)
(* collector.  A change of status makes its caller owe one report, of the  *)
(* status the change produced; the caller hands it over or, when the       *)
(* notifier fails, drops it, before it changes anything else.  Nothing is  *)
(* promised about the order of the reports two callers owe on one alarm.   *)
(***************************************************************************)
CONSTANTS Alarm,     \* alarm ids
          Sender,    \* those who change alarms and owe the reports
          Status,    \* what a report tells of an alarm
          Quiet      \* the status an alarm is registered with

VARIABLES status,    \* the registry
          report,    \* the last report handed to the collector
          due,       \* the report a sender owes: a set of at most one
          dropped    \* alarms whose last report to end was dropped

feedVars == <<status, report, due, dropped>>

FeedInit ==
  /\ status = [a \in Alarm |-> Quiet]
  /\ report = [a \in Alarm |-> Quiet]
  /\ due = [s \in Sender |-> {}]
  /\ dropped = {}

Change(s, a, st) ==
  /\ due[s] = {}
  /\ status' = [status EXCEPT ![a] = st]
  /\ due' = [due EXCEPT ![s] = {[alarm |-> a, status |-> st]}]
  /\ UNCHANGED <<report, dropped>>

HandOver(s) ==
  \E r \in due[s] :
    /\ report' = [report EXCEPT ![r.alarm] = r.status]
    /\ dropped' = dropped \ {r.alarm}
    /\ due' = [due EXCEPT ![s] = {}]
    /\ UNCHANGED status

Drop(s) ==
  \E r \in due[s] :
    /\ dropped' = dropped \cup {r.alarm}
    /\ due' = [due EXCEPT ![s] = {}]
    /\ UNCHANGED <<status, report>>

Settle(s) == HandOver(s) \/ Drop(s)

FeedNext ==
  \E s \in Sender :
    Settle(s) \/ \E a \in Alarm, st \in Status : Change(s, a, st)

FeedSafety == FeedInit /\ [][FeedNext]_feedVars

\* Every report that is due is eventually handed over or dropped.
FeedSpec == FeedSafety /\ \A s \in Sender : WF_feedVars(Settle(s))
=============================================================================
