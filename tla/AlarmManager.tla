----------------------------- MODULE AlarmManager -----------------------------
(***************************************************************************)
(* The alarm registry (alarm_manager.py) and the VES sender behind its     *)
(* notifier (ves.py), shared by the adapter's tasks: the NETCONF, WS and   *)
(* M-plane loops, the metrics and PTP monitors, and the worker threads the *)
(* O-RU fault bridge runs on.                                              *)
(*                                                                         *)
(* A state change happens under the manager's lock; the event it emits is  *)
(* completed, rendered with the sender's sequence number and posted after  *)
(* the lock is released, one step each, so the tasks interleave there.  An *)
(* alarm may be called by several tasks: with --ru_forward 1003 is cleared *)
(* on two worker threads (the bootstrap's connect and the forwarder's) and *)
(* set on the event loop, and nothing orders their emissions.              *)
(* Message and details of an alarm are abstracted to one note: the code    *)
(* only compares them and forwards them.  A post the collector does not    *)
(* get (a request error) and a notifier that raises both leave the         *)
(* collector without the event; nothing sends it again.                    *)
(***************************************************************************)
EXTENDS Integers

CONSTANTS
  Task,       \* threads of control: the event loop, the worker threads
  Alarm,      \* alarm ids that may be registered
  Static,     \* those of ALARM_DEFINITIONS, registered at construction
  Callers,    \* Callers[a]: the tasks that set and clear alarm a
  Severity,   \* AlarmSeverity without CLEARED
  Note,       \* message and details of an alarm
  NoNote,     \* no message, no details
  NoEvent,    \* a task that is emitting nothing
  MaxSeq      \* bound: no change starts once MaxSeq events have been sent

ASSUME CallersAssumption == Callers \in [Alarm -> SUBSET Task]
ASSUME StaticAssumption == Static \subseteq Alarm
ASSUME NoteAssumption == NoNote \notin Note
ASSUME SeverityAssumption == "CLEARED" \notin Severity
ASSUME MaxSeqAssumption == MaxSeq \in Nat

VARIABLES
  registered, \* alarm ids with a definition
  state,      \* _states: what the registry holds for each alarm
  pc,         \* where each task is in its call
  event,      \* the event a task is emitting
  sequence,   \* VesMessages.sequence
  north,      \* the last event of each alarm the collector got
  missed,     \* alarms whose last event it did not get
  company,    \* ghost: while a task's event was under way, another of the
              \* same alarm was
  raced       \* ghost: alarms whose last delivered event had company

vars == <<registered, state, pc, event, sequence, north, missed, company, raced>>

AnySeverity == Severity \cup {"CLEARED"}
AnyNote == Note \cup {NoNote}
Trend == {"NO_CHANGE", "LESS_SEVERE"}   \* no caller passes a trend

AlarmState ==
  [active : BOOLEAN, severity : AnySeverity, trend : Trend, note : AnyNote]

\* A clear's event gets its trend only after the lock is released.
AlarmEvent ==
  [alarm : Alarm, active : BOOLEAN, old : AnySeverity, new : AnySeverity,
   trend : Trend \cup {"UNREAD"}, note : AnyNote, seq : Int]

InitialState ==
  [active |-> FALSE, severity |-> "CLEARED", trend |-> "NO_CHANGE", note |-> NoNote]

\* Before the first event of an alarm the collector takes it as cleared.
NothingReported(a) ==
  [alarm |-> a, active |-> FALSE, old |-> "CLEARED", new |-> "CLEARED",
   trend |-> "NO_CHANGE", note |-> NoNote, seq |-> -1]

TypeOK ==
  /\ registered \in SUBSET Alarm
  /\ state \in [Alarm -> AlarmState]
  /\ pc \in [Task -> {"idle", "emit", "render", "post"}]
  /\ event \in [Task -> AlarmEvent \cup {NoEvent}]
  /\ \A t \in Task : pc[t] # "idle" => event[t] \in AlarmEvent
  /\ sequence \in Nat
  /\ north \in [Alarm -> AlarmEvent]
  /\ missed \in SUBSET Alarm
  /\ company \in [Task -> BOOLEAN]
  /\ raced \in SUBSET Alarm

Init ==
  /\ registered = Static
  /\ state = [a \in Alarm |-> InitialState]
  /\ pc = [t \in Task |-> "idle"]
  /\ event = [t \in Task |-> NoEvent]
  /\ sequence = 0
  /\ north = [a \in Alarm |-> NothingReported(a)]
  /\ missed = {}
  /\ company = [t \in Task |-> FALSE]
  /\ raced = {}

-----------------------------------------------------------------------------
(* set_alarm(severity, message, details) on a registered alarm changes it. *)
Updates(a, sev, note) ==
  \/ ~state[a].active
  \/ state[a].severity # sev
  \/ state[a].trend # "NO_CHANGE"
  \/ state[a].note # note

\* clear_alarm(message, details) changes it; an alarm that never was active
\* is "cleared" once more when the message is new.
Clears(a, note) ==
  \/ state[a].active
  \/ state[a].severity # "CLEARED"
  \/ state[a].note # note

\* Slip: the event is filled from the registry entry after its update.
EventAfterUpdate(a, active, old, new, trend, note) ==
  [alarm |-> a, active |-> active, old |-> new, new |-> new,
   trend |-> trend, note |-> note, seq |-> -1]

NewEvent(a, active, old, new, trend, note) ==
  [alarm |-> a, active |-> active, old |-> old, new |-> new,
   trend |-> trend, note |-> note, seq |-> -1]

\* Slip: the old severity is compared after it was overwritten.
TrendAfterUpdate(old) == "NO_CHANGE"

ClearTrend(old) == IF old # "CLEARED" THEN "LESS_SEVERE" ELSE "NO_CHANGE"

\* A call that changes nothing returns without an event: a stuttering step.
MayCall(t, a) ==
  /\ pc[t] = "idle"
  /\ t \in Callers[a]
  /\ sequence < MaxSeq

EmittingTasks(a) == {u \in Task : pc[u] # "idle" /\ event[u].alarm = a}

\* Ghost: t starts on an event of a beside those already under way.
Join(t, a) ==
  company' = [u \in Task |->
    IF u = t THEN EmittingTasks(a) # {}
             ELSE company[u] \/ u \in EmittingTasks(a)]

Register(t, a) ==
  /\ MayCall(t, a)
  /\ a \notin registered      \* ValueError otherwise, nothing changed
  /\ registered' = registered \cup {a}
  /\ UNCHANGED <<state, pc, event, sequence, north, missed, company, raced>>

\* Slip: an update that keeps the severity is stored but not emitted.
SetAlarmQuietly(t, a, sev, note) ==
  /\ MayCall(t, a)
  /\ a \in registered
  /\ Updates(a, sev, note)
  /\ state' = [state EXCEPT ![a] =
       [active |-> TRUE, severity |-> sev, trend |-> "NO_CHANGE", note |-> note]]
  /\ IF state[a].severity = sev
     THEN UNCHANGED <<event, pc, company>>
     ELSE /\ event' = [event EXCEPT ![t] =
               NewEvent(a, TRUE, state[a].severity, sev, "NO_CHANGE", note)]
          /\ pc' = [pc EXCEPT ![t] = "emit"]
          /\ Join(t, a)
  /\ UNCHANGED <<registered, sequence, north, missed, raced>>

SetAlarm(t, a, sev, note) ==
  /\ MayCall(t, a)
  /\ a \in registered         \* KeyError otherwise, nothing changed
  /\ Updates(a, sev, note)
  /\ state' = [state EXCEPT ![a] =
       [active |-> TRUE, severity |-> sev, trend |-> "NO_CHANGE", note |-> note]]
  /\ event' = [event EXCEPT ![t] =
       NewEvent(a, TRUE, state[a].severity, sev, "NO_CHANGE", note)]
  /\ pc' = [pc EXCEPT ![t] = "emit"]
  /\ Join(t, a)
  /\ UNCHANGED <<registered, sequence, north, missed, raced>>

\* Slip: a clear reports its message but does not store it.
ClearAlarmKeepingNote(t, a, note) ==
  /\ MayCall(t, a)
  /\ a \in registered
  /\ Clears(a, note)
  /\ state' = [state EXCEPT
       ![a].active = FALSE, ![a].severity = "CLEARED",
       ![a].trend = ClearTrend(state[a].severity)]
  /\ event' = [event EXCEPT ![t] =
       NewEvent(a, FALSE, state[a].severity, "CLEARED", "UNREAD", note)]
  /\ pc' = [pc EXCEPT ![t] = "emit"]
  /\ Join(t, a)
  /\ UNCHANGED <<registered, sequence, north, missed, raced>>

ClearAlarm(t, a, note) ==
  /\ MayCall(t, a)
  /\ a \in registered
  /\ Clears(a, note)
  /\ state' = [state EXCEPT ![a] =
       [active |-> FALSE, severity |-> "CLEARED",
        trend |-> ClearTrend(state[a].severity), note |-> note]]
  /\ event' = [event EXCEPT ![t] =
       NewEvent(a, FALSE, state[a].severity, "CLEARED", "UNREAD", note)]
  /\ pc' = [pc EXCEPT ![t] = "emit"]
  /\ Join(t, a)
  /\ UNCHANGED <<registered, sequence, north, missed, raced>>

\* The lock is released: a clear's event reads the trend from the registry
\* entry now, a set's event carries its own.
EmitEvent(t) ==
  /\ pc[t] = "emit"
  /\ event' = [event EXCEPT ![t].trend =
       IF @ = "UNREAD" THEN state[event[t].alarm].trend ELSE @]
  /\ pc' = [pc EXCEPT ![t] = "render"]
  /\ UNCHANGED <<registered, state, sequence, north, missed, company, raced>>

\* The notifier renders the event with the number the sender is at.
Render(t) ==
  /\ pc[t] = "render"
  /\ event' = [event EXCEPT ![t].seq = sequence]
  /\ pc' = [pc EXCEPT ![t] = "post"]
  /\ UNCHANGED <<registered, state, sequence, north, missed, company, raced>>

\* The sender steps its number and posts.
Deliver(t) ==
  /\ pc[t] = "post"
  /\ sequence' = sequence + 1
  /\ north' = [north EXCEPT ![event[t].alarm] = event[t]]
  /\ missed' = missed \ {event[t].alarm}
  /\ raced' = IF company[t] THEN raced \cup {event[t].alarm}
                            ELSE raced \ {event[t].alarm}
  /\ event' = [event EXCEPT ![t] = NoEvent]
  /\ pc' = [pc EXCEPT ![t] = "idle"]
  /\ company' = [company EXCEPT ![t] = FALSE]
  /\ UNCHANGED <<registered, state>>

\* The request fails, which is logged, or the notifier raises, which the
\* caller sees; the registry keeps the change either way.
Lose(t) ==
  /\ pc[t] = "post"
  /\ sequence' = sequence + 1
  /\ missed' = missed \cup {event[t].alarm}
  /\ event' = [event EXCEPT ![t] = NoEvent]
  /\ pc' = [pc EXCEPT ![t] = "idle"]
  /\ company' = [company EXCEPT ![t] = FALSE]
  /\ UNCHANGED <<registered, state, north, raced>>

Send(t) == EmitEvent(t) \/ Render(t) \/ Deliver(t) \/ Lose(t)

Call(t) ==
  \E a \in Alarm :
    \/ Register(t, a)
    \/ \E note \in AnyNote :
         \/ ClearAlarm(t, a, note)
         \/ \E sev \in Severity : SetAlarm(t, a, sev, note)

Next == \E t \in Task : Call(t) \/ Send(t)

\* An emission that has begun ends: a post is bounded by its timeout.
Fairness == \A t \in Task : WF_vars(Send(t))

Spec == Init /\ [][Next]_vars /\ Fairness

-----------------------------------------------------------------------------
(* Safety *)

Emitting(a) == EmittingTasks(a) # {}

StatusOf(s) == [active |-> s.active, severity |-> s.severity, note |-> s.note]

NorthStatus(a) ==
  [active |-> north[a].active, severity |-> north[a].new, note |-> north[a].note]

(***************************************************************************)
(* Events leave outside the lock (set_alarm, clear_alarm and _emit_event   *)
(* together), whoever calls about the alarm.  The collector's last event   *)
(* of an alarm tells its status in the registry once no event of it is on  *)
(* its way, except where one was lost since or the last one delivered had  *)
(* overlapped another of the same alarm: then the older may arrive last,   *)
(* and the collector keeps it until the next event that travels alone.     *)
(***************************************************************************)
NorthAgreesWithRegistry ==
  \A a \in Alarm :
    Emitting(a) \/ a \in missed \/ a \in raced \/ NorthStatus(a) = StatusOf(state[a])

(***************************************************************************)
(* A clear event tells the trend of its own transition although it reads   *)
(* the trend from the registry after the lock was released: only another   *)
(* event of the same alarm under way at that time can make it wrong.       *)
(***************************************************************************)
ClearTellsItsOwnTrend ==
  \A a \in Alarm \ raced :
    ~north[a].active =>
      north[a].trend = IF north[a].old # "CLEARED" THEN "LESS_SEVERE" ELSE "NO_CHANGE"

(***************************************************************************)
(* An event that overlapped no other of its alarm follows on from the one  *)
(* delivered before it: it is numbered above it and, unless one was lost   *)
(* or overlapped in between, starts from the severity that one ended in.   *)
(***************************************************************************)
FollowsOn(a) ==
  north'[a] # north[a] /\ a \notin raced' =>
    /\ north'[a].seq > north[a].seq
    /\ a \in missed \cup raced \/ north'[a].old = north[a].new

EventsFollowOn == [][\A a \in Alarm : FollowsOn(a)]_vars

(***************************************************************************)
(* _send_ves_message: "one sequence number per event, delivered or not".   *)
(* No two events on their way carry the same number.  Not so: the number is *)
(* stepped after rendering.                                                *)
(***************************************************************************)
OneNumberPerEvent ==
  \A t, u \in Task :
    t # u /\ pc[t] = "post" /\ pc[u] = "post" => event[t].seq # event[u].seq

-----------------------------------------------------------------------------
(* What the pipeline promises northbound *)

ReportOf(t) ==
  IF pc[t] = "idle" THEN {}
  ELSE {[alarm |-> event[t].alarm,
         status |-> [active |-> event[t].active, severity |-> event[t].new,
                     note |-> event[t].note]]}

Feed == INSTANCE AlarmFeed WITH
          Sender <- Task,
          Status <- [active : BOOLEAN, severity : AnySeverity, note : AnyNote],
          Quiet <- StatusOf(InitialState),
          status <- [a \in Alarm |-> StatusOf(state[a])],
          report <- [a \in Alarm |-> NorthStatus(a)],
          due <- [t \in Task |-> ReportOf(t)],
          dropped <- missed

(***************************************************************************)
(* The registry and its notifier implement AlarmFeed whoever calls: a      *)
(* change makes its caller owe exactly one report, of the status that      *)
(* change produced, and the report is eventually handed over or dropped.   *)
(***************************************************************************)
FeedRefinement == Feed!FeedSpec
=============================================================================
