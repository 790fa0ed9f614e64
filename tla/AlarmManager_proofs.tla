------------------------- MODULE AlarmManager_proofs -------------------------
(***************************************************************************)
(* What AlarmManager guarantees for any tasks, alarms, severities and      *)
(* notes, whichever tasks call about an alarm: everything that goes wrong  *)
(* takes two events of one alarm under way at a time.                      *)
(***************************************************************************)
EXTENDS AlarmManager, TLAPS

(***************************************************************************)
(* No other task has an event of the same alarm under way.                 *)
(***************************************************************************)
Alone(t) ==
  \A u \in Task : pc[u] # "idle" /\ event[u].alarm = event[t].alarm => u = t

(***************************************************************************)
(* The registry still is in the state the event of t tells, and the        *)
(* collector in the one it starts from: whoever may call about the alarm,  *)
(* nobody has since t began.                                               *)
(***************************************************************************)
EventMatches(t) ==
  LET e == event[t]
      s == state[e.alarm]
      n == north[e.alarm]
  IN /\ e.active = s.active
     /\ e.new = s.severity
     /\ e.note = s.note
     /\ ~e.active => s.trend = ClearTrend(e.old)
     /\ e.trend \in {s.trend, "UNREAD"}
     /\ pc[t] # "emit" => e.trend # "UNREAD"
     /\ e.active => e.trend # "UNREAD"
     /\ pc[t] = "post" => n.seq < e.seq
     /\ e.alarm \in missed \cup raced \/ e.old = n.new

InFlightMatches ==
  \A t \in Task :
    pc[t] # "idle" /\ ~company[t] => Alone(t) /\ EventMatches(t)

NumbersUsed ==
  /\ \A a \in Alarm : north[a].seq < sequence
  /\ \A t \in Task : pc[t] = "post" => event[t].seq <= sequence

IInv ==
  /\ TypeOK
  /\ InFlightMatches
  /\ NumbersUsed
  /\ NorthAgreesWithRegistry
  /\ ClearTellsItsOwnTrend

USE CallersAssumption, StaticAssumption, NoteAssumption, SeverityAssumption

-----------------------------------------------------------------------------
(* Every variable keeps its type: the registry, the events under way and   *)
(* what the collector was told.                                            *)
LEMMA TypeInit == Init => TypeOK
  BY DEF Init, TypeOK, InitialState, AlarmState, AlarmEvent, NothingReported,
         AnySeverity, AnyNote, Trend

LEMMA TypeStep == TypeOK /\ [Next]_vars => TypeOK'
<1> SUFFICES ASSUME TypeOK, [Next]_vars PROVE TypeOK'
  OBVIOUS
<1> USE DEF TypeOK
<1>1. ASSUME NEW t \in Task, NEW a \in Alarm, Register(t, a) PROVE TypeOK'
  BY <1>1 DEF Register
<1>2. ASSUME NEW t \in Task, NEW a \in Alarm, NEW sev \in Severity,
             NEW note \in AnyNote, SetAlarm(t, a, sev, note)
      PROVE TypeOK'
  <2> DEFINE e == NewEvent(a, TRUE, state[a].severity, sev, "NO_CHANGE", note)
             s == [active |-> TRUE, severity |-> sev,
                   trend |-> "NO_CHANGE", note |-> note]
  <2>1. e \in AlarmEvent
    BY DEF NewEvent, AlarmEvent, AlarmState, AnySeverity, Trend
  <2>2. s \in AlarmState
    BY DEF AlarmState, AnySeverity, Trend
  <2>3. /\ state' = [state EXCEPT ![a] = s]
        /\ event' = [event EXCEPT ![t] = e]
        /\ pc' = [pc EXCEPT ![t] = "emit"]
        /\ Join(t, a)
        /\ UNCHANGED <<registered, sequence, north, missed, raced>>
    BY <1>2 DEF SetAlarm
  <2>4. company' \in [Task -> BOOLEAN]
    BY <2>3 DEF Join
  <2> HIDE DEF e, s
  <2> QED BY <2>1, <2>2, <2>3, <2>4
<1>3. ASSUME NEW t \in Task, NEW a \in Alarm, NEW note \in AnyNote,
             ClearAlarm(t, a, note)
      PROVE TypeOK'
  <2> DEFINE e == NewEvent(a, FALSE, state[a].severity, "CLEARED", "UNREAD", note)
             s == [active |-> FALSE, severity |-> "CLEARED",
                   trend |-> ClearTrend(state[a].severity), note |-> note]
  <2>1. e \in AlarmEvent
    BY DEF NewEvent, AlarmEvent, AlarmState, AnySeverity, Trend
  <2>2. s \in AlarmState
    BY DEF AlarmState, AnySeverity, Trend, ClearTrend
  <2>3. /\ state' = [state EXCEPT ![a] = s]
        /\ event' = [event EXCEPT ![t] = e]
        /\ pc' = [pc EXCEPT ![t] = "emit"]
        /\ Join(t, a)
        /\ UNCHANGED <<registered, sequence, north, missed, raced>>
    BY <1>3 DEF ClearAlarm
  <2>4. company' \in [Task -> BOOLEAN]
    BY <2>3 DEF Join
  <2> HIDE DEF e, s
  <2> QED BY <2>1, <2>2, <2>3, <2>4
<1>4. ASSUME NEW t \in Task, EmitEvent(t) PROVE TypeOK'
  <2> DEFINE tr == IF event[t].trend = "UNREAD"
                   THEN state[event[t].alarm].trend ELSE event[t].trend
             e == [event[t] EXCEPT !.trend = tr]
  <2>1. event[t] \in AlarmEvent
    BY <1>4 DEF EmitEvent
  <2>2. e \in AlarmEvent
    BY <2>1 DEF AlarmEvent, AlarmState
  <2>3. /\ event' = [event EXCEPT ![t] = e]
        /\ pc' = [pc EXCEPT ![t] = "render"]
        /\ UNCHANGED <<registered, state, sequence, north, missed, company, raced>>
    BY <1>4 DEF EmitEvent
  <2> HIDE DEF e
  <2> QED BY <2>2, <2>3
<1>5. ASSUME NEW t \in Task, Render(t) PROVE TypeOK'
  <2> DEFINE e == [event[t] EXCEPT !.seq = sequence]
  <2>0. event[t] \in AlarmEvent /\ sequence \in Int
    BY <1>5 DEF Render
  <2>1. e \in AlarmEvent
    BY <2>0 DEF AlarmEvent
  <2>2. /\ event' = [event EXCEPT ![t] = e]
        /\ pc' = [pc EXCEPT ![t] = "post"]
        /\ UNCHANGED <<registered, state, sequence, north, missed, company, raced>>
    BY <1>5 DEF Render
  <2> HIDE DEF e
  <2> QED BY <2>1, <2>2
<1>6. ASSUME NEW t \in Task, Deliver(t) PROVE TypeOK'
  <2>1. event[t] \in AlarmEvent
    BY <1>6 DEF Deliver
  <2>2. event[t].alarm \in Alarm
    BY <2>1 DEF AlarmEvent
  <2> QED BY <1>6, <2>1, <2>2 DEF Deliver
<1>7. ASSUME NEW t \in Task, Lose(t) PROVE TypeOK'
  <2>1. event[t] \in AlarmEvent /\ event[t].alarm \in Alarm
    BY <1>7 DEF Lose, AlarmEvent
  <2> QED BY <1>7, <2>1 DEF Lose
<1>8. CASE UNCHANGED vars
  BY <1>8 DEF vars
<1> QED
  BY <1>1, <1>2, <1>3, <1>4, <1>5, <1>6, <1>7, <1>8 DEF Next, Call, Send

-----------------------------------------------------------------------------
(* The inductive invariant. *)

LEMMA InvInit == Init => IInv
<1> SUFFICES ASSUME Init PROVE IInv
  OBVIOUS
<1>1. TypeOK
  BY TypeInit
<1>2. InFlightMatches /\ NumbersUsed
  BY DEF Init, InFlightMatches, NumbersUsed, NothingReported
<1>3. NorthAgreesWithRegistry /\ ClearTellsItsOwnTrend
  BY DEF Init, NorthAgreesWithRegistry, ClearTellsItsOwnTrend, NorthStatus,
         StatusOf, InitialState, NothingReported
<1> QED BY <1>1, <1>2, <1>3 DEF IInv

(* An idle task starting on alarm a: either nobody else has an event of a    *)
(* under way, or all who have get company.                                   *)
LEMMA CallStep ==
  ASSUME IInv, NEW t \in Task, NEW a \in Alarm, NEW s \in AlarmState,
         NEW e \in AlarmEvent,
         pc[t] = "idle",
         e.alarm = a, e.active = s.active, e.new = s.severity, e.note = s.note,
         e.old = state[a].severity,
         ~e.active => s.trend = ClearTrend(e.old),
         e.trend \in {s.trend, "UNREAD"},
         e.active => e.trend # "UNREAD",
         state' = [state EXCEPT ![a] = s],
         event' = [event EXCEPT ![t] = e],
         pc' = [pc EXCEPT ![t] = "emit"],
         Join(t, a),
         UNCHANGED <<registered, sequence, north, missed, raced>>
  PROVE  InFlightMatches' /\ NumbersUsed' /\ NorthAgreesWithRegistry'
           /\ ClearTellsItsOwnTrend'
<1>0. TypeOK /\ InFlightMatches /\ NumbersUsed /\ NorthAgreesWithRegistry
        /\ ClearTellsItsOwnTrend
  BY DEF IInv
<1>1. /\ event'[t] = e /\ pc'[t] = "emit" /\ state'[a] = s
      /\ \A u \in Task : u # t => event'[u] = event[u] /\ pc'[u] = pc[u]
      /\ \A b \in Alarm : b # a => state'[b] = state[b]
  BY <1>0 DEF TypeOK
<1>2. InFlightMatches'
  <2> SUFFICES ASSUME NEW u \in Task, pc'[u] # "idle", ~company'[u]
               PROVE  Alone(u)' /\ EventMatches(u)'
    BY DEF InFlightMatches
  <2>1. CASE u = t
    <3>1. EmittingTasks(a) = {}
      BY <2>1 DEF Join
    <3>2. a \in missed \cup raced \/ e.old = north[a].new
      BY <1>0, <3>1 DEF NorthAgreesWithRegistry, NorthStatus, StatusOf, Emitting
    <3>3. Alone(t)'
      BY <1>1, <3>1 DEF Alone, EmittingTasks
    <3>4. EventMatches(t)'
      BY <1>1, <3>2 DEF EventMatches
    <3> QED BY <2>1, <3>3, <3>4
  <2>2. CASE u # t
    <3>1. pc[u] # "idle" /\ ~company[u] /\ u \notin EmittingTasks(a)
      BY <2>2, <1>1 DEF Join
    <3>2. Alone(u) /\ EventMatches(u) /\ event[u].alarm # a
      BY <3>1, <1>0 DEF InFlightMatches, EmittingTasks
    <3>3. event[u].alarm \in Alarm
      BY <3>1, <1>0 DEF TypeOK, AlarmEvent
    <3>4. Alone(u)'
      BY <1>1, <2>2, <3>2 DEF Alone
    <3>5. EventMatches(u)'
      BY <1>1, <2>2, <3>2, <3>3 DEF EventMatches
    <3> QED BY <3>4, <3>5
  <2> QED BY <2>1, <2>2
<1>3. NumbersUsed' /\ ClearTellsItsOwnTrend'
  BY <1>0, <1>1 DEF NumbersUsed, ClearTellsItsOwnTrend
<1>4. NorthAgreesWithRegistry'
  <2> SUFFICES ASSUME NEW b \in Alarm, ~Emitting(b)', b \notin missed', b \notin raced'
               PROVE  (NorthStatus(b) = StatusOf(state[b]))'
    BY DEF NorthAgreesWithRegistry
  <2>1. b # a
    BY <1>1 DEF Emitting, EmittingTasks
  <2>2. ~Emitting(b)
    BY <1>1 DEF Emitting, EmittingTasks
  <2>3. NorthStatus(b) = StatusOf(state[b])
    BY <1>0, <2>2 DEF NorthAgreesWithRegistry
  <2> QED BY <2>1, <2>3, <1>1 DEF NorthStatus, StatusOf
<1> QED BY <1>2, <1>3, <1>4

(* A task moving on with the event it has under way: the event's identity    *)
(* stays, so only its own conjuncts are at stake.                            *)
LEMMA EmitStep ==
  ASSUME IInv, NEW t \in Task, EmitEvent(t) \/ Render(t)
  PROVE  InFlightMatches' /\ NumbersUsed' /\ NorthAgreesWithRegistry'
           /\ ClearTellsItsOwnTrend'
<1>0. TypeOK /\ InFlightMatches /\ NumbersUsed /\ NorthAgreesWithRegistry
        /\ ClearTellsItsOwnTrend
  BY DEF IInv
<1>1. UNCHANGED <<registered, state, sequence, north, missed, company, raced>>
  BY DEF EmitEvent, Render
<1>2. pc[t] # "idle" /\ pc'[t] # "idle" /\ event[t] \in AlarmEvent
  BY <1>0 DEF EmitEvent, Render, TypeOK
<1>3. event[t].alarm \in Alarm /\ state[event[t].alarm] \in AlarmState
  BY <1>0, <1>2 DEF AlarmEvent, TypeOK
<1>4. \A u \in Task : u # t => event'[u] = event[u] /\ pc'[u] = pc[u]
  BY <1>0 DEF EmitEvent, Render, TypeOK
<1>5. \A u \in Task :
        (pc'[u] # "idle" <=> pc[u] # "idle") /\ event'[u].alarm = event[u].alarm
  <2>1. event'[t].alarm = event[t].alarm
    BY <1>0, <1>2 DEF EmitEvent, Render, TypeOK, AlarmEvent
  <2> QED BY <1>2, <1>4, <2>1
<1>6. ASSUME EventMatches(t) PROVE EventMatches(t)'
  <2>1. CASE EmitEvent(t)
    <3>1. pc[t] = "emit" /\ pc'[t] = "render"
      BY <2>1, <1>0 DEF EmitEvent, TypeOK
    <3>2. event'[t] = [event[t] EXCEPT !.trend =
             IF event[t].trend = "UNREAD"
             THEN state[event[t].alarm].trend ELSE event[t].trend]
      BY <2>1, <1>0 DEF EmitEvent, TypeOK
    <3>3. event'[t].trend = state[event[t].alarm].trend
      BY <3>2, <1>2, <1>6 DEF EventMatches, AlarmEvent
    <3>4. state[event[t].alarm].trend # "UNREAD"
      BY <1>3 DEF AlarmState, Trend
    <3>5. /\ event'[t].alarm = event[t].alarm
          /\ event'[t].active = event[t].active
          /\ event'[t].old = event[t].old
          /\ event'[t].new = event[t].new
          /\ event'[t].note = event[t].note
      BY <3>2, <1>2 DEF AlarmEvent
    <3> QED BY <3>1, <3>3, <3>4, <3>5, <1>1, <1>6 DEF EventMatches
  <2>2. CASE Render(t)
    <3>1. pc[t] = "render" /\ pc'[t] = "post"
      BY <2>2, <1>0 DEF Render, TypeOK
    <3>2. event'[t] = [event[t] EXCEPT !.seq = sequence]
      BY <2>2, <1>0 DEF Render, TypeOK
    <3>3. /\ event'[t].alarm = event[t].alarm
          /\ event'[t].active = event[t].active
          /\ event'[t].old = event[t].old
          /\ event'[t].new = event[t].new
          /\ event'[t].note = event[t].note
          /\ event'[t].trend = event[t].trend
          /\ event'[t].seq = sequence
      BY <3>2, <1>2 DEF AlarmEvent
    <3>4. north[event[t].alarm].seq < sequence
      BY <1>0, <1>3 DEF NumbersUsed
    <3> QED BY <3>1, <3>3, <3>4, <1>1, <1>6 DEF EventMatches
  <2> QED BY <2>1, <2>2
<1>7. InFlightMatches'
  <2> SUFFICES ASSUME NEW u \in Task, pc'[u] # "idle", ~company'[u]
               PROVE  Alone(u)' /\ EventMatches(u)'
    BY DEF InFlightMatches
  <2>1. Alone(u) /\ EventMatches(u)
    BY <1>0, <1>1, <1>5 DEF InFlightMatches
  <2>2. Alone(u)'
    BY <2>1, <1>5 DEF Alone
  <2>3. EventMatches(u)'
    <3>1. CASE u = t
      BY <3>1, <2>1, <1>6
    <3>2. CASE u # t
      BY <3>2, <2>1, <1>1, <1>4 DEF EventMatches
    <3> QED BY <3>1, <3>2
  <2> QED BY <2>2, <2>3
<1>8. \A a \in Alarm : Emitting(a)' <=> Emitting(a)
  BY <1>5 DEF Emitting, EmittingTasks
<1>9. NorthAgreesWithRegistry' /\ ClearTellsItsOwnTrend'
  BY <1>0, <1>1, <1>8 DEF NorthAgreesWithRegistry, ClearTellsItsOwnTrend,
     NorthStatus, StatusOf
<1>10. NumbersUsed'
  <2>1. sequence \in Nat
    BY <1>0 DEF TypeOK
  <2>2. pc'[t] = "post" => event'[t].seq = sequence
    BY <1>0, <1>2 DEF EmitEvent, Render, TypeOK, AlarmEvent
  <2> QED BY <1>0, <1>1, <1>4, <2>1, <2>2 DEF NumbersUsed
<1> QED BY <1>7, <1>9, <1>10

(* A task ending its emission: its event is with the collector, or the alarm *)
(* is marked as missed; an event that had company marks it as raced.         *)
LEMMA EndStep ==
  ASSUME IInv, NEW t \in Task, Deliver(t) \/ Lose(t)
  PROVE  InFlightMatches' /\ NumbersUsed' /\ NorthAgreesWithRegistry'
           /\ ClearTellsItsOwnTrend'
<1> DEFINE a == event[t].alarm
<1>0. TypeOK /\ InFlightMatches /\ NumbersUsed /\ NorthAgreesWithRegistry
        /\ ClearTellsItsOwnTrend
  BY DEF IInv
<1>1. pc[t] = "post" /\ event[t] \in AlarmEvent
  BY <1>0 DEF Deliver, Lose, TypeOK
<1>2. a \in Alarm
  BY <1>1 DEF AlarmEvent
<1>3. /\ UNCHANGED <<registered, state>>
      /\ sequence' = sequence + 1
      /\ pc' = [pc EXCEPT ![t] = "idle"]
      /\ event' = [event EXCEPT ![t] = NoEvent]
      /\ company' = [company EXCEPT ![t] = FALSE]
  BY DEF Deliver, Lose
<1>4. \A b \in Alarm : b # a => /\ north'[b] = north[b]
                                /\ b \in missed' <=> b \in missed
                                /\ b \in raced' <=> b \in raced
  BY <1>0 DEF Deliver, Lose, TypeOK
<1>5. \/ /\ north'[a] = event[t] /\ a \notin missed'
         /\ a \in raced' <=> company[t]
      \/ /\ north'[a] = north[a] /\ a \in missed'
         /\ a \in raced' <=> a \in raced
  BY <1>0, <1>2 DEF Deliver, Lose, TypeOK
<1>6. \A u \in Task : pc'[u] # "idle" =>
        /\ u # t /\ pc[u] # "idle" /\ pc'[u] = pc[u]
        /\ event'[u] = event[u] /\ company'[u] = company[u]
  BY <1>0, <1>3 DEF TypeOK
<1>7. InFlightMatches'
  <2> SUFFICES ASSUME NEW u \in Task, pc'[u] # "idle", ~company'[u]
               PROVE  Alone(u)' /\ EventMatches(u)'
    BY DEF InFlightMatches
  <2>1. Alone(u) /\ EventMatches(u) /\ u # t
    BY <1>0, <1>6 DEF InFlightMatches
  <2>2. event[u].alarm # a /\ event[u].alarm \in Alarm
    BY <2>1, <1>0, <1>1, <1>6 DEF Alone, TypeOK, AlarmEvent
  <2>3. Alone(u)'
    BY <2>1, <1>6 DEF Alone
  <2>4. EventMatches(u)'
    BY <2>1, <2>2, <1>3, <1>4, <1>6 DEF EventMatches
  <2> QED BY <2>3, <2>4
<1>8. NumbersUsed'
  <2>1. sequence \in Nat /\ event[t].seq \in Int /\ event[t].seq <= sequence
    BY <1>0, <1>1 DEF TypeOK, AlarmEvent, NumbersUsed
  <2>2. ASSUME NEW b \in Alarm PROVE north'[b].seq < sequence'
    <3>1. north[b].seq \in Int /\ north[b].seq < sequence
      BY <1>0 DEF TypeOK, AlarmEvent, NumbersUsed
    <3>2. north'[b] = north[b] \/ north'[b] = event[t]
      BY <1>4, <1>5
    <3> QED BY <1>3, <2>1, <3>1, <3>2
  <2>3. ASSUME NEW u \in Task, pc'[u] = "post" PROVE event'[u].seq <= sequence'
    <3>1. pc[u] = "post" /\ event'[u] = event[u] /\ event[u].seq <= sequence
      BY <1>0, <1>6, <2>3 DEF NumbersUsed
    <3>2. event[u].seq \in Int
      BY <1>0, <3>1 DEF TypeOK, AlarmEvent
    <3> QED BY <1>3, <2>1, <3>1, <3>2
  <2> QED BY <2>2, <2>3 DEF NumbersUsed
<1>9. NorthAgreesWithRegistry'
  <2> SUFFICES ASSUME NEW b \in Alarm, ~Emitting(b)', b \notin missed', b \notin raced'
               PROVE  (NorthStatus(b) = StatusOf(state[b]))'
    BY DEF NorthAgreesWithRegistry
  <2>1. CASE b = a
    <3>1. north'[a] = event[t] /\ ~company[t]
      BY <2>1, <1>5
    <3>2. EventMatches(t)
      BY <3>1, <1>0, <1>1 DEF InFlightMatches
    <3> QED BY <2>1, <1>3, <3>1, <3>2 DEF EventMatches, NorthStatus, StatusOf
  <2>2. CASE b # a
    <3>1. ~Emitting(b)
      BY <2>2, <1>0, <1>3 DEF Emitting, EmittingTasks, TypeOK
    <3> QED BY <2>2, <3>1, <1>0, <1>3, <1>4
            DEF NorthAgreesWithRegistry, NorthStatus, StatusOf
  <2> QED BY <2>1, <2>2
<1>10. ClearTellsItsOwnTrend'
  <2> SUFFICES ASSUME NEW b \in Alarm, b \notin raced', ~north'[b].active
               PROVE  north'[b].trend = ClearTrend(north'[b].old)
    BY DEF ClearTellsItsOwnTrend, ClearTrend
  <2>1. CASE north'[b] = north[b] /\ b \notin raced
    BY <2>1, <1>0 DEF ClearTellsItsOwnTrend, ClearTrend
  <2>2. CASE b = a /\ north'[b] = event[t] /\ ~company[t]
    <3>1. EventMatches(t)
      BY <2>2, <1>0, <1>1 DEF InFlightMatches
    <3> QED BY <2>2, <1>1, <3>1 DEF EventMatches
  <2> QED BY <2>1, <2>2, <1>4, <1>5
<1> QED BY <1>7, <1>8, <1>9, <1>10

LEMMA InvStep == IInv /\ [Next]_vars => IInv'
<1> SUFFICES ASSUME IInv, [Next]_vars PROVE IInv'
  OBVIOUS
<1>0. TypeOK /\ InFlightMatches /\ NumbersUsed /\ NorthAgreesWithRegistry
        /\ ClearTellsItsOwnTrend
  BY DEF IInv
<1>T. TypeOK'
  BY <1>0, TypeStep
<1>1. ASSUME NEW t \in Task, NEW a \in Alarm, Register(t, a) PROVE IInv'
  BY <1>0, <1>1, <1>T DEF IInv, Register, InFlightMatches, Alone, EventMatches,
     NumbersUsed, NorthAgreesWithRegistry, Emitting, EmittingTasks, NorthStatus,
     StatusOf, ClearTellsItsOwnTrend
<1>2. ASSUME NEW t \in Task, NEW a \in Alarm, NEW sev \in Severity,
             NEW note \in AnyNote, SetAlarm(t, a, sev, note)
      PROVE IInv'
  <2> DEFINE e == NewEvent(a, TRUE, state[a].severity, sev, "NO_CHANGE", note)
             s == [active |-> TRUE, severity |-> sev,
                   trend |-> "NO_CHANGE", note |-> note]
  <2>1. e \in AlarmEvent /\ s \in AlarmState
    BY <1>0 DEF NewEvent, AlarmEvent, AlarmState, AnySeverity, Trend, TypeOK
  <2>2. /\ e.alarm = a /\ e.active = s.active /\ e.new = s.severity
        /\ e.note = s.note /\ e.old = state[a].severity
        /\ e.trend = s.trend /\ e.trend # "UNREAD" /\ e.active
    BY DEF NewEvent
  <2>3. /\ pc[t] = "idle" /\ Join(t, a)
        /\ state' = [state EXCEPT ![a] = s]
        /\ event' = [event EXCEPT ![t] = e]
        /\ pc' = [pc EXCEPT ![t] = "emit"]
        /\ UNCHANGED <<registered, sequence, north, missed, raced>>
    BY <1>2 DEF SetAlarm, MayCall
  <2> HIDE DEF e, s
  <2>4. InFlightMatches' /\ NumbersUsed' /\ NorthAgreesWithRegistry'
          /\ ClearTellsItsOwnTrend'
    BY <2>1, <2>2, <2>3, CallStep
  <2> QED BY <2>4, <1>T DEF IInv
<1>3. ASSUME NEW t \in Task, NEW a \in Alarm, NEW note \in AnyNote,
             ClearAlarm(t, a, note)
      PROVE IInv'
  <2> DEFINE e == NewEvent(a, FALSE, state[a].severity, "CLEARED", "UNREAD", note)
             s == [active |-> FALSE, severity |-> "CLEARED",
                   trend |-> ClearTrend(state[a].severity), note |-> note]
  <2>1. e \in AlarmEvent /\ s \in AlarmState
    BY <1>0 DEF NewEvent, AlarmEvent, AlarmState, AnySeverity, Trend, TypeOK,
                ClearTrend
  <2>2. /\ e.alarm = a /\ e.active = s.active /\ e.new = s.severity
        /\ e.note = s.note /\ e.old = state[a].severity
        /\ e.trend = "UNREAD" /\ ~e.active /\ s.trend = ClearTrend(e.old)
    BY DEF NewEvent
  <2>3. /\ pc[t] = "idle" /\ Join(t, a)
        /\ state' = [state EXCEPT ![a] = s]
        /\ event' = [event EXCEPT ![t] = e]
        /\ pc' = [pc EXCEPT ![t] = "emit"]
        /\ UNCHANGED <<registered, sequence, north, missed, raced>>
    BY <1>3 DEF ClearAlarm, MayCall
  <2> HIDE DEF e, s
  <2>4. InFlightMatches' /\ NumbersUsed' /\ NorthAgreesWithRegistry'
          /\ ClearTellsItsOwnTrend'
    BY <2>1, <2>2, <2>3, CallStep
  <2> QED BY <2>4, <1>T DEF IInv
<1>4. ASSUME NEW t \in Task, EmitEvent(t) \/ Render(t) PROVE IInv'
  BY <1>4, <1>T, EmitStep DEF IInv
<1>5. ASSUME NEW t \in Task, Deliver(t) \/ Lose(t) PROVE IInv'
  BY <1>5, <1>T, EndStep DEF IInv
<1>6. CASE UNCHANGED vars
  BY <1>0, <1>6, <1>T DEF IInv, vars, InFlightMatches, Alone, EventMatches,
     NumbersUsed, NorthAgreesWithRegistry, Emitting, EmittingTasks, NorthStatus,
     StatusOf, ClearTellsItsOwnTrend
<1> QED BY <1>1, <1>2, <1>3, <1>4, <1>5, <1>6 DEF Next, Call, Send

-----------------------------------------------------------------------------
(* Theorems *)

(* Every behaviour of the registry and the sender keeps the invariant.       *)
LEMMA Invariance == Spec => []IInv
BY InvInit, InvStep, PTL DEF Spec

(* The registry, the events under way and the collector's view stay well     *)
(* typed whatever the tasks call.                                            *)
THEOREM TypeCorrect == Spec => []TypeOK
<1>1. IInv => TypeOK
  BY DEF IInv
<1> QED BY Invariance, <1>1, PTL

(* For any tasks, alarms and callers: set_alarm and clear_alarm emit outside *)
(* the lock, yet the collector's last event of an alarm agrees with the      *)
(* registry unless one is under way, was lost, or overlapped another.        *)
THEOREM NorthCorrect == Spec => []NorthAgreesWithRegistry
<1>1. IInv => NorthAgreesWithRegistry
  BY DEF IInv
<1> QED BY Invariance, <1>1, PTL

(* The trend clear_alarm reads after releasing the lock is the one it wrote, *)
(* unless another event of the alarm was under way with it.                  *)
THEOREM TrendCorrect == Spec => []ClearTellsItsOwnTrend
<1>1. IInv => ClearTellsItsOwnTrend
  BY DEF IInv
<1> QED BY Invariance, <1>1, PTL

(* Events of an alarm that overlap no other of it are numbered upwards and   *)
(* chain by severity, although the tasks share one sequence number without a *)
(* lock.                                                                     *)
THEOREM EventsChain == Spec => EventsFollowOn
<1>1. IInv /\ [Next]_vars => [\A a \in Alarm : FollowsOn(a)]_vars
  <2> SUFFICES ASSUME IInv, Next, NEW a \in Alarm, north'[a] # north[a],
                      a \notin raced'
               PROVE  /\ north'[a].seq > north[a].seq
                      /\ a \in missed \cup raced \/ north'[a].old = north[a].new
    BY DEF FollowsOn
  <2>0. TypeOK /\ InFlightMatches
    BY DEF IInv
  <2>1. PICK t \in Task : Deliver(t)
    BY ZenonT(90) DEF Next, Call, Send, Register, SetAlarm, ClearAlarm, EmitEvent, Render, Lose
  <2>2. pc[t] = "post" /\ event[t] \in AlarmEvent /\ event[t].alarm \in Alarm
    BY <2>0, <2>1 DEF Deliver, TypeOK, AlarmEvent
  <2>3. event[t].alarm = a /\ north'[a] = event[t]
    BY <2>0, <2>1, <2>2 DEF Deliver, TypeOK
  <2>4. ~company[t]
    BY <2>0, <2>1, <2>3 DEF Deliver, TypeOK
  <2>5. EventMatches(t)
    BY <2>0, <2>2, <2>4 DEF InFlightMatches
  <2>6. event[t].seq \in Int /\ north[a].seq \in Int
    BY <2>0, <2>2 DEF TypeOK, AlarmEvent
  <2> QED BY <2>2, <2>3, <2>5, <2>6 DEF EventMatches
<1> QED BY Invariance, <1>1, PTL DEF Spec, EventsFollowOn

(* The registry and the sender implement AlarmFeed (its safety part) with    *)
(* any callers: a step of a task is a change, a hand-over or a drop there,   *)
(* or nothing.                                                               *)
THEOREM ImplementsFeed == Spec => Feed!FeedSafety
<1>1. Init => Feed!FeedInit
  <2> SUFFICES ASSUME Init PROVE Feed!FeedInit
    OBVIOUS
  <2>1. \A t \in Task : ReportOf(t) = {}
    BY DEF Init, ReportOf
  <2>2. \A a \in Alarm : StatusOf(state[a]) = StatusOf(InitialState)
    BY DEF Init
  <2>3. \A a \in Alarm : NorthStatus(a) = StatusOf(InitialState)
    BY DEF Init, NorthStatus, StatusOf, NothingReported, InitialState
  <2>4. missed = {}
    BY DEF Init
  <2> QED BY <2>1, <2>2, <2>3, <2>4 DEF Feed!FeedInit
<1>2. TypeOK /\ [Next]_vars => [Feed!FeedNext]_Feed!feedVars
  <2> SUFFICES ASSUME TypeOK, Next
               PROVE  Feed!FeedNext \/ UNCHANGED Feed!feedVars
    <3>1. CASE UNCHANGED vars
      <4>1. UNCHANGED Feed!feedVars
        BY <3>1 DEF vars, Feed!feedVars, ReportOf, NorthStatus, StatusOf
      <4> QED BY <4>1
    <3> QED BY <3>1
  <2> DEFINE StatusF == [a \in Alarm |-> StatusOf(state[a])]
             ReportF == [a \in Alarm |-> NorthStatus(a)]
             DueF == [t \in Task |-> ReportOf(t)]
  <2>1. ASSUME NEW t \in Task, NEW a \in Alarm, NEW s, NEW e,
               pc[t] = "idle", e.alarm = a, e \in AlarmEvent,
               e.active = s.active, e.new = s.severity, e.note = s.note,
               s \in AlarmState,
               state' = [state EXCEPT ![a] = s],
               event' = [event EXCEPT ![t] = e],
               pc' = [pc EXCEPT ![t] = "emit"],
               UNCHANGED <<north, missed>>
        PROVE  Feed!FeedNext
    <3>1. DueF[t] = {}
      BY <2>1 DEF ReportOf
    <3>2. StatusF' = [StatusF EXCEPT ![a] = StatusOf(s)]
      BY <2>1 DEF TypeOK, StatusOf
    <3>3. DueF' = [DueF EXCEPT ![t] = {[alarm |-> a, status |-> StatusOf(s)]}]
      <4>1. ReportOf(t)' = {[alarm |-> a, status |-> StatusOf(s)]}
        BY <2>1 DEF TypeOK, ReportOf, StatusOf
      <4>2. \A u \in Task : u # t => ReportOf(u)' = ReportOf(u)
        BY <2>1 DEF TypeOK, ReportOf
      <4> QED BY <4>1, <4>2
    <3>4. ReportF' = ReportF
      BY <2>1 DEF NorthStatus
    <3>5. StatusOf(s) \in [active : BOOLEAN, severity : AnySeverity, note : AnyNote]
      BY <2>1 DEF StatusOf, AlarmState
    <3>6. Feed!Change(t, a, StatusOf(s))
      BY <2>1, <3>1, <3>2, <3>3, <3>4 DEF Feed!Change
    <3> QED BY <3>5, <3>6 DEF Feed!FeedNext
  <2>2. ASSUME NEW t \in Task, Deliver(t) \/ Lose(t) PROVE Feed!FeedNext
    <3>1. /\ pc[t] = "post" /\ event[t] \in AlarmEvent
          /\ pc' = [pc EXCEPT ![t] = "idle"]
          /\ event' = [event EXCEPT ![t] = NoEvent]
          /\ UNCHANGED state
      BY <2>2 DEF Deliver, Lose, TypeOK
    <3> DEFINE a == event[t].alarm
               st == [active |-> event[t].active, severity |-> event[t].new,
                      note |-> event[t].note]
               r == [alarm |-> a, status |-> st]
    <3>2. a \in Alarm
      BY <3>1 DEF AlarmEvent
    <3>3. r \in DueF[t] /\ r.alarm = a /\ r.status = st
      BY <3>1 DEF ReportOf
    <3>4. DueF' = [DueF EXCEPT ![t] = {}]
      BY <3>1 DEF TypeOK, ReportOf
    <3>5. StatusF' = StatusF
      BY <3>1 DEF StatusOf
    <3>6. CASE Deliver(t)
      <4>1. north' = [north EXCEPT ![a] = event[t]] /\ missed' = missed \ {a}
        BY <3>6 DEF Deliver
      <4>2. ReportF' = [ReportF EXCEPT ![a] = st]
        BY <3>2, <4>1 DEF NorthStatus, TypeOK
      <4> HIDE DEF st
      <4>3. Feed!HandOver(t)
        BY <3>3, <3>4, <3>5, <4>1, <4>2 DEF Feed!HandOver
      <4> QED BY <4>3 DEF Feed!FeedNext, Feed!Settle
    <3>7. CASE Lose(t)
      <4>1. north' = north /\ missed' = missed \cup {a}
        BY <3>7 DEF Lose
      <4>2. ReportF' = ReportF
        BY <4>1 DEF NorthStatus
      <4> HIDE DEF st
      <4>3. Feed!Drop(t)
        BY <3>3, <3>4, <3>5, <4>1, <4>2 DEF Feed!Drop
      <4> QED BY <4>3 DEF Feed!FeedNext, Feed!Settle
    <3> QED BY <2>2, <3>6, <3>7
  <2>3. ASSUME NEW t \in Task, EmitEvent(t) \/ Render(t)
        PROVE  UNCHANGED Feed!feedVars
    <3>1. /\ pc[t] # "idle" /\ pc'[t] # "idle" /\ event[t] \in AlarmEvent
          /\ \A u \in Task : u # t => event'[u] = event[u] /\ pc'[u] = pc[u]
          /\ UNCHANGED <<state, north, missed>>
      BY <2>3 DEF EmitEvent, Render, TypeOK
    <3>2. /\ event'[t].alarm = event[t].alarm
          /\ event'[t].active = event[t].active
          /\ event'[t].new = event[t].new
          /\ event'[t].note = event[t].note
      BY <2>3, <3>1 DEF EmitEvent, Render, TypeOK, AlarmEvent
    <3>3. DueF' = DueF
      BY <3>1, <3>2 DEF ReportOf
    <3> QED BY <3>1, <3>3 DEF Feed!feedVars, NorthStatus, StatusOf
  <2>4. ASSUME NEW t \in Task, NEW a \in Alarm, Register(t, a)
        PROVE  UNCHANGED Feed!feedVars
    BY <2>4 DEF Register, Feed!feedVars, ReportOf, NorthStatus, StatusOf
  <2>5. ASSUME NEW t \in Task, NEW a \in Alarm, NEW sev \in Severity,
               NEW note \in AnyNote, SetAlarm(t, a, sev, note)
        PROVE  Feed!FeedNext
    <3> DEFINE e == NewEvent(a, TRUE, state[a].severity, sev, "NO_CHANGE", note)
               s == [active |-> TRUE, severity |-> sev,
                     trend |-> "NO_CHANGE", note |-> note]
    <3>1. e \in AlarmEvent /\ s \in AlarmState
      BY DEF NewEvent, AlarmEvent, AlarmState, AnySeverity, Trend, TypeOK
    <3>2. e.alarm = a /\ e.active = s.active /\ e.new = s.severity /\ e.note = s.note
      BY DEF NewEvent
    <3>3. /\ pc[t] = "idle"
          /\ state' = [state EXCEPT ![a] = s]
          /\ event' = [event EXCEPT ![t] = e]
          /\ pc' = [pc EXCEPT ![t] = "emit"]
          /\ UNCHANGED <<north, missed>>
      BY <2>5 DEF SetAlarm, MayCall
    <3> HIDE DEF e, s
    <3> QED BY <2>1, <3>1, <3>2, <3>3
  <2>6. ASSUME NEW t \in Task, NEW a \in Alarm, NEW note \in AnyNote,
               ClearAlarm(t, a, note)
        PROVE  Feed!FeedNext
    <3> DEFINE e == NewEvent(a, FALSE, state[a].severity, "CLEARED", "UNREAD", note)
               s == [active |-> FALSE, severity |-> "CLEARED",
                     trend |-> ClearTrend(state[a].severity), note |-> note]
    <3>1. e \in AlarmEvent /\ s \in AlarmState
      BY DEF NewEvent, AlarmEvent, AlarmState, AnySeverity, Trend, TypeOK, ClearTrend
    <3>2. e.alarm = a /\ e.active = s.active /\ e.new = s.severity /\ e.note = s.note
      BY DEF NewEvent
    <3>3. /\ pc[t] = "idle"
          /\ state' = [state EXCEPT ![a] = s]
          /\ event' = [event EXCEPT ![t] = e]
          /\ pc' = [pc EXCEPT ![t] = "emit"]
          /\ UNCHANGED <<north, missed>>
      BY <2>6 DEF ClearAlarm, MayCall
    <3> HIDE DEF e, s
    <3> QED BY <2>1, <3>1, <3>2, <3>3
  <2> QED BY <2>2, <2>3, <2>4, <2>5, <2>6 DEF Next, Call, Send
<1>3. IInv => TypeOK
  BY DEF IInv
<1> QED BY <1>1, <1>2, <1>3, Invariance, PTL DEF Spec, Feed!FeedSafety
=============================================================================
