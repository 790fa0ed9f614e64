------------------------ MODULE MplaneSession_proofs ------------------------
(***************************************************************************)
(* What the M-plane session guarantees for any timer configuration, any    *)
(* O-RU clock and any number of notifications.                             *)
(***************************************************************************)
EXTENDS MplaneSession, TLAPS

(***************************************************************************)
(* Which phase goes with which await: the phase is DISCONNECTED whenever   *)
(* no cycle is under way, CONNECTING until the first reset is answered.    *)
(***************************************************************************)
Idle == {"start", "close", "retry", "stopped"}
Connecting == {"accept", "connectCmd", "connectNtf", "abandon", "setup", "refuse",
               "subscribe", "firstReset"}

PhaseMatchesPc ==
  /\ pc \in Idle => phase = "DISCONNECTED"
  /\ pc \in Connecting => phase = "CONNECTING"
  /\ pc \in InCycle => phase # "DISCONNECTED"

\* No session exists before it is dialled, nor after _close_sessions; only a
\* call-home peer is ever refused.
SessionsMatchPc ==
  /\ pc \in {"start", "accept", "connectCmd", "setup", "refuse", "retry", "stopped"}
       => cmd = "none" /\ ntf = "none"
  /\ pc = "connectNtf" => ntf = "none" /\ ~CallHome
  /\ pc = "connectCmd" => ~CallHome
  /\ pc \in {"accept", "setup", "refuse"} => CallHome
  /\ stray => CallHome

\* The result of the handlers' thread is awaited where it was started.
HandlersMatchPc == handlers # "none" => pc \in {"handlers", "feed"}

\* What is left of the period, or of the exchange, bounds the silence, and the
\* watchdog goes unfed no longer than that unless the last answer rejected.
FeedInTime ==
  /\ pc = "handlers" /\ fed => silence + timer <= FeedPeriod
  /\ pc = "feed" => fed /\ silence + timer <= FeedPeriod + RpcMax
  /\ pc \in {"handlers", "feed"} => unfed <= silence \/ answer = "rejected"

USE TimerAssumption, SwitchAssumption

\* The timers are what the code's arithmetic makes them.
LEMMA Timers ==
  /\ Budget \in Nat \ {0}
  /\ KeepalivePeriod \in Nat \ {0}
  /\ FeedPeriod \in Nat \ {0}
  /\ SilenceCap \in Nat /\ SilenceCap > 2 * Budget
  /\ HungerCap \in Nat /\ HungerCap <= SilenceCap
  BY DEF Budget, KeepalivePeriod, FeedPeriod, SilenceCap, HungerCap, Min2, Max2

\* A promise of the O-RU never shrinks the budget and at most doubles it.
LEMMA PromisesBounded ==
  \A promise \in Promise :
    DeadlineFrom(promise) \in Nat /\ DeadlineFrom(promise) \in Budget .. 2 * Budget
  BY Timers DEF DeadlineFrom

USE Timers, PromisesBounded

-----------------------------------------------------------------------------
\* Every variable keeps its type: no timer runs below zero.
LEMMA TypeStep == TypeOK /\ [Next]_vars => TypeOK'
<1> SUFFICES ASSUME TypeOK, [Next]_vars PROVE TypeOK'
  OBVIOUS
<1> USE DEF TypeOK, Link, Phase, Pc, Decisions, Timed, Untimed, Rpcs, Min2, Max2,
        Await, Unanswered, Finish, BackOff, ConnectFailed, Teardown, Accepted, Rejected,
        Feeds, FeedsNot, Answered, EnterSupervised, EnterListen, StartHandlers, ToListen, TakeOrDrain,
        Consume, EnterDegraded, env, links, clocks, vars
<1>1. CASE StartCycle
  <2>1. alarms' \subseteq {ConnectionAlarm, SupervisionAlarm}
    BY <1>1 DEF StartCycle
  <2>2. listener' \in BOOLEAN /\ stray' \in BOOLEAN
    BY <1>1 DEF StartCycle
  <2>3. timer' \in Nat /\ left' \in Nat /\ ka' \in Nat /\ silence' \in Nat /\ unfed' \in Nat
    BY <1>1 DEF StartCycle
  <2>4. fed' \in BOOLEAN /\ handlers' \in {"none", "running", "returned", "failed"}
    BY <1>1 DEF StartCycle
  <2>5. answer' \in {"none", "accepted", "rejected"}
    BY <1>1 DEF StartCycle
  <2> QED BY <1>1, <2>1, <2>2, <2>3, <2>4, <2>5 DEF StartCycle
<1>2. CASE RetryOver
  BY <1>2 DEF RetryOver
<1>3. CASE CloseSessions
  <2>1. alarms' \subseteq {ConnectionAlarm, SupervisionAlarm}
    BY <1>3 DEF CloseSessions
  <2>2. listener' \in BOOLEAN /\ stray' \in BOOLEAN
    BY <1>3 DEF CloseSessions
  <2>3. timer' \in Nat /\ left' \in Nat /\ ka' \in Nat /\ silence' \in Nat /\ unfed' \in Nat
    BY <1>3 DEF CloseSessions
  <2>4. fed' \in BOOLEAN /\ handlers' \in {"none", "running", "returned", "failed"}
    BY <1>3 DEF CloseSessions
  <2>5. answer' \in {"none", "accepted", "rejected"}
    BY <1>3 DEF CloseSessions
  <2> QED BY <1>3, <2>1, <2>2, <2>3, <2>4, <2>5 DEF CloseSessions
<1>4. CASE ConnectCommand
  <2>1. alarms' \subseteq {ConnectionAlarm, SupervisionAlarm}
    BY <1>4 DEF ConnectCommand
  <2>2. listener' \in BOOLEAN /\ stray' \in BOOLEAN
    BY <1>4 DEF ConnectCommand
  <2>3. timer' \in Nat /\ left' \in Nat /\ ka' \in Nat /\ silence' \in Nat /\ unfed' \in Nat
    BY <1>4 DEF ConnectCommand
  <2>4. fed' \in BOOLEAN /\ handlers' \in {"none", "running", "returned", "failed"}
    BY <1>4 DEF ConnectCommand
  <2>5. answer' \in {"none", "accepted", "rejected"}
    BY <1>4 DEF ConnectCommand
  <2> QED BY <1>4, <2>1, <2>2, <2>3, <2>4, <2>5 DEF ConnectCommand
<1>5. CASE ConnectNotification
  BY <1>5 DEF ConnectNotification
<1>6. CASE AbandonPair
  <2>1. alarms' \subseteq {ConnectionAlarm, SupervisionAlarm}
    BY <1>6 DEF AbandonPair
  <2>2. listener' \in BOOLEAN /\ stray' \in BOOLEAN
    BY <1>6 DEF AbandonPair
  <2>3. timer' \in Nat /\ left' \in Nat /\ ka' \in Nat /\ silence' \in Nat /\ unfed' \in Nat
    BY <1>6 DEF AbandonPair
  <2>4. fed' \in BOOLEAN /\ handlers' \in {"none", "running", "returned", "failed"}
    BY <1>6 DEF AbandonPair
  <2>5. answer' \in {"none", "accepted", "rejected"}
    BY <1>6 DEF AbandonPair
  <2> QED BY <1>6, <2>1, <2>2, <2>3, <2>4, <2>5 DEF AbandonPair
<1>7. CASE BindListener
  <2>1. alarms' \subseteq {ConnectionAlarm, SupervisionAlarm}
    BY <1>7 DEF BindListener
  <2>2. listener' \in BOOLEAN /\ stray' \in BOOLEAN
    BY <1>7 DEF BindListener
  <2>3. timer' \in Nat /\ left' \in Nat /\ ka' \in Nat /\ silence' \in Nat /\ unfed' \in Nat
    BY <1>7 DEF BindListener
  <2>4. fed' \in BOOLEAN /\ handlers' \in {"none", "running", "returned", "failed"}
    BY <1>7 DEF BindListener
  <2>5. answer' \in {"none", "accepted", "rejected"}
    BY <1>7 DEF BindListener
  <2> QED BY <1>7, <2>1, <2>2, <2>3, <2>4, <2>5 DEF BindListener
<1>8. CASE AcceptStopped
  BY <1>8, ZenonT(30) DEF AcceptStopped
<1>9. CASE SetUpCallHome
  <2>1. alarms' \subseteq {ConnectionAlarm, SupervisionAlarm}
    BY <1>9 DEF SetUpCallHome
  <2>2. listener' \in BOOLEAN /\ stray' \in BOOLEAN
    BY <1>9 DEF SetUpCallHome
  <2>3. timer' \in Nat /\ left' \in Nat /\ ka' \in Nat /\ silence' \in Nat /\ unfed' \in Nat
    BY <1>9 DEF SetUpCallHome
  <2>4. fed' \in BOOLEAN /\ handlers' \in {"none", "running", "returned", "failed"}
    BY <1>9 DEF SetUpCallHome
  <2>5. answer' \in {"none", "accepted", "rejected"}
    BY <1>9 DEF SetUpCallHome
  <2> QED BY <1>9, <2>1, <2>2, <2>3, <2>4, <2>5 DEF SetUpCallHome
<1>10. CASE RefusePeer
  <2>1. alarms' \subseteq {ConnectionAlarm, SupervisionAlarm}
    BY <1>10 DEF RefusePeer
  <2>2. listener' \in BOOLEAN /\ stray' \in BOOLEAN
    BY <1>10 DEF RefusePeer
  <2>3. timer' \in Nat /\ left' \in Nat /\ ka' \in Nat /\ silence' \in Nat /\ unfed' \in Nat
    BY <1>10 DEF RefusePeer
  <2>4. fed' \in BOOLEAN /\ handlers' \in {"none", "running", "returned", "failed"}
    BY <1>10 DEF RefusePeer
  <2>5. answer' \in {"none", "accepted", "rejected"}
    BY <1>10 DEF RefusePeer
  <2> QED BY <1>10, <2>1, <2>2, <2>3, <2>4, <2>5 DEF RefusePeer
<1>11. CASE Subscribe
  BY <1>11 DEF Subscribe
<1>12. CASE FirstReset
  <2>1. alarms' \subseteq {ConnectionAlarm, SupervisionAlarm}
    BY <1>12 DEF FirstReset
  <2>2. listener' \in BOOLEAN /\ stray' \in BOOLEAN
    BY <1>12 DEF FirstReset
  <2>3. timer' \in Nat /\ left' \in Nat /\ ka' \in Nat /\ silence' \in Nat /\ unfed' \in Nat
    BY <1>12 DEF FirstReset
  <2>4. fed' \in BOOLEAN /\ handlers' \in {"none", "running", "returned", "failed"}
    BY <1>12 DEF FirstReset
  <2>5. answer' \in {"none", "accepted", "rejected"}
    BY <1>12 DEF FirstReset
  <2> QED BY <1>12, <2>1, <2>2, <2>3, <2>4, <2>5 DEF FirstReset
<1>13. CASE FeedOrWait
  BY <1>13 DEF FeedOrWait
<1>14. CASE HandlersDone
  BY <1>14 DEF HandlersDone
<1>15. CASE FeedReset
  <2>1. alarms' \subseteq {ConnectionAlarm, SupervisionAlarm}
    BY <1>15 DEF FeedReset
  <2>2. listener' \in BOOLEAN /\ stray' \in BOOLEAN
    BY <1>15 DEF FeedReset
  <2>3. timer' \in Nat /\ left' \in Nat /\ ka' \in Nat /\ silence' \in Nat /\ unfed' \in Nat
    BY <1>15 DEF FeedReset
  <2>4. fed' \in BOOLEAN /\ handlers' \in {"none", "running", "returned", "failed"}
    BY <1>15 DEF FeedReset
  <2>5. answer' \in {"none", "accepted", "rejected"}
    BY <1>15 DEF FeedReset
  <2> QED BY <1>15, <2>1, <2>2, <2>3, <2>4, <2>5 DEF FeedReset
<1>16. CASE PostReset
  BY <1>16 DEF PostReset
<1>17. CASE Listen
  BY <1>17 DEF Listen
<1>18. CASE Keepalive
  BY <1>18 DEF Keepalive
<1>19. CASE Take
  BY <1>19 DEF Take
<1>20. CASE TakeTimeout
  BY <1>20 DEF TakeTimeout
<1>21. CASE Drain
  BY <1>21 DEF Drain
<1>22. CASE SupReset
  BY <1>22 DEF SupReset
<1>23. CASE DegReset
  BY <1>23 DEF DegReset
<1>24. CASE DispatchDone
  BY <1>24 DEF DispatchDone
<1>25. CASE HandlersFinish
  BY <1>25 DEF HandlersFinish
<1>26. CASE DialIn
  BY <1>26 DEF DialIn
<1>27. CASE AcceptFails
  <2>1. alarms' \subseteq {ConnectionAlarm, SupervisionAlarm}
    BY <1>27 DEF AcceptFails
  <2>2. listener' \in BOOLEAN /\ stray' \in BOOLEAN
    BY <1>27 DEF AcceptFails
  <2>3. timer' \in Nat /\ left' \in Nat /\ ka' \in Nat /\ silence' \in Nat /\ unfed' \in Nat
    BY <1>27 DEF AcceptFails
  <2>4. fed' \in BOOLEAN /\ handlers' \in {"none", "running", "returned", "failed"}
    BY <1>27 DEF AcceptFails
  <2>5. answer' \in {"none", "accepted", "rejected"}
    BY <1>27 DEF AcceptFails
  <2> QED BY <1>27, <2>1, <2>2, <2>3, <2>4, <2>5 DEF AcceptFails
<1>28. CASE RequestStop
  BY <1>28 DEF RequestStop
<1>29. CASE LinkDrops
  BY <1>29 DEF LinkDrops
<1>30. CASE FallSilent
  BY <1>30 DEF FallSilent
<1>31. CASE CalmDown
  BY <1>31 DEF CalmDown
<1>32. ASSUME NEW kind \in {"supervision", "other"}, Notify(kind) PROVE TypeOK'
  BY <1>32 DEF Notify
<1>33. CASE Tick
  BY <1>33 DEF Tick, Down, Timed, Untimed, Rpcs, Woken
<1>34. CASE Stopped
  BY <1>34 DEF Stopped
<1>35. CASE UNCHANGED vars
  BY <1>35
<1> QED
  BY <1>1, <1>2, <1>3, <1>4, <1>5, <1>6, <1>7, <1>8, <1>9, <1>10, <1>11, <1>12, <1>13, <1>14, <1>15, <1>16, <1>17, <1>18, <1>19, <1>20, <1>21, <1>22, <1>23, <1>24, <1>25, <1>26, <1>27, <1>28, <1>29, <1>30, <1>31, <1>32, <1>33, <1>34, <1>35
     DEF Next, SessionStep, CycleStep, ListenStep, EnvStep

\* The phase follows the awaits.
LEMMA PhaseStep == TypeOK /\ PhaseMatchesPc /\ [Next]_vars => PhaseMatchesPc'
<1> SUFFICES ASSUME TypeOK /\ PhaseMatchesPc, [Next]_vars PROVE PhaseMatchesPc'
  OBVIOUS
<1> USE DEF PhaseMatchesPc, TypeOK, Idle, Connecting, InCycle, Listening,
        Await, Unanswered, Finish, BackOff, ConnectFailed, Teardown, Accepted, Rejected,
        Feeds, FeedsNot, Answered, EnterSupervised, EnterListen, StartHandlers, ToListen, TakeOrDrain,
        Consume, EnterDegraded, env, links, clocks, vars
<1>1. CASE StartCycle
  BY <1>1 DEF StartCycle
<1>2. CASE RetryOver
  BY <1>2 DEF RetryOver
<1>3. CASE CloseSessions
  BY <1>3 DEF CloseSessions
<1>4. CASE ConnectCommand
  BY <1>4 DEF ConnectCommand
<1>5. CASE ConnectNotification
  BY <1>5 DEF ConnectNotification
<1>6. CASE AbandonPair
  BY <1>6 DEF AbandonPair
<1>7. CASE BindListener
  BY <1>7 DEF BindListener
<1>8. CASE AcceptStopped
  BY <1>8 DEF AcceptStopped
<1>9. CASE SetUpCallHome
  BY <1>9 DEF SetUpCallHome
<1>10. CASE RefusePeer
  BY <1>10 DEF RefusePeer
<1>11. CASE Subscribe
  BY <1>11 DEF Subscribe
<1>12. CASE FirstReset
  BY <1>12 DEF FirstReset
<1>13. CASE FeedOrWait
  BY <1>13 DEF FeedOrWait
<1>14. CASE HandlersDone
  BY <1>14 DEF HandlersDone
<1>15. CASE FeedReset
  BY <1>15 DEF FeedReset
<1>16. CASE PostReset
  BY <1>16 DEF PostReset
<1>17. CASE Listen
  BY <1>17 DEF Listen
<1>18. CASE Keepalive
  BY <1>18 DEF Keepalive
<1>19. CASE Take
  BY <1>19 DEF Take
<1>20. CASE TakeTimeout
  BY <1>20 DEF TakeTimeout
<1>21. CASE Drain
  BY <1>21 DEF Drain
<1>22. CASE SupReset
  BY <1>22 DEF SupReset
<1>23. CASE DegReset
  BY <1>23 DEF DegReset
<1>24. CASE DispatchDone
  BY <1>24 DEF DispatchDone
<1>25. CASE HandlersFinish
  BY <1>25 DEF HandlersFinish
<1>26. CASE DialIn
  BY <1>26 DEF DialIn
<1>27. CASE AcceptFails
  BY <1>27 DEF AcceptFails
<1>28. CASE RequestStop
  BY <1>28 DEF RequestStop
<1>29. CASE LinkDrops
  BY <1>29 DEF LinkDrops
<1>30. CASE FallSilent
  BY <1>30 DEF FallSilent
<1>31. CASE CalmDown
  BY <1>31 DEF CalmDown
<1>32. ASSUME NEW kind \in {"supervision", "other"}, Notify(kind) PROVE PhaseMatchesPc'
  BY <1>32 DEF Notify
<1>33. CASE Tick
  BY <1>33 DEF Tick, Down, Timed, Untimed, Rpcs, Woken
<1>34. CASE Stopped
  BY <1>34 DEF Stopped
<1>35. CASE UNCHANGED vars
  BY <1>35
<1> QED
  BY <1>1, <1>2, <1>3, <1>4, <1>5, <1>6, <1>7, <1>8, <1>9, <1>10, <1>11, <1>12, <1>13, <1>14, <1>15, <1>16, <1>17, <1>18, <1>19, <1>20, <1>21, <1>22, <1>23, <1>24, <1>25, <1>26, <1>27, <1>28, <1>29, <1>30, <1>31, <1>32, <1>33, <1>34, <1>35
     DEF Next, SessionStep, CycleStep, ListenStep, EnvStep

\* The alarms follow the phase.
LEMMA AlarmsStep == TypeOK /\ PhaseMatchesPc /\ AlarmsMatchPhase /\ [Next]_vars => AlarmsMatchPhase'
<1> SUFFICES ASSUME TypeOK /\ PhaseMatchesPc /\ AlarmsMatchPhase, [Next]_vars PROVE AlarmsMatchPhase'
  OBVIOUS
<1> USE DEF AlarmsMatchPhase, PhaseMatchesPc, TypeOK, Idle, Connecting, InCycle, Listening,
        ConnectionAlarm, SupervisionAlarm,
        Await, Unanswered, Finish, BackOff, ConnectFailed, Teardown, Accepted, Rejected,
        Feeds, FeedsNot, Answered, EnterSupervised, EnterListen, StartHandlers, ToListen, TakeOrDrain,
        Consume, EnterDegraded, env, links, clocks, vars
<1>1. CASE StartCycle
  BY <1>1 DEF StartCycle
<1>2. CASE RetryOver
  BY <1>2 DEF RetryOver
<1>3. CASE CloseSessions
  BY <1>3 DEF CloseSessions
<1>4. CASE ConnectCommand
  BY <1>4 DEF ConnectCommand
<1>5. CASE ConnectNotification
  BY <1>5 DEF ConnectNotification
<1>6. CASE AbandonPair
  BY <1>6 DEF AbandonPair
<1>7. CASE BindListener
  BY <1>7 DEF BindListener
<1>8. CASE AcceptStopped
  BY <1>8 DEF AcceptStopped
<1>9. CASE SetUpCallHome
  BY <1>9 DEF SetUpCallHome
<1>10. CASE RefusePeer
  BY <1>10 DEF RefusePeer
<1>11. CASE Subscribe
  BY <1>11 DEF Subscribe
<1>12. CASE FirstReset
  BY <1>12 DEF FirstReset
<1>13. CASE FeedOrWait
  BY <1>13 DEF FeedOrWait
<1>14. CASE HandlersDone
  BY <1>14 DEF HandlersDone
<1>15. CASE FeedReset
  BY <1>15 DEF FeedReset
<1>16. CASE PostReset
  BY <1>16 DEF PostReset
<1>17. CASE Listen
  BY <1>17 DEF Listen
<1>18. CASE Keepalive
  BY <1>18 DEF Keepalive
<1>19. CASE Take
  BY <1>19 DEF Take
<1>20. CASE TakeTimeout
  BY <1>20 DEF TakeTimeout
<1>21. CASE Drain
  BY <1>21 DEF Drain
<1>22. CASE SupReset
  BY <1>22 DEF SupReset
<1>23. CASE DegReset
  BY <1>23 DEF DegReset
<1>24. CASE DispatchDone
  BY <1>24 DEF DispatchDone
<1>25. CASE HandlersFinish
  BY <1>25 DEF HandlersFinish
<1>26. CASE DialIn
  BY <1>26 DEF DialIn
<1>27. CASE AcceptFails
  BY <1>27 DEF AcceptFails
<1>28. CASE RequestStop
  BY <1>28 DEF RequestStop
<1>29. CASE LinkDrops
  BY <1>29 DEF LinkDrops
<1>30. CASE FallSilent
  BY <1>30 DEF FallSilent
<1>31. CASE CalmDown
  BY <1>31 DEF CalmDown
<1>32. ASSUME NEW kind \in {"supervision", "other"}, Notify(kind) PROVE AlarmsMatchPhase'
  BY <1>32 DEF Notify
<1>33. CASE Tick
  BY <1>33 DEF Tick, Down, Timed, Untimed, Rpcs, Woken
<1>34. CASE Stopped
  BY <1>34 DEF Stopped
<1>35. CASE UNCHANGED vars
  BY <1>35
<1> QED
  BY <1>1, <1>2, <1>3, <1>4, <1>5, <1>6, <1>7, <1>8, <1>9, <1>10, <1>11, <1>12, <1>13, <1>14, <1>15, <1>16, <1>17, <1>18, <1>19, <1>20, <1>21, <1>22, <1>23, <1>24, <1>25, <1>26, <1>27, <1>28, <1>29, <1>30, <1>31, <1>32, <1>33, <1>34, <1>35
     DEF Next, SessionStep, CycleStep, ListenStep, EnvStep

\* Sessions exist only within their cycle.
LEMMA SessionsStep == TypeOK /\ SessionsMatchPc /\ [Next]_vars => SessionsMatchPc'
<1> SUFFICES ASSUME TypeOK /\ SessionsMatchPc, [Next]_vars PROVE SessionsMatchPc'
  OBVIOUS
<1> USE DEF SessionsMatchPc, TypeOK, InCycle, Listening,
        Await, Unanswered, Finish, BackOff, ConnectFailed, Teardown, Accepted, Rejected,
        Feeds, FeedsNot, Answered, EnterSupervised, EnterListen, StartHandlers, ToListen, TakeOrDrain,
        Consume, EnterDegraded, env, links, clocks, vars
<1>1. CASE StartCycle
  BY <1>1 DEF StartCycle
<1>2. CASE RetryOver
  BY <1>2 DEF RetryOver
<1>3. CASE CloseSessions
  BY <1>3 DEF CloseSessions
<1>4. CASE ConnectCommand
  BY <1>4 DEF ConnectCommand
<1>5. CASE ConnectNotification
  BY <1>5 DEF ConnectNotification
<1>6. CASE AbandonPair
  BY <1>6 DEF AbandonPair
<1>7. CASE BindListener
  BY <1>7 DEF BindListener
<1>8. CASE AcceptStopped
  BY <1>8 DEF AcceptStopped
<1>9. CASE SetUpCallHome
  BY <1>9 DEF SetUpCallHome
<1>10. CASE RefusePeer
  BY <1>10 DEF RefusePeer
<1>11. CASE Subscribe
  BY <1>11 DEF Subscribe
<1>12. CASE FirstReset
  BY <1>12 DEF FirstReset
<1>13. CASE FeedOrWait
  BY <1>13 DEF FeedOrWait
<1>14. CASE HandlersDone
  BY <1>14 DEF HandlersDone
<1>15. CASE FeedReset
  BY <1>15 DEF FeedReset
<1>16. CASE PostReset
  BY <1>16 DEF PostReset
<1>17. CASE Listen
  BY <1>17 DEF Listen
<1>18. CASE Keepalive
  BY <1>18 DEF Keepalive
<1>19. CASE Take
  BY <1>19 DEF Take
<1>20. CASE TakeTimeout
  BY <1>20 DEF TakeTimeout
<1>21. CASE Drain
  BY <1>21 DEF Drain
<1>22. CASE SupReset
  BY <1>22 DEF SupReset
<1>23. CASE DegReset
  BY <1>23 DEF DegReset
<1>24. CASE DispatchDone
  BY <1>24 DEF DispatchDone
<1>25. CASE HandlersFinish
  BY <1>25 DEF HandlersFinish
<1>26. CASE DialIn
  BY <1>26 DEF DialIn
<1>27. CASE AcceptFails
  BY <1>27 DEF AcceptFails
<1>28. CASE RequestStop
  BY <1>28 DEF RequestStop
<1>29. CASE LinkDrops
  BY <1>29 DEF LinkDrops
<1>30. CASE FallSilent
  BY <1>30 DEF FallSilent
<1>31. CASE CalmDown
  BY <1>31 DEF CalmDown
<1>32. ASSUME NEW kind \in {"supervision", "other"}, Notify(kind) PROVE SessionsMatchPc'
  BY <1>32 DEF Notify
<1>33. CASE Tick
  BY <1>33 DEF Tick, Down, Timed, Untimed, Rpcs, Woken
<1>34. CASE Stopped
  BY <1>34 DEF Stopped
<1>35. CASE UNCHANGED vars
  BY <1>35
<1> QED
  BY <1>1, <1>2, <1>3, <1>4, <1>5, <1>6, <1>7, <1>8, <1>9, <1>10, <1>11, <1>12, <1>13, <1>14, <1>15, <1>16, <1>17, <1>18, <1>19, <1>20, <1>21, <1>22, <1>23, <1>24, <1>25, <1>26, <1>27, <1>28, <1>29, <1>30, <1>31, <1>32, <1>33, <1>34, <1>35
     DEF Next, SessionStep, CycleStep, ListenStep, EnvStep

\* The handlers' thread is never left behind.
LEMMA HandlersStep == TypeOK /\ HandlersMatchPc /\ [Next]_vars => HandlersMatchPc'
<1> SUFFICES ASSUME TypeOK /\ HandlersMatchPc, [Next]_vars PROVE HandlersMatchPc'
  OBVIOUS
<1> USE DEF HandlersMatchPc, TypeOK, InCycle, Listening,
        Await, Unanswered, Finish, BackOff, ConnectFailed, Teardown, Accepted, Rejected,
        Feeds, FeedsNot, Answered, EnterSupervised, EnterListen, StartHandlers, ToListen, TakeOrDrain,
        Consume, EnterDegraded, env, links, clocks, vars
<1>1. CASE StartCycle
  BY <1>1 DEF StartCycle
<1>2. CASE RetryOver
  BY <1>2 DEF RetryOver
<1>3. CASE CloseSessions
  BY <1>3 DEF CloseSessions
<1>4. CASE ConnectCommand
  BY <1>4 DEF ConnectCommand
<1>5. CASE ConnectNotification
  BY <1>5 DEF ConnectNotification
<1>6. CASE AbandonPair
  BY <1>6 DEF AbandonPair
<1>7. CASE BindListener
  BY <1>7 DEF BindListener
<1>8. CASE AcceptStopped
  BY <1>8 DEF AcceptStopped
<1>9. CASE SetUpCallHome
  BY <1>9 DEF SetUpCallHome
<1>10. CASE RefusePeer
  BY <1>10 DEF RefusePeer
<1>11. CASE Subscribe
  BY <1>11 DEF Subscribe
<1>12. CASE FirstReset
  BY <1>12 DEF FirstReset
<1>13. CASE FeedOrWait
  BY <1>13 DEF FeedOrWait
<1>14. CASE HandlersDone
  BY <1>14 DEF HandlersDone
<1>15. CASE FeedReset
  BY <1>15 DEF FeedReset
<1>16. CASE PostReset
  BY <1>16 DEF PostReset
<1>17. CASE Listen
  BY <1>17 DEF Listen
<1>18. CASE Keepalive
  BY <1>18 DEF Keepalive
<1>19. CASE Take
  BY <1>19 DEF Take
<1>20. CASE TakeTimeout
  BY <1>20 DEF TakeTimeout
<1>21. CASE Drain
  BY <1>21 DEF Drain
<1>22. CASE SupReset
  BY <1>22 DEF SupReset
<1>23. CASE DegReset
  BY <1>23 DEF DegReset
<1>24. CASE DispatchDone
  BY <1>24 DEF DispatchDone
<1>25. CASE HandlersFinish
  BY <1>25 DEF HandlersFinish
<1>26. CASE DialIn
  BY <1>26 DEF DialIn
<1>27. CASE AcceptFails
  BY <1>27 DEF AcceptFails
<1>28. CASE RequestStop
  BY <1>28 DEF RequestStop
<1>29. CASE LinkDrops
  BY <1>29 DEF LinkDrops
<1>30. CASE FallSilent
  BY <1>30 DEF FallSilent
<1>31. CASE CalmDown
  BY <1>31 DEF CalmDown
<1>32. ASSUME NEW kind \in {"supervision", "other"}, Notify(kind) PROVE HandlersMatchPc'
  BY <1>32 DEF Notify
<1>33. CASE Tick
  BY <1>33 DEF Tick, Down, Timed, Untimed, Rpcs, Woken
<1>34. CASE Stopped
  BY <1>34 DEF Stopped
<1>35. CASE UNCHANGED vars
  BY <1>35
<1> QED
  BY <1>1, <1>2, <1>3, <1>4, <1>5, <1>6, <1>7, <1>8, <1>9, <1>10, <1>11, <1>12, <1>13, <1>14, <1>15, <1>16, <1>17, <1>18, <1>19, <1>20, <1>21, <1>22, <1>23, <1>24, <1>25, <1>26, <1>27, <1>28, <1>29, <1>30, <1>31, <1>32, <1>33, <1>34, <1>35
     DEF Next, SessionStep, CycleStep, ListenStep, EnvStep

\* Feeding keeps its period.
LEMMA FeedStep == TypeOK /\ FeedInTime /\ [Next]_vars => FeedInTime'
<1> SUFFICES ASSUME TypeOK /\ FeedInTime, [Next]_vars PROVE FeedInTime'
  OBVIOUS
<1> USE DEF FeedInTime, TypeOK, InCycle, Listening, Min2,
        Await, Unanswered, Finish, BackOff, ConnectFailed, Teardown, Accepted, Rejected,
        Feeds, FeedsNot, Answered, EnterSupervised, EnterListen, StartHandlers, ToListen, TakeOrDrain,
        Consume, EnterDegraded, env, links, clocks, vars
<1>1. CASE StartCycle
  BY <1>1 DEF StartCycle
<1>2. CASE RetryOver
  BY <1>2 DEF RetryOver
<1>3. CASE CloseSessions
  BY <1>3 DEF CloseSessions
<1>4. CASE ConnectCommand
  BY <1>4 DEF ConnectCommand
<1>5. CASE ConnectNotification
  BY <1>5 DEF ConnectNotification
<1>6. CASE AbandonPair
  BY <1>6 DEF AbandonPair
<1>7. CASE BindListener
  BY <1>7 DEF BindListener
<1>8. CASE AcceptStopped
  BY <1>8 DEF AcceptStopped
<1>9. CASE SetUpCallHome
  BY <1>9 DEF SetUpCallHome
<1>10. CASE RefusePeer
  BY <1>10 DEF RefusePeer
<1>11. CASE Subscribe
  BY <1>11 DEF Subscribe
<1>12. CASE FirstReset
  BY <1>12 DEF FirstReset
<1>13. CASE FeedOrWait
  BY <1>13 DEF FeedOrWait
<1>14. CASE HandlersDone
  BY <1>14 DEF HandlersDone
<1>15. CASE FeedReset
  <2>1. pc' = "handlers" /\ timer' = FeedPeriod
    BY <1>15 DEF FeedReset
  <2>2. fed' = FALSE \/ silence' = 0
    BY <1>15 DEF FeedReset
  <2>3. FeedPeriod' = FeedPeriod
    BY DEF FeedPeriod, Max2
  <2>4. unfed' <= silence' \/ answer' = "rejected"
    <3>1. unfed <= silence \/ answer = "rejected"
      BY <1>15 DEF FeedReset
    <3>2. CASE Answered /\ Feeds
      BY <3>2
    <3>3. CASE FeedsNot
      BY <3>3
    <3>4. CASE UNCHANGED <<silence, unfed, answer>>
      BY <3>1, <3>4
    <3> QED BY <1>15, <3>2, <3>3, <3>4 DEF FeedReset
  <2> QED BY <2>1, <2>2, <2>3, <2>4
<1>16. CASE PostReset
  BY <1>16 DEF PostReset
<1>17. CASE Listen
  BY <1>17 DEF Listen
<1>18. CASE Keepalive
  BY <1>18 DEF Keepalive
<1>19. CASE Take
  BY <1>19 DEF Take
<1>20. CASE TakeTimeout
  BY <1>20 DEF TakeTimeout
<1>21. CASE Drain
  BY <1>21 DEF Drain
<1>22. CASE SupReset
  BY <1>22 DEF SupReset
<1>23. CASE DegReset
  BY <1>23 DEF DegReset
<1>24. CASE DispatchDone
  BY <1>24 DEF DispatchDone
<1>25. CASE HandlersFinish
  BY <1>25 DEF HandlersFinish
<1>26. CASE DialIn
  BY <1>26 DEF DialIn
<1>27. CASE AcceptFails
  BY <1>27 DEF AcceptFails
<1>28. CASE RequestStop
  BY <1>28 DEF RequestStop
<1>29. CASE LinkDrops
  BY <1>29 DEF LinkDrops
<1>30. CASE FallSilent
  BY <1>30 DEF FallSilent
<1>31. CASE CalmDown
  BY <1>31 DEF CalmDown
<1>32. ASSUME NEW kind \in {"supervision", "other"}, Notify(kind) PROVE FeedInTime'
  BY <1>32 DEF Notify
<1>33. CASE Tick
  BY <1>33 DEF Tick, Down, Timed, Untimed, Rpcs, Woken
<1>34. CASE Stopped
  BY <1>34 DEF Stopped
<1>35. CASE UNCHANGED vars
  BY <1>35
<1> QED
  BY <1>1, <1>2, <1>3, <1>4, <1>5, <1>6, <1>7, <1>8, <1>9, <1>10, <1>11, <1>12, <1>13, <1>14, <1>15, <1>16, <1>17, <1>18, <1>19, <1>20, <1>21, <1>22, <1>23, <1>24, <1>25, <1>26, <1>27, <1>28, <1>29, <1>30, <1>31, <1>32, <1>33, <1>34, <1>35
     DEF Next, SessionStep, CycleStep, ListenStep, EnvStep

\* Every deadline that is set is honest, and time runs for it and for the
\* silence alike.
LEMMA DeadlineStep == TypeOK /\ DeadlineHonest /\ [Next]_vars => DeadlineHonest'
<1> SUFFICES ASSUME TypeOK /\ DeadlineHonest, [Next]_vars PROVE DeadlineHonest'
  OBVIOUS
<1> USE DEF DeadlineHonest, TypeOK, InCycle, Listening, Min2,
        Await, Unanswered, Finish, BackOff, ConnectFailed, Teardown, Accepted, Rejected,
        Feeds, FeedsNot, Answered, EnterSupervised, EnterListen, StartHandlers, ToListen, TakeOrDrain,
        Consume, EnterDegraded, env, links, clocks, vars
<1>1. CASE StartCycle
  BY <1>1 DEF StartCycle
<1>2. CASE RetryOver
  BY <1>2 DEF RetryOver
<1>3. CASE CloseSessions
  BY <1>3 DEF CloseSessions
<1>4. CASE ConnectCommand
  BY <1>4 DEF ConnectCommand
<1>5. CASE ConnectNotification
  BY <1>5 DEF ConnectNotification
<1>6. CASE AbandonPair
  BY <1>6 DEF AbandonPair
<1>7. CASE BindListener
  BY <1>7 DEF BindListener
<1>8. CASE AcceptStopped
  BY <1>8 DEF AcceptStopped
<1>9. CASE SetUpCallHome
  BY <1>9 DEF SetUpCallHome
<1>10. CASE RefusePeer
  BY <1>10 DEF RefusePeer
<1>11. CASE Subscribe
  BY <1>11 DEF Subscribe
<1>12. CASE FirstReset
  BY <1>12 DEF FirstReset
<1>13. CASE FeedOrWait
  BY <1>13 DEF FeedOrWait
<1>14. CASE HandlersDone
  BY <1>14 DEF HandlersDone
<1>15. CASE FeedReset
  BY <1>15 DEF FeedReset
<1>16. CASE PostReset
  BY <1>16 DEF PostReset
<1>17. CASE Listen
  BY <1>17 DEF Listen
<1>18. CASE Keepalive
  BY <1>18 DEF Keepalive
<1>19. CASE Take
  BY <1>19 DEF Take
<1>20. CASE TakeTimeout
  BY <1>20 DEF TakeTimeout
<1>21. CASE Drain
  BY <1>21 DEF Drain
<1>22. CASE SupReset
  BY <1>22 DEF SupReset
<1>23. CASE DegReset
  BY <1>23 DEF DegReset
<1>24. CASE DispatchDone
  BY <1>24 DEF DispatchDone
<1>25. CASE HandlersFinish
  BY <1>25 DEF HandlersFinish
<1>26. CASE DialIn
  BY <1>26 DEF DialIn
<1>27. CASE AcceptFails
  BY <1>27 DEF AcceptFails
<1>28. CASE RequestStop
  BY <1>28 DEF RequestStop
<1>29. CASE LinkDrops
  BY <1>29 DEF LinkDrops
<1>30. CASE FallSilent
  BY <1>30 DEF FallSilent
<1>31. CASE CalmDown
  BY <1>31 DEF CalmDown
<1>32. ASSUME NEW kind \in {"supervision", "other"}, Notify(kind) PROVE DeadlineHonest'
  BY <1>32 DEF Notify
<1>33. CASE Tick
  BY <1>33 DEF Tick, Down, Timed, Untimed, Rpcs, Woken
<1>34. CASE Stopped
  BY <1>34 DEF Stopped
<1>35. CASE UNCHANGED vars
  BY <1>35
<1> QED
  BY <1>1, <1>2, <1>3, <1>4, <1>5, <1>6, <1>7, <1>8, <1>9, <1>10, <1>11, <1>12, <1>13, <1>14, <1>15, <1>16, <1>17, <1>18, <1>19, <1>20, <1>21, <1>22, <1>23, <1>24, <1>25, <1>26, <1>27, <1>28, <1>29, <1>30, <1>31, <1>32, <1>33, <1>34, <1>35
     DEF Next, SessionStep, CycleStep, ListenStep, EnvStep

-----------------------------------------------------------------------------
IInv ==
  /\ TypeOK
  /\ PhaseMatchesPc
  /\ AlarmsMatchPhase
  /\ SessionsMatchPc
  /\ HandlersMatchPc
  /\ FeedInTime
  /\ DeadlineHonest

LEMMA InvInit == Init => IInv
<1> SUFFICES ASSUME Init PROVE IInv
  OBVIOUS
<1>1. TypeOK
  <2>1. pc \in Pc
    BY DEF Init, Pc, Decisions
  <2>2. queue \in Seq({"supervision", "other"})
    BY DEF Init
  <2>3. others \in Nat
    BY DEF Init
  <2> QED
    BY <2>1, <2>2, <2>3 DEF Init, TypeOK, Link, Phase
<1>2. PhaseMatchesPc /\ AlarmsMatchPhase
  BY DEF Init, PhaseMatchesPc, AlarmsMatchPhase, Idle, Connecting, InCycle, Listening
<1>3. SessionsMatchPc /\ HandlersMatchPc
  BY DEF Init, SessionsMatchPc, HandlersMatchPc
<1>4. FeedInTime /\ DeadlineHonest
  BY DEF Init, FeedInTime, DeadlineHonest, Listening
<1> QED
  BY <1>1, <1>2, <1>3, <1>4 DEF IInv

LEMMA InvStep == IInv /\ [Next]_vars => IInv'
  BY TypeStep, PhaseStep, AlarmsStep, SessionsStep, HandlersStep, FeedStep, DeadlineStep
     DEF IInv

LEMMA Invariance == Spec => []IInv
  BY InvInit, InvStep, PTL DEF Spec

\* The session's variables keep their types, whatever the O-RU does.
THEOREM TypeCorrect == Spec => []TypeOK
  BY Invariance, PTL DEF IInv

\* The phase and the two alarms always agree.
THEOREM AlarmsCorrect == Spec => []AlarmsMatchPhase
  BY Invariance, PTL DEF IInv

\* No O-RU clock and no cycle handler makes the session starve too early or
\* wait for more than twice the budget.
THEOREM DeadlineCorrect == Spec => []DeadlineHonest
  BY Invariance, PTL DEF IInv

\* However long the cycle handlers run, the O-RU is asked in time, and its
\* watchdog is fed in time unless it rejects what it is asked.
THEOREM FeedCorrect == Spec => []FedWhileHandling
<1>1. IInv => FedWhileHandling
  BY DEF IInv, TypeOK, FeedInTime, FedWhileHandling
<1> QED
  BY <1>1, Invariance, PTL

\* No cycle ends under a running handler.
THEOREM HandlersCorrect == Spec => []HandlersDoneBeforeTeardown
<1>1. IInv => HandlersDoneBeforeTeardown
  BY DEF IInv, HandlersMatchPc, HandlersDoneBeforeTeardown
<1> QED
  BY <1>1, Invariance, PTL

\* No session outlives its cycle, and only call-home leaves a transport behind.
THEOREM SessionsCorrect == Spec => []NoSessionOutlivesCycle
<1>1. IInv => NoSessionOutlivesCycle
  BY DEF IInv, SessionsMatchPc, NoSessionOutlivesCycle
<1> QED
  BY <1>1, Invariance, PTL

-----------------------------------------------------------------------------
\* Nothing the session does after a stop was requested raises 1003.
LEMMA StopStep ==
  IInv /\ [Next]_vars /\ stop /\ ConnectionAlarm \in alarms' => ConnectionAlarm \in alarms
<1> SUFFICES ASSUME IInv, [Next]_vars, stop, ConnectionAlarm \in alarms'
             PROVE ConnectionAlarm \in alarms
  OBVIOUS
<1> USE DEF IInv, TypeOK, ConnectionAlarm, SupervisionAlarm,
        Await, Unanswered, Finish, BackOff, ConnectFailed, Teardown, Accepted, Rejected,
        Feeds, FeedsNot, Answered, EnterSupervised, EnterListen, StartHandlers, ToListen, TakeOrDrain,
        Consume, EnterDegraded, env, links, clocks, vars
<1>1. CASE StartCycle
  BY <1>1 DEF StartCycle
<1>2. CASE RetryOver
  BY <1>2 DEF RetryOver
<1>3. CASE CloseSessions
  BY <1>3 DEF CloseSessions
<1>4. CASE ConnectCommand
  BY <1>4 DEF ConnectCommand
<1>5. CASE ConnectNotification
  BY <1>5 DEF ConnectNotification
<1>6. CASE AbandonPair
  BY <1>6 DEF AbandonPair
<1>7. CASE BindListener
  BY <1>7 DEF BindListener
<1>8. CASE AcceptStopped
  BY <1>8 DEF AcceptStopped
<1>9. CASE SetUpCallHome
  BY <1>9 DEF SetUpCallHome
<1>10. CASE RefusePeer
  BY <1>10 DEF RefusePeer
<1>11. CASE Subscribe
  BY <1>11 DEF Subscribe
<1>12. CASE FirstReset
  BY <1>12 DEF FirstReset
<1>13. CASE FeedOrWait
  BY <1>13 DEF FeedOrWait
<1>14. CASE HandlersDone
  BY <1>14 DEF HandlersDone
<1>15. CASE FeedReset
  BY <1>15 DEF FeedReset
<1>16. CASE PostReset
  BY <1>16 DEF PostReset
<1>17. CASE Listen
  BY <1>17 DEF Listen
<1>18. CASE Keepalive
  BY <1>18 DEF Keepalive
<1>19. CASE Take
  BY <1>19 DEF Take
<1>20. CASE TakeTimeout
  BY <1>20 DEF TakeTimeout
<1>21. CASE Drain
  BY <1>21 DEF Drain
<1>22. CASE SupReset
  BY <1>22 DEF SupReset
<1>23. CASE DegReset
  BY <1>23 DEF DegReset
<1>24. CASE DispatchDone
  BY <1>24 DEF DispatchDone
<1>25. CASE HandlersFinish
  BY <1>25 DEF HandlersFinish
<1>26. CASE DialIn
  BY <1>26 DEF DialIn
<1>27. CASE AcceptFails
  BY <1>27 DEF AcceptFails
<1>28. CASE RequestStop
  BY <1>28 DEF RequestStop
<1>29. CASE LinkDrops
  BY <1>29 DEF LinkDrops
<1>30. CASE FallSilent
  BY <1>30 DEF FallSilent
<1>31. CASE CalmDown
  BY <1>31 DEF CalmDown
<1>32. ASSUME NEW kind \in {"supervision", "other"}, Notify(kind) PROVE ConnectionAlarm \in alarms
  BY <1>32 DEF Notify
<1>33. CASE Tick
  BY <1>33 DEF Tick
<1>34. CASE Stopped
  BY <1>34 DEF Stopped
<1>35. CASE UNCHANGED vars
  BY <1>35
<1> QED
  BY <1>1, <1>2, <1>3, <1>4, <1>5, <1>6, <1>7, <1>8, <1>9, <1>10, <1>11, <1>12, <1>13, <1>14, <1>15, <1>16, <1>17, <1>18, <1>19, <1>20, <1>21, <1>22, <1>23, <1>24, <1>25, <1>26, <1>27, <1>28, <1>29, <1>30, <1>31, <1>32, <1>33, <1>34, <1>35
     DEF Next, SessionStep, CycleStep, ListenStep, EnvStep

\* A stop never raises the connection alarm.
THEOREM StopCorrect == Spec => NoConnectionAlarmOnStop
<1>1. IInv /\ [Next]_vars => [stop /\ ConnectionAlarm \in alarms' => ConnectionAlarm \in alarms]_vars
  BY StopStep
<1> QED
  BY <1>1, Invariance, PTL DEF Spec, NoConnectionAlarmOnStop

-----------------------------------------------------------------------------
\* Every step of the session is a step of the lifecycle, or none at all.
LEMMA LifecycleStep == IInv /\ [Next]_vars => [Lifecycle!SupervisionNext]_(Lifecycle!supervision)
<1> SUFFICES ASSUME IInv, [Next]_vars
             PROVE [Lifecycle!SupervisionNext]_(Lifecycle!supervision)
  OBVIOUS
<1> USE DEF Lifecycle!SupervisionNext, Lifecycle!supervision, Lifecycle!StartConnecting,
        Lifecycle!TransportRestored, Lifecycle!Supervise, Lifecycle!Starve,
        Lifecycle!Disconnect, Lifecycle!Connected, IInv, TypeOK, PhaseMatchesPc,
        AlarmsMatchPhase, Idle, Connecting, InCycle, Listening,
        Await, Unanswered, Finish, BackOff, ConnectFailed, Teardown, Accepted, Rejected,
        Feeds, FeedsNot, Answered, EnterSupervised, EnterListen, StartHandlers, ToListen, TakeOrDrain,
        Consume, EnterDegraded, env, links, clocks, vars
<1>1. CASE StartCycle
  BY <1>1 DEF StartCycle
<1>2. CASE RetryOver
  BY <1>2 DEF RetryOver
<1>3. CASE CloseSessions
  BY <1>3 DEF CloseSessions
<1>4. CASE ConnectCommand
  BY <1>4 DEF ConnectCommand
<1>5. CASE ConnectNotification
  BY <1>5 DEF ConnectNotification
<1>6. CASE AbandonPair
  BY <1>6 DEF AbandonPair
<1>7. CASE BindListener
  BY <1>7 DEF BindListener
<1>8. CASE AcceptStopped
  BY <1>8 DEF AcceptStopped
<1>9. CASE SetUpCallHome
  BY <1>9 DEF SetUpCallHome
<1>10. CASE RefusePeer
  BY <1>10 DEF RefusePeer
<1>11. CASE Subscribe
  BY <1>11 DEF Subscribe
<1>12. CASE FirstReset
  BY <1>12 DEF FirstReset
<1>13. CASE FeedOrWait
  BY <1>13 DEF FeedOrWait
<1>14. CASE HandlersDone
  BY <1>14 DEF HandlersDone
<1>15. CASE FeedReset
  BY <1>15 DEF FeedReset
<1>16. CASE PostReset
  BY <1>16 DEF PostReset
<1>17. CASE Listen
  BY <1>17 DEF Listen
<1>18. CASE Keepalive
  BY <1>18 DEF Keepalive
<1>19. CASE Take
  BY <1>19 DEF Take
<1>20. CASE TakeTimeout
  BY <1>20 DEF TakeTimeout
<1>21. CASE Drain
  BY <1>21 DEF Drain
<1>22. CASE SupReset
  BY <1>22 DEF SupReset
<1>23. CASE DegReset
  BY <1>23 DEF DegReset
<1>24. CASE DispatchDone
  BY <1>24 DEF DispatchDone
<1>25. CASE HandlersFinish
  BY <1>25 DEF HandlersFinish
<1>26. CASE DialIn
  BY <1>26 DEF DialIn
<1>27. CASE AcceptFails
  BY <1>27 DEF AcceptFails
<1>28. CASE RequestStop
  BY <1>28 DEF RequestStop
<1>29. CASE LinkDrops
  BY <1>29 DEF LinkDrops
<1>30. CASE FallSilent
  BY <1>30 DEF FallSilent
<1>31. CASE CalmDown
  BY <1>31 DEF CalmDown
<1>32. ASSUME NEW kind \in {"supervision", "other"}, Notify(kind) PROVE [Lifecycle!SupervisionNext]_(Lifecycle!supervision)
  BY <1>32 DEF Notify
<1>33. CASE Tick
  BY <1>33 DEF Tick
<1>34. CASE Stopped
  BY <1>34 DEF Stopped
<1>35. CASE UNCHANGED vars
  BY <1>35
<1> QED
  BY <1>1, <1>2, <1>3, <1>4, <1>5, <1>6, <1>7, <1>8, <1>9, <1>10, <1>11, <1>12, <1>13, <1>14, <1>15, <1>16, <1>17, <1>18, <1>19, <1>20, <1>21, <1>22, <1>23, <1>24, <1>25, <1>26, <1>27, <1>28, <1>29, <1>30, <1>31, <1>32, <1>33, <1>34, <1>35
     DEF Next, SessionStep, CycleStep, ListenStep, EnvStep

\* The session implements RuSupervision.
THEOREM ImplementsLifecycle == Spec => LifecycleRefinement
<1>1. Init => Lifecycle!SupervisionInit
  BY DEF Init, Lifecycle!SupervisionInit
<1> QED
  BY <1>1, LifecycleStep, Invariance, PTL
     DEF Spec, LifecycleRefinement, Lifecycle!SupervisionSpec
=============================================================================
