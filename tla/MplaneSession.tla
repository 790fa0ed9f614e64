---------------------------- MODULE MplaneSession ----------------------------
(***************************************************************************)
(* The persistent, supervised M-plane session toward one O-RU              *)
(* (mplane_session.py): connect, subscribe, feed the supervision watchdog, *)
(* run the cycle handlers on a worker thread, consume the notification     *)
(* stream, tear down and retry, until a stop is requested.                 *)
(*                                                                         *)
(* run() and the coroutines it awaits are one thread of control; pc names  *)
(* the await it is suspended in.  What happens between two awaits is one   *)
(* step.  The worker thread of the cycle handlers, the O-RU, the network   *)
(* and time are the others.  Time passes in ticks, and only while run() is *)
(* suspended; an RPC is answered or times out after at most RpcMax ticks.  *)
(*                                                                         *)
(* The two alarms are the session's own (it is the only writer of both     *)
(* with --ru_supervise), so the session's _*_alarm_active flags and the    *)
(* registry agree and one set stands for both.  Failures of the notifier   *)
(* behind the registry are not modelled here.                              *)
(***************************************************************************)
EXTENDS Integers, Sequences

CONSTANTS
  Interval,       \* ru_supervision_interval
  Guard,          \* ru_supervision_guard
  PollCap,        \* poll_cap
  ReapLimit,      \* command-session reap age less its margin
  RpcMax,         \* NETCONF connect and reply deadline
  CloseMax,       \* bound of one teardown
  RetryMax,       \* retry_interval
  Promise,        \* how far ahead next-update-at plus guard may lie
  CycleHandlers,  \* TRUE when cycle handlers are registered
  CallHome,       \* ru_callhome
  MaxQueue,       \* bound: notifications waiting in the session
  MaxOther,       \* bound: unrelated notifications the O-RU sends ...
  EndlessOther    \* ... unless it sends them without end

Budget == Interval + Guard

ASSUME TimerAssumption ==
  /\ Interval \in Nat /\ Guard \in Nat /\ Budget > 0
  /\ PollCap \in Nat \ {0} /\ ReapLimit \in Nat \ {0}
  /\ RpcMax \in Nat \ {0} /\ CloseMax \in Nat \ {0} /\ RetryMax \in Nat
  /\ Promise \subseteq Nat
ASSUME SwitchAssumption ==
  /\ CycleHandlers \in BOOLEAN /\ CallHome \in BOOLEAN /\ EndlessOther \in BOOLEAN
  /\ MaxQueue \in Nat /\ MaxOther \in Nat

ConnectionAlarm == "RU_NETCONF_CONNECTION_LOSS"    \* 1003
SupervisionAlarm == "RU_SUPERVISION_FAILURE"       \* 1004

Phase == {"DISCONNECTED", "CONNECTING", "SUPERVISED", "DEGRADED"}

\* The awaits of run(): NETCONF exchanges that time out after RpcMax ...
Rpcs == {"connectCmd", "connectNtf", "setup", "refuse", "subscribe",
         "firstReset", "feed", "postReset", "keepalive", "supReset", "degReset"}
\* ... the other timed ones, and those whose end is up to somebody else.
Timed == Rpcs \cup {"abandon", "handlers", "take", "close", "retry"}
Untimed == {"accept", "dispatch"}
\* Points between awaits where the code decides what to do next.
Decisions == {"start", "listen", "drain"}
Pc == Timed \cup Untimed \cup Decisions \cup {"stopped"}

\* _listen and what it awaits.
Listening == {"listen", "keepalive", "take", "drain", "supReset", "degReset", "dispatch"}
\* Subscribed, and not yet tearing down.
InCycle == Listening \cup {"firstReset", "handlers", "feed", "postReset"}

VARIABLES
  pc,        \* where run() is
  phase,     \* ru_mplane_state
  alarms,    \* the session's active alarms
  stop,      \* stop_event
  cmd, ntf,  \* command and notification session (one and the same in call-home)
  listener,  \* the call-home listener is bound
  stray,     \* a refused peer's transport is still up, and forgotten
  queue,     \* notifications not yet taken
  others,    \* unrelated notifications the O-RU may still send
  mute,      \* the O-RU sends no more supervision notifications
  calm,      \* from now on the network and the O-RU behave
  handlers,  \* the worker thread of the cycle handlers
  fed,       \* run()'s fed while the handlers run
  timer,     \* ticks until the await run() is in times out
  left,      \* ticks until the starvation deadline
  ka,        \* ticks until the command session's next keepalive read
  silence,   \* ticks since the O-RU last answered a watchdog reset
  unfed,     \* ticks since it last accepted one, which alone feeds its watchdog
  answer     \* its last answer in this connect cycle

env == <<others, mute, calm>>
links == <<cmd, ntf, listener, stray>>
clocks == <<left, ka, silence, unfed>>
vars == <<pc, phase, alarms, stop, links, queue, env, handlers, fed, timer, clocks, answer>>

Link == {"none", "up", "down"}

TypeOK ==
  /\ pc \in Pc
  /\ phase \in Phase
  /\ alarms \subseteq {ConnectionAlarm, SupervisionAlarm}
  /\ stop \in BOOLEAN
  /\ cmd \in Link /\ ntf \in Link /\ listener \in BOOLEAN /\ stray \in BOOLEAN
  /\ queue \in Seq({"supervision", "other"})
  /\ others \in Nat /\ mute \in BOOLEAN /\ calm \in BOOLEAN
  /\ handlers \in {"none", "running", "returned", "failed"}
  /\ fed \in BOOLEAN
  /\ timer \in Nat /\ left \in Nat /\ ka \in Nat
  /\ silence \in Nat /\ unfed \in Nat
  /\ answer \in {"none", "accepted", "rejected"}

Init ==
  /\ pc = "start"
  /\ phase = "DISCONNECTED"
  /\ alarms = {}
  /\ stop = FALSE
  /\ cmd = "none" /\ ntf = "none" /\ listener = FALSE /\ stray = FALSE
  /\ queue = <<>>
  /\ others = MaxOther /\ mute = FALSE /\ calm = FALSE
  /\ handlers = "none"
  /\ fed = FALSE
  /\ timer = 0 /\ left = 0 /\ ka = 0 /\ silence = 0 /\ unfed = 0
  /\ answer = "none"

-----------------------------------------------------------------------------
(* Timers *)

Min2(i, j) == IF i < j THEN i ELSE j
Max2(i, j) == IF i < j THEN j ELSE i

\* The cadence of the command session's keepalive read.
KeepalivePeriod == Max2(1, Min2(Interval \div 2, ReapLimit))

\* The cadence of the resets sent while the cycle handlers run.
FeedPeriod == Max2(1, Interval \div 2)

\* The starvation deadline an accepted reset yields: the O-RU's promise may
\* extend the local budget to at most twice its length, never shrink it.
DeadlineFrom(promise) ==
  IF promise > Budget /\ promise <= 2 * Budget THEN promise ELSE Budget

Await(where, ticks) == pc' = where /\ timer' = ticks

\* The reply deadline of an exchange on link l has passed, or l is gone.
Unanswered(l) == l = "down" \/ (timer = 0 /\ ~calm)

-----------------------------------------------------------------------------
(* run(): start of a cycle, its end, and the end of the session *)

\* The loop is left: the call-home listener is closed, the phase is final.
Finish ==
  /\ Await("stopped", 0)
  /\ phase' = "DISCONNECTED"
  /\ listener' = FALSE
  /\ UNCHANGED alarms

\* _flag_connection_lost and _sleep_retry.
BackOff ==
  /\ Await("retry", RetryMax)
  /\ phase' = "DISCONNECTED"
  /\ alarms' = alarms \cup {ConnectionAlarm}
  /\ UNCHANGED listener

\* A connect that failed while stopping is not an outage.
ConnectFailed == IF stop THEN Finish ELSE BackOff

\* The cycle failed or is over: run()'s finally clause sets the phase at once
\* and awaits _close_sessions.
Teardown ==
  /\ Await("close", CloseMax)
  /\ phase' = "DISCONNECTED"
  /\ left' = 0 /\ ka' = 0
  /\ UNCHANGED <<alarms, silence, unfed>>

StartCycle ==
  /\ pc = "start"
  /\ IF stop
     THEN Finish
     ELSE /\ IF CallHome THEN Await("accept", 0) ELSE Await("connectCmd", RpcMax)
          /\ phase' = "CONNECTING"
          /\ UNCHANGED <<alarms, listener>>
  /\ answer' = "none"
  /\ UNCHANGED <<stop, cmd, ntf, stray, queue, env, handlers, fed, clocks>>

\* _close_sessions: every session gets a close-session with a short deadline
\* and a transport still up afterwards is closed directly.
CloseSessions ==
  /\ pc = "close"
  /\ cmd' = "none" /\ ntf' = "none"
  /\ queue' = <<>>
  /\ IF stop THEN Finish ELSE BackOff
  /\ silence' = 0 /\ unfed' = 0
  /\ UNCHANGED <<stop, stray, env, handlers, fed, left, ka, answer>>

RetryOver ==
  /\ pc = "retry"
  /\ timer = 0 \/ stop
  /\ Await("start", 0)
  /\ UNCHANGED <<phase, alarms, stop, links, queue, env, handlers, fed, clocks, answer>>

-----------------------------------------------------------------------------
(* _connect_pair: dial out twice, or wait for the O-RU's single dial-in *)

ConnectCommand ==
  /\ pc = "connectCmd"
  /\ \/ /\ cmd' = "up"
        /\ Await("connectNtf", RpcMax)
        /\ UNCHANGED <<phase, alarms, listener>>
     \/ ~calm /\ ConnectFailed /\ UNCHANGED cmd
  /\ UNCHANGED <<stop, ntf, stray, queue, env, handlers, fed, clocks, answer>>

\* Slip: the command session stays up when the second dial fails.
ConnectNotificationOrGiveUp ==
  /\ pc = "connectNtf"
  /\ \/ /\ ntf' = "up" /\ Await("subscribe", RpcMax)
        /\ UNCHANGED <<phase, alarms, listener>>
     \/ ~calm /\ ConnectFailed /\ UNCHANGED ntf
  /\ UNCHANGED <<stop, cmd, stray, queue, env, handlers, fed, clocks, answer>>

\* Without a notification session the command session is closed again.
ConnectNotification ==
  /\ pc = "connectNtf"
  /\ \/ ntf' = "up" /\ Await("subscribe", RpcMax)
     \/ ~calm /\ Await("abandon", CloseMax) /\ UNCHANGED ntf
  /\ UNCHANGED <<phase, alarms, stop, cmd, listener, stray, queue, env, handlers,
                 fed, clocks, answer>>

AbandonPair ==
  /\ pc = "abandon"
  /\ cmd' = "none" /\ ntf' = "none"
  /\ ConnectFailed
  /\ UNCHANGED <<stop, stray, queue, env, handlers, fed, clocks, answer>>

\* The listener is bound once and kept; binding and accept may fail.
BindListener ==
  /\ pc = "accept" /\ ~listener
  /\ \/ listener' = TRUE /\ UNCHANGED <<pc, phase, alarms, timer>>
     \/ ~calm /\ ConnectFailed
  /\ UNCHANGED <<stop, cmd, ntf, stray, queue, env, handlers, fed, clocks, answer>>

\* The accept waits in slices: for the O-RU to dial in, for a stop, or for the
\* accept to fail, which closes the listener.  A dial-in may beat the stop.
DialIn ==
  /\ pc = "accept" /\ listener
  /\ Await("setup", RpcMax)
  /\ UNCHANGED <<phase, alarms, stop, links, queue, env, handlers, fed, clocks, answer>>

\* Slip: a stop is only looked at before the listener is bound.
AcceptStoppedEarly ==
  /\ pc = "accept" /\ ~listener /\ stop
  /\ Finish
  /\ UNCHANGED <<stop, cmd, ntf, stray, queue, env, handlers, fed, clocks, answer>>

AcceptStopped ==
  /\ pc = "accept" /\ listener /\ stop
  /\ Finish
  /\ UNCHANGED <<stop, cmd, ntf, stray, queue, env, handlers, fed, clocks, answer>>

AcceptFails ==
  /\ pc = "accept" /\ listener /\ ~calm
  /\ listener' = FALSE
  /\ IF stop THEN Await("stopped", 0) /\ UNCHANGED alarms
             ELSE Await("retry", RetryMax) /\ alarms' = alarms \cup {ConnectionAlarm}
  /\ phase' = "DISCONNECTED"
  /\ UNCHANGED <<stop, cmd, ntf, stray, queue, env, handlers, fed, clocks, answer>>

\* The NETCONF session over the accepted socket; a peer that does not
\* advertise :interleave cannot carry both roles and is closed again.
SetUpCallHome ==
  /\ pc = "setup"
  /\ \/ /\ cmd' = "up" /\ ntf' = "up"
        /\ Await("subscribe", RpcMax)
        /\ UNCHANGED <<phase, alarms, listener>>
     \/ /\ ~calm /\ Await("refuse", RpcMax)
        /\ UNCHANGED <<cmd, ntf, phase, alarms, listener>>
     \/ ~calm /\ ConnectFailed /\ UNCHANGED <<cmd, ntf>>
  /\ UNCHANGED <<stop, stray, queue, env, handlers, fed, clocks, answer>>

\* close_session closes the transport once its RPC is answered; when it is
\* not, the error is suppressed and the transport, if still up, stays.
RefusePeer ==
  /\ pc = "refuse"
  /\ \/ UNCHANGED stray
     \/ timer = 0 /\ ~calm /\ stray' = TRUE
  /\ ConnectFailed
  /\ UNCHANGED <<stop, cmd, ntf, queue, env, handlers, fed, clocks, answer>>

-----------------------------------------------------------------------------
(* run(): subscribe and the first reset, which starts the O-RU's watchdog *)

\* Slip: the transport alarm is left to the first accepted reset.
SubscribeQuietly ==
  /\ pc = "subscribe"
  /\ \/ /\ ntf = "up"
        /\ Await("firstReset", RpcMax)
        /\ UNCHANGED <<alarms, phase, clocks>>
     \/ (ntf = "down" \/ ~calm) /\ Teardown
  /\ UNCHANGED <<stop, links, queue, env, handlers, fed, answer>>

\* The subscription is up: the transport alarm clears, whatever becomes of
\* supervision.
Subscribe ==
  /\ pc = "subscribe"
  /\ \/ /\ ntf = "up"
        /\ Await("firstReset", RpcMax)
        /\ alarms' = alarms \ {ConnectionAlarm}
        /\ UNCHANGED <<phase, clocks>>
     \/ (ntf = "down" \/ ~calm) /\ Teardown
  /\ UNCHANGED <<stop, links, queue, env, handlers, fed, answer>>

\* _reset_watchdog is answered: what the O-RU says, and the deadline of it.
\* Only an accepted reset feeds the O-RU's watchdog.  A rejected one has no
\* promise; a behaving O-RU accepts every reset.
Feeds == answer' = "accepted" /\ unfed' = 0
FeedsNot == ~calm /\ answer' = "rejected" /\ UNCHANGED unfed
Accepted == Feeds /\ \E promise \in Promise : left' = DeadlineFrom(promise)
Rejected == FeedsNot /\ left' = Budget
Answered == ntf = "up" /\ silence' = 0

EnterSupervised == phase' = "SUPERVISED" /\ alarms' = {}

EnterListen == Await("listen", 0) /\ ka' = KeepalivePeriod /\ UNCHANGED <<handlers, fed>>

\* _run_cycle_handlers_fed hands the handlers to a worker thread.
StartHandlers ==
  /\ Await("handlers", FeedPeriod)
  /\ handlers' = "running"
  /\ fed' = TRUE
  /\ UNCHANGED ka

FirstReset ==
  /\ pc = "firstReset"
  /\ \/ /\ Answered
        /\ \/ Accepted /\ EnterSupervised
           \/ Rejected /\ UNCHANGED <<phase, alarms>>
        /\ IF CycleHandlers THEN StartHandlers ELSE EnterListen
     \/ /\ Unanswered(ntf)
        /\ Teardown
        /\ UNCHANGED <<handlers, fed, answer>>
  /\ UNCHANGED <<stop, links, queue, env>>

-----------------------------------------------------------------------------
(* _run_cycle_handlers_fed: the handlers block on a worker thread, the      *)
(* session keeps the watchdog fed                                           *)

\* The worker thread: the handlers return, or an RPC of theirs fails.
HandlersFinish ==
  /\ handlers = "running"
  /\ handlers' \in IF calm THEN {"returned"} ELSE {"returned", "failed"}
  /\ UNCHANGED <<pc, phase, alarms, stop, links, queue, env, fed, timer, clocks, answer>>

\* A period is over and the handlers still run: the next feed, unless an
\* earlier one was not answered at all.
FeedOrWait ==
  /\ pc = "handlers" /\ handlers = "running" /\ timer = 0
  /\ IF fed THEN Await("feed", RpcMax) ELSE Await("handlers", FeedPeriod)
  /\ UNCHANGED <<phase, alarms, stop, links, queue, env, handlers, fed, clocks, answer>>

\* The result of the handlers' thread is awaited before anything else.
HandlersDone ==
  /\ pc = "handlers" /\ handlers \in {"returned", "failed"}
  /\ handlers' = "none"
  /\ IF handlers = "returned" /\ fed
     THEN Await("postReset", RpcMax) /\ UNCHANGED <<phase, alarms, clocks>>
     ELSE Teardown
  /\ UNCHANGED <<stop, links, queue, env, fed, answer>>

\* Slip: the O-RU does not answer a feed, and the cycle is recycled at once.
FeedResetImpatient ==
  /\ pc = "feed"
  /\ \/ Answered /\ UNCHANGED <<fed, phase, alarms, left, ka>>
        /\ Await("handlers", FeedPeriod)
        /\ Feeds
     \/ Unanswered(ntf) /\ fed' = FALSE /\ Teardown /\ UNCHANGED answer
  /\ UNCHANGED <<stop, links, queue, env, handlers>>

\* Slip: the period counts from the last answer, and doubles.
FeedResetLate ==
  /\ pc = "feed"
  /\ \/ Answered /\ UNCHANGED fed
        /\ Feeds
        /\ Await("handlers", FeedPeriod + RpcMax)
     \/ Unanswered(ntf) /\ fed' = FALSE /\ UNCHANGED <<silence, unfed, answer>>
        /\ Await("handlers", FeedPeriod)
  /\ UNCHANGED <<phase, alarms, stop, links, queue, env, handlers, left, ka>>

\* Accepted or rejected, the answer restarts the period; the deadline of a
\* feed is dropped.  No answer stops the feeding, never the waiting.
FeedReset ==
  /\ pc = "feed"
  /\ \/ /\ Answered
        /\ Feeds \/ FeedsNot
        /\ UNCHANGED fed
     \/ Unanswered(ntf) /\ fed' = FALSE /\ UNCHANGED <<silence, unfed, answer>>
  /\ Await("handlers", FeedPeriod)
  /\ UNCHANGED <<phase, alarms, stop, links, queue, env, handlers, left, ka>>

\* Slip: the budget counts from the first reset, which is long past.
PostResetStale ==
  /\ pc = "postReset"
  /\ \/ /\ Answered
        /\ Feeds \/ FeedsNot
        /\ UNCHANGED <<phase, alarms, left>>
        /\ EnterListen
     \/ Unanswered(ntf) /\ Teardown /\ UNCHANGED <<handlers, fed, answer>>
  /\ UNCHANGED <<stop, links, queue, env>>

\* The reset after the handlers only yields the deadline: whether it was
\* accepted is not looked at.
PostReset ==
  /\ pc = "postReset"
  /\ \/ /\ Answered
        /\ Accepted \/ Rejected
        /\ UNCHANGED <<phase, alarms>>
        /\ EnterListen
     \/ Unanswered(ntf) /\ Teardown /\ UNCHANGED <<handlers, fed, answer>>
  /\ UNCHANGED <<stop, links, queue, env>>

-----------------------------------------------------------------------------
(* _listen *)

ToListen == Await("listen", 0)

\* remaining <= 0 ? drain : take, no longer than the deadline, the poll cap
\* and the next keepalive allow.
TakeOrDrain(nextKa) ==
  IF left = 0 THEN Await("drain", 0)
              ELSE Await("take", Min2(left, Min2(PollCap, Max2(1, nextKa))))

Listen ==
  /\ pc = "listen"
  /\ IF stop \/ cmd # "up" \/ ntf # "up"
     THEN Teardown
     ELSE /\ IF ka = 0 THEN Await("keepalive", RpcMax) ELSE TakeOrDrain(ka)
          /\ UNCHANGED <<phase, alarms, clocks>>
  /\ UNCHANGED <<stop, links, queue, env, handlers, fed, answer>>

\* The strict sync-status read; any failure of it recycles the cycle.
Keepalive ==
  /\ pc = "keepalive"
  /\ \/ /\ cmd = "up"
        /\ ka' = KeepalivePeriod
        /\ TakeOrDrain(KeepalivePeriod)
        /\ UNCHANGED <<phase, alarms, left, silence, unfed>>
     \/ (cmd = "down" \/ ~calm) /\ Teardown
  /\ UNCHANGED <<stop, links, queue, env, handlers, fed, answer>>

\* A notification is there: a supervision one is answered with a reset, any
\* other goes to the handlers on a worker thread, which listen awaits.
Consume ==
  /\ queue # <<>>
  /\ queue' = Tail(queue)
  /\ IF Head(queue) = "supervision" THEN Await("supReset", RpcMax)
                                    ELSE Await("dispatch", 0)

Take ==
  /\ pc = "take"
  /\ Consume
  /\ UNCHANGED <<phase, alarms, stop, links, env, handlers, fed, clocks, answer>>

\* Slip: the deadline starts again with every wait.
TakeTimeoutRestarts ==
  /\ pc = "take" /\ queue = <<>> /\ timer = 0
  /\ ToListen
  /\ left' = Budget
  /\ UNCHANGED <<phase, alarms, stop, links, queue, env, handlers, fed, ka, silence, unfed, answer>>

TakeTimeout ==
  /\ pc = "take" /\ queue = <<>> /\ timer = 0
  /\ ToListen
  /\ UNCHANGED <<phase, alarms, stop, links, queue, env, handlers, fed, clocks, answer>>

\* Slip: an outage that ends in DEGRADED again does not raise 1004 again.
EnterDegradedOnce ==
  /\ phase' = "DEGRADED"
  /\ alarms' = IF phase = "SUPERVISED" THEN alarms \cup {SupervisionAlarm} ELSE alarms

EnterDegraded ==
  /\ phase' = "DEGRADED"
  /\ alarms' = IF phase = "DEGRADED" THEN alarms ELSE alarms \cup {SupervisionAlarm}

\* The deadline has passed: one look at the queue, then DEGRADED and a
\* recovery reset.
Drain ==
  /\ pc = "drain"
  /\ \/ Consume /\ UNCHANGED <<phase, alarms>>
     \/ queue = <<>> /\ EnterDegraded /\ Await("degReset", RpcMax) /\ UNCHANGED queue
  /\ UNCHANGED <<stop, links, env, handlers, fed, clocks, answer>>

\* Slip: only DEGRADED is left for SUPERVISED.
SupResetFromDegraded ==
  /\ pc = "supReset"
  /\ \/ /\ Answered
        /\ \/ Accepted /\ IF phase = "DEGRADED" THEN EnterSupervised
                                                 ELSE UNCHANGED <<phase, alarms>>
           \/ Rejected /\ UNCHANGED <<phase, alarms>>
        /\ ToListen
        /\ UNCHANGED ka
     \/ Unanswered(ntf) /\ Teardown /\ UNCHANGED answer
  /\ UNCHANGED <<stop, links, queue, env, handlers, fed>>

\* A rejected reset leaves the phase as it is.
SupReset ==
  /\ pc = "supReset"
  /\ \/ /\ Answered
        /\ \/ Accepted /\ EnterSupervised
           \/ Rejected /\ UNCHANGED <<phase, alarms>>
        /\ ToListen
        /\ UNCHANGED ka
     \/ Unanswered(ntf) /\ Teardown /\ UNCHANGED answer
  /\ UNCHANGED <<stop, links, queue, env, handlers, fed>>

\* The recovery reset yields a new deadline; accepted or not, DEGRADED stays
\* until a supervision notification is answered by an accepted reset.
DegReset ==
  /\ pc = "degReset"
  /\ \/ /\ Answered
        /\ Accepted \/ Rejected
        /\ ToListen
        /\ UNCHANGED <<phase, alarms, ka>>
     \/ Unanswered(ntf) /\ Teardown /\ UNCHANGED answer
  /\ UNCHANGED <<stop, links, queue, env, handlers, fed>>

\* The registered handlers have run; their exceptions are isolated.
DispatchDone ==
  /\ pc = "dispatch"
  /\ ToListen
  /\ UNCHANGED <<phase, alarms, stop, links, queue, env, handlers, fed, clocks, answer>>

-----------------------------------------------------------------------------
(* The others: operator, network, O-RU, time *)

RequestStop ==
  /\ ~stop
  /\ stop' = TRUE
  /\ UNCHANGED <<pc, phase, alarms, links, queue, env, handlers, fed, timer, clocks, answer>>

\* A transport dies: either session's of a dialled pair, both roles' of a
\* call-home session.
LinkDrops ==
  /\ ~calm
  /\ \/ cmd = "up" /\ cmd' = "down" /\ ntf' = IF CallHome THEN "down" ELSE ntf
     \/ ~CallHome /\ ntf = "up" /\ ntf' = "down" /\ UNCHANGED cmd
  /\ UNCHANGED <<pc, phase, alarms, stop, listener, stray, queue, env, handlers, fed,
                 timer, clocks, answer>>

\* The O-RU's notifications reach the subscribed session's queue.
Notify(kind) ==
  /\ pc \in InCycle /\ ntf = "up" /\ Len(queue) < MaxQueue
  /\ IF kind = "supervision"
     THEN ~mute /\ UNCHANGED others
     ELSE others > 0 /\ others' = IF EndlessOther THEN others ELSE others - 1
  /\ queue' = Append(queue, kind)
  /\ UNCHANGED <<pc, phase, alarms, stop, links, mute, calm, handlers, fed, timer,
                 clocks, answer>>

\* From now on: no supervision notification; or nothing goes wrong any more.
FallSilent ==
  /\ ~mute /\ mute' = TRUE
  /\ UNCHANGED <<pc, phase, alarms, stop, links, queue, others, calm, handlers, fed,
                 timer, clocks, answer>>
CalmDown ==
  /\ ~calm /\ calm' = TRUE
  /\ UNCHANGED <<pc, phase, alarms, stop, links, queue, others, mute, handlers, fed,
                 timer, clocks, answer>>

\* run() does not sleep through what it waits for.
Woken ==
  \/ pc = "take" /\ queue # <<>>
  \/ pc = "handlers" /\ handlers # "running"
  \/ pc = "retry" /\ stop

SilenceCap == 2 * Budget + FeedPeriod + RpcMax + 1   \* bound: silence is counted up to here
HungerCap == FeedPeriod + RpcMax + 1                 \* bound: unfed is counted up to here

Down(n) == IF n = 0 THEN 0 ELSE n - 1

Tick ==
  /\ IF pc \in Timed THEN timer > 0 /\ ~Woken ELSE pc \in Untimed
  /\ timer' = Down(timer)
  /\ left' = Down(left)
  /\ ka' = Down(ka)
  /\ silence' = IF pc \in InCycle THEN Min2(silence + 1, SilenceCap) ELSE silence
  /\ unfed' = IF pc \in InCycle THEN Min2(unfed + 1, HungerCap) ELSE unfed
  /\ UNCHANGED <<pc, phase, alarms, stop, links, queue, env, handlers, fed, answer>>

\* The session is over: nothing is left to do.
Stopped == pc = "stopped" /\ UNCHANGED vars

CycleStep ==
  \/ StartCycle \/ RetryOver \/ CloseSessions
  \/ ConnectCommand \/ ConnectNotification \/ AbandonPair
  \/ BindListener \/ AcceptStopped \/ SetUpCallHome \/ RefusePeer
  \/ Subscribe \/ FirstReset \/ FeedOrWait \/ HandlersDone \/ FeedReset \/ PostReset
ListenStep ==
  \/ Listen \/ Keepalive \/ Take \/ TakeTimeout \/ Drain
  \/ SupReset \/ DegReset \/ DispatchDone
SessionStep == CycleStep \/ ListenStep
EnvStep ==
  \/ DialIn \/ AcceptFails \/ RequestStop \/ LinkDrops \/ FallSilent \/ CalmDown
  \/ \E kind \in {"supervision", "other"} : Notify(kind)

Next == SessionStep \/ HandlersFinish \/ EnvStep \/ Tick \/ Stopped

Spec == Init /\ [][Next]_vars

\* The event loop runs what is ready, time passes, an exchange is answered or
\* times out, a handler returns, and an O-RU that is neither mute nor
\* misbehaving dials in and goes on sending supervision notifications.
Fairness ==
  /\ WF_vars(SessionStep)
  /\ WF_vars(HandlersFinish)
  /\ WF_vars(Tick)
  /\ SF_vars(calm /\ Notify("supervision"))
  /\ WF_vars(calm /\ DialIn)

FairSpec == Spec /\ Fairness

-----------------------------------------------------------------------------
(* Properties *)

\* What an operator reads off the phase and the alarms agrees: no alarm while
\* SUPERVISED, exactly 1004 while DEGRADED, 1003 during the back-off, and
\* never 1003 once subscribed (_flag_connection_*, _enter_*).
AlarmsMatchPhase ==
  /\ phase = "SUPERVISED" => alarms = {}
  /\ phase = "DEGRADED" => alarms = {SupervisionAlarm}
  /\ pc = "retry" => ConnectionAlarm \in alarms
  /\ pc \in InCycle => ConnectionAlarm \notin alarms

\* The starvation deadline in force counts from the O-RU's last answer, is
\* never shorter than the local budget nor longer than twice that, whatever
\* the O-RU's clock says and however long the cycle handlers took
\* (_deadline_from_next_update, the reset after the handlers).
DeadlineHonest ==
  pc \in Listening =>
    IF left = 0 THEN silence >= Budget
                ELSE left + silence \in Budget .. 2 * Budget

\* While cycle handlers block, the O-RU is asked for a reset again before one
\* period and one exchange are over, whatever it answered to the last one.  Its
\* watchdog therefore goes unfed for longer only if it has just rejected a
\* reset: "a rejected reset never fed the O-RU's watchdog"
\* (_run_cycle_handlers_fed, _reset_watchdog).
FedWhileHandling ==
  pc \in {"handlers", "feed"} /\ fed =>
    /\ silence <= FeedPeriod + RpcMax
    /\ unfed <= FeedPeriod + RpcMax \/ answer = "rejected"

\* The cycle handlers' thread is done before their sessions are closed: no
\* cycle ends, and no new one starts, under a running handler.
HandlersDoneBeforeTeardown ==
  handlers = "running" => pc \in {"handlers", "feed"}

\* No session outlives its cycle (_close_sessions, the second dial failing).
\* The one transport a cycle may leave behind is that of a call-home peer that
\* was refused and did not answer its close-session: nothing closes it again.
NoSessionOutlivesCycle ==
  /\ pc \in {"start", "accept", "connectCmd", "retry", "stopped"} =>
       cmd = "none" /\ ntf = "none"
  /\ stray => CallHome

\* "A stop requested during a connect raises no alarm": nor does any other.
NoConnectionAlarmOnStop ==
  [][stop /\ ConnectionAlarm \in alarms' => ConnectionAlarm \in alarms]_vars

\* "SUPERVISED: both sessions up, subscription active, watchdog fed": the last
\* reset of a session that reports SUPERVISED was not rejected.
SupervisedMeansFed == phase = "SUPERVISED" => answer # "rejected"

\* A stop is honoured from every await, cycle handlers and call-home included,
\* and releases the call-home listener (_stopping, _close_callhome_listener).
StopHonoured == stop ~> (pc = "stopped" /\ ~listener)

\* When the network and the O-RU behave, the session becomes SUPERVISED again,
\* from whatever state the trouble left it in.
RecoversWhenCalm == []<>(phase = "SUPERVISED" \/ stop \/ mute \/ ~calm)

\* As long as time passes, an O-RU that sends no more supervision notifications
\* is not reported SUPERVISED for ever; but for one that has another
\* notification waiting whenever the deadline has passed: those do not extend
\* the deadline, but each is dispatched first, and DEGRADED waits for an empty
\* queue (_listen).
SilenceDetected ==
  []<><<Tick>>_vars =>
    []<>(pc = "drain" /\ queue # <<>>) \/ (mute ~> phase # "SUPERVISED")

\* "Unrelated notifications must not feed the watchdog budget" would have it
\* without the exception.  Not so.
SilenceAlwaysDetected == []<><<Tick>>_vars => (mute ~> phase # "SUPERVISED")

\* The session implements the lifecycle the adapter relies on.
Lifecycle == INSTANCE RuSupervision WITH over <- pc = "stopped"
LifecycleRefinement == Lifecycle!SupervisionSpec
=============================================================================
