------------------------------ MODULE ConfigSync ------------------------------
(***************************************************************************)
(* Configuration management: the NETCONF datastore's configuration on its  *)
(* way to the gNB (o1_adapter.py netconf_main and ws_handler, and          *)
(* config_manager.py).  The worker of a NETCONF session renders every      *)
(* change to the config file; what the gNB takes at run time is also sent  *)
(* to it over the WebSocket, and for the rest the gNB must start again:    *)
(* by a quit command, or by whoever polls /config-healthy.                 *)
(*                                                                         *)
(* A configuration is three version numbers, of what needs a restart, of   *)
(* what does not, and of the active PerfMetricJobs; so "newer" is "<".     *)
(* The tasks share one event loop: what happens between two awaits is one  *)
(* step.  Datastore, gNB, the health endpoint's thread and its client      *)
(* interleave with all of it.                                              *)
(***************************************************************************)
EXTENDS Integers, Sequences

CONSTANTS
  Unrenderable,   \* values the template cannot render
  AutoHeal,       \* --autoheal: /config-healthy resets what it reports
  MaxChanges,     \* bound: changes of the datastore ...
  MaxJobs         \* ... and among them of the active jobs

ASSUME ConfigAssumption ==
  /\ Unrenderable \subseteq Nat \ {0} /\ AutoHeal \in BOOLEAN
  /\ MaxChanges \in Nat /\ MaxJobs \in Nat

Part == {"static", "runtime", "jobs"}
Config == [Part -> 0 .. MaxChanges]
Renderable(c) == c["static"] \notin Unrenderable

Quit == [cmd |-> "quit", value |-> 0]
Runtime(v) == [cmd |-> "runtime", value |-> v]     \* ssb_set, rrm_policy_ratio_set
Subscribe == [cmd |-> "metrics_subscribe", value |-> 0]
Command == {Quit, Subscribe} \cup {Runtime(v) : v \in 0 .. MaxChanges}

VARIABLES
  du,          \* the datastore
  file,        \* the config file
  unwritten,   \* the configuration read last did not get there
  gnb, gnbUp,  \* what the gNB runs, or ran last
  ncLink, subscribed,
  notifs,      \* change notifications not yet taken
  main,        \* netconf_main: "retry", "watching", "joining" the worker
  worker,      \* ConfigManager.run; "waiting" is in _full_restart, and
               \* "writing" between a restart request and its refetch
  last,        \* last_config
  jobs,        \* pm_jobs
  unseen,      \* the datastore changed before the worker was subscribed
  ws, wsLink,  \* ws_handler, and its connection
  wsQueue,     \* ws_send_queue
  asked,       \* the jobs the gNB was last asked for metrics with
  restartReq,
  killing,     \* the gNB is being restarted from outside
  announced,   \* ... and its start was not yet reported to /restarted
  alarms,      \* 1001 and 1002
  excuse       \* why a gNB that runs an old configuration may not be flagged

netconf == <<ncLink, subscribed, notifs>>
store == <<file, unwritten, last, jobs, unseen>>
websocket == <<ws, wsLink, wsQueue, asked>>
health == <<restartReq, killing, announced, excuse>>
running == <<gnb, gnbUp>>
vars == <<du, running, netconf, main, worker, store, websocket, health, alarms>>

NetconfLoss == "NETCONF_CONNECTION_LOSS"           \* 1001
WsLoss == "REMOTE_CONTROL_CONNECTION_LOSS"         \* 1002

TypeOK ==
  /\ du \in Config /\ file \in Config /\ last \in Config /\ gnb \in Config
  /\ jobs \in 0 .. MaxChanges /\ asked \in 0 .. MaxChanges
  /\ gnbUp \in BOOLEAN /\ ncLink \in BOOLEAN /\ subscribed \in BOOLEAN
  /\ unseen \in BOOLEAN /\ unwritten \in BOOLEAN
  /\ notifs \in 0 .. MaxChanges
  /\ main \in {"retry", "watching", "joining"}
  /\ worker \in {"none", "created", "taking", "waiting", "writing", "stopped", "failed"}
  /\ ws \in {"retry", "up", "broken"} /\ wsLink \in BOOLEAN
  /\ wsQueue \in Seq(Command)
  /\ restartReq \in BOOLEAN /\ killing \in BOOLEAN /\ announced \in BOOLEAN
  /\ alarms \subseteq {NetconfLoss, WsLoss}
  /\ excuse \subseteq {"reconnect", "early", "crash"}
  /\ worker = "none" <=> main = "retry"
  /\ wsLink => ws = "up" /\ gnbUp

Oldest == [p \in Part |-> 0]

Init ==
  /\ du = Oldest /\ file = Oldest /\ last = Oldest /\ gnb = Oldest
  /\ gnbUp \in BOOLEAN
  /\ ncLink = FALSE /\ subscribed = FALSE /\ notifs = 0
  /\ main = "retry" /\ worker = "none"
  /\ jobs = 0 /\ unseen = FALSE /\ unwritten = FALSE
  /\ ws = "retry" /\ wsLink = FALSE /\ wsQueue = <<>> /\ asked = 0
  /\ restartReq = FALSE /\ killing = FALSE /\ announced = FALSE
  /\ alarms = {} /\ excuse = {}

\* A restart is requested for a change that is not in the file yet.
Requesting == worker \in {"waiting", "writing"}
LoopFree == worker # "writing"
Stale == gnbUp /\ gnb["static"] # file["static"]
Pending(c) == \E i \in 1 .. Len(wsQueue) : wsQueue[i].cmd = c

-----------------------------------------------------------------------------
(* The datastore *)

Total(c) == c["static"] + c["runtime"] + c["jobs"]

Change(p) ==
  /\ Total(du) < MaxChanges /\ (p = "jobs" => du["jobs"] < MaxJobs)
  /\ du' = [du EXCEPT ![p] = @ + 1]
  /\ notifs' = IF ncLink /\ subscribed THEN notifs + 1 ELSE notifs
  /\ UNCHANGED <<running, ncLink, subscribed, main, worker, store, websocket, health, alarms>>

NcDrops ==
  /\ ncLink
  /\ ncLink' = FALSE
  /\ UNCHANGED <<du, running, subscribed, notifs, main, worker, store, websocket, health, alarms>>

-----------------------------------------------------------------------------
(* write_full_config: remember, ask for the metrics of new jobs, render.   *)

\* Slip: a newly active job does not ask for a snapshot.
ReadUnasked(queue) ==
  /\ last' = du /\ jobs' = du["jobs"] /\ unseen' = FALSE
  /\ wsQueue' = queue

Read(queue) ==
  /\ last' = du /\ jobs' = du["jobs"] /\ unseen' = FALSE
  /\ wsQueue' = IF du["jobs"] > jobs THEN Append(queue, Subscribe) ELSE queue

WriteFull(queue) ==
  /\ Read(queue)
  /\ file' = IF Renderable(du) THEN du ELSE file
  /\ unwritten' = ~Renderable(du)

-----------------------------------------------------------------------------
(* netconf_main *)

\* An exception that reaches gather ends the adapter, and its container starts
\* it again.
Crash ==
  /\ main' = "retry" /\ worker' = "none" /\ ws' = "retry" /\ wsLink' = FALSE /\ wsQueue' = <<>>
  /\ ncLink' = FALSE /\ subscribed' = FALSE /\ notifs' = 0
  /\ jobs' = 0 /\ asked' = 0 /\ unseen' = FALSE
  /\ restartReq' = FALSE /\ alarms' = {}
  /\ excuse' = excuse \cup {"crash"}
  /\ UNCHANGED <<du, running, file, unwritten, last, killing, announced>>

ConnectFails ==
  /\ main = "retry" /\ LoopFree
  /\ alarms' = alarms \cup {NetconfLoss}
  /\ UNCHANGED <<du, running, netconf, main, worker, store, websocket, health>>

\* The worker is created, and the file written before it runs.
Connect ==
  /\ main = "retry"
  /\ main' = "watching" /\ worker' = "created"
  /\ ncLink' = TRUE /\ subscribed' = FALSE /\ notifs' = 0
  /\ alarms' = alarms \ {NetconfLoss}
  /\ WriteFull(wsQueue)
  /\ excuse' = IF file'["static"] # file["static"] THEN excuse \cup {"reconnect"} ELSE excuse
  /\ UNCHANGED <<du, running, ws, wsLink, asked, restartReq, killing, announced>>

FirstReadFails == main = "retry" /\ Crash

NoticeDrop ==
  /\ main = "watching" /\ ~ncLink /\ LoopFree
  /\ main' = "joining"
  /\ alarms' = alarms \cup {NetconfLoss}
  /\ UNCHANGED <<du, running, netconf, worker, store, websocket, health>>

Join ==
  /\ main = "joining" /\ worker = "stopped"
  /\ main' = "retry" /\ worker' = "none"
  /\ UNCHANGED <<du, running, netconf, store, websocket, health, alarms>>

JoinFailed == main = "joining" /\ worker = "failed" /\ Crash

-----------------------------------------------------------------------------
(* ConfigManager.run *)

WorkerTo(w) ==
  /\ worker' = w
  /\ UNCHANGED <<du, running, ncLink, main, file, unwritten, last, jobs, websocket, health, alarms>>

\* A refused subscription is logged, and the worker goes on without.
CreateSubscription ==
  /\ worker = "created"
  /\ \/ ncLink /\ subscribed' = TRUE /\ unseen' = (last # du) /\ WorkerTo("taking")
     \/ UNCHANGED <<subscribed, unseen>> /\ WorkerTo("taking")
     \/ ~ncLink /\ UNCHANGED <<subscribed, unseen>> /\ WorkerTo("failed")
  /\ UNCHANGED notifs

Stop ==
  /\ worker = "taking" /\ (main = "joining" \/ ~ncLink)
  /\ WorkerTo("stopped")
  /\ UNCHANGED <<subscribed, notifs, unseen>>

Take == worker = "taking" /\ notifs > 0 /\ ncLink /\ notifs' = notifs - 1

Unchanged ==
  /\ Take /\ du = last
  /\ UNCHANGED <<du, running, ncLink, subscribed, main, worker, store, websocket, health, alarms>>

RuntimeOnly == du # last /\ du["static"] = last["static"]

\* update_runtime_config
Commanded ==
  IF du["runtime"] # last["runtime"] THEN Append(wsQueue, Runtime(du["runtime"])) ELSE wsQueue

\* Slip: the file is left for the next full restart.
UpdateRuntimeOnly ==
  /\ Take /\ RuntimeOnly
  /\ last' = du /\ unseen' = FALSE
  /\ wsQueue' = Commanded
  /\ UNCHANGED <<du, running, ncLink, subscribed, main, worker, file, unwritten, jobs, ws, wsLink, asked, health, alarms>>

UpdateRuntime ==
  /\ Take /\ RuntimeOnly
  /\ WriteFull(Commanded)
  /\ UNCHANGED <<du, running, ncLink, subscribed, main, worker, ws, wsLink, asked, health, alarms>>

\* An exception, before the configuration is stored or after, ends the worker;
\* the commands that were queued by then are sent, the file is not written.
UpdateRaises ==
  /\ Take /\ RuntimeOnly
  /\ \/ wsQueue' = Commanded /\ UNCHANGED <<last, jobs, unseen>>
     \/ Read(Commanded)
  /\ worker' = "failed" /\ unwritten' = TRUE
  /\ UNCHANGED <<du, running, file, ncLink, subscribed, main, ws, wsLink, asked, health, alarms>>

\* Slip: the quit command alone is relied on.
FullRestartByQuit ==
  /\ Take /\ du["static"] # last["static"]
  /\ wsQueue' = Append(wsQueue, Quit)
  /\ worker' = IF ws = "up" THEN "writing" ELSE "waiting"
  /\ UNCHANGED <<du, running, ncLink, subscribed, main, store, ws, wsLink, asked, health, alarms>>

\* _full_restart.  With the WebSocket up it does not wait.
FullRestart ==
  /\ Take /\ du["static"] # last["static"]
  /\ wsQueue' = Append(wsQueue, Quit)
  /\ restartReq' = TRUE
  /\ worker' = IF ws = "up" THEN "writing" ELSE "waiting"
  /\ UNCHANGED <<du, running, ncLink, subscribed, main, store, ws, wsLink, asked,
                 killing, announced, excuse, alarms>>

Waited ==
  /\ worker = "waiting" /\ ws = "up"
  /\ worker' = "writing"
  /\ UNCHANGED <<du, running, netconf, main, store, websocket, health, alarms>>

GiveUp ==
  /\ worker = "waiting" /\ ws # "up"
  /\ worker' = "writing" /\ restartReq' = TRUE
  /\ UNCHANGED <<du, running, netconf, main, store, websocket, killing, announced, excuse, alarms>>

Refetch ==
  /\ worker = "writing" /\ ncLink
  /\ worker' = "taking"
  /\ WriteFull(wsQueue)
  /\ UNCHANGED <<du, running, netconf, main, ws, wsLink, asked, health, alarms>>

RefetchRaises ==
  /\ worker = "writing" /\ ncLink
  /\ worker' = "failed" /\ unwritten' = TRUE
  /\ Read(wsQueue)
  /\ UNCHANGED <<du, running, file, netconf, main, ws, wsLink, asked, health, alarms>>

\* An rpc-error or a dead session: the exception is kept until the worker is joined.
ReadFails ==
  /\ worker = "writing" \/ (worker = "taking" /\ notifs > 0)
  /\ WorkerTo("failed")
  /\ UNCHANGED <<subscribed, notifs, unseen>>

-----------------------------------------------------------------------------
(* ws_handler *)

\* Slip: pending commands are sent to the gNB that has just come up.
WsConnectWithPending ==
  /\ ws = "retry" /\ gnbUp /\ LoopFree
  /\ ws' = "up" /\ wsLink' = TRUE
  /\ alarms' = alarms \ {WsLoss}
  /\ wsQueue' = Append(wsQueue, Subscribe) /\ asked' = 0
  /\ UNCHANGED <<du, running, netconf, main, worker, store, health>>

WsConnect ==
  /\ ws = "retry" /\ gnbUp /\ LoopFree
  /\ ws' = "up" /\ wsLink' = TRUE
  /\ alarms' = alarms \ {WsLoss}
  /\ wsQueue' = <<Subscribe>> /\ asked' = 0
  /\ UNCHANGED <<du, running, netconf, main, worker, store, health>>

\* A handshake the gNB does not complete is none of the exceptions caught.
HandshakeFails ==
  /\ ws = "retry" /\ LoopFree
  /\ ws' = "broken"
  /\ UNCHANGED <<du, running, netconf, main, worker, store, wsLink, wsQueue, asked, health, alarms>>

HandlerFails == ws = "broken" /\ LoopFree /\ Crash

WsLinkDrops ==
  /\ wsLink
  /\ wsLink' = FALSE
  /\ UNCHANGED <<du, running, netconf, main, worker, store, ws, wsQueue, asked, health, alarms>>

WsClosed ==
  /\ ws = "up" /\ ~wsLink /\ LoopFree
  /\ ws' = "retry"
  /\ alarms' = alarms \cup {WsLoss}
  /\ UNCHANGED <<du, running, netconf, main, worker, store, wsLink, wsQueue, asked, health>>

\* The sender task; a command sent into a dead connection is lost.
Send ==
  /\ ws = "up" /\ wsQueue # <<>> /\ LoopFree
  /\ wsQueue' = Tail(wsQueue)
  /\ LET c == Head(wsQueue) IN
       /\ asked' = IF wsLink /\ c = Subscribe THEN jobs ELSE asked
       /\ gnb' = IF wsLink /\ c.cmd = "runtime" THEN [gnb EXCEPT !["runtime"] = c.value] ELSE gnb
       /\ gnbUp' = (gnbUp /\ ~(wsLink /\ c = Quit))
       /\ wsLink' = (wsLink /\ c # Quit)
  /\ UNCHANGED <<du, netconf, main, worker, store, ws, health, alarms>>

-----------------------------------------------------------------------------
(* The gNB and whoever restarts it *)

GnbStarts ==
  /\ ~gnbUp
  /\ gnbUp' = TRUE /\ gnb' = file
  /\ announced' = TRUE
  /\ excuse' = IF Requesting THEN excuse ELSE {}
  /\ UNCHANGED <<du, netconf, main, worker, store, websocket, restartReq, killing, alarms>>

GnbDies ==
  /\ gnbUp
  /\ gnbUp' = FALSE /\ wsLink' = FALSE
  /\ killing' = FALSE
  /\ UNCHANGED <<du, gnb, netconf, main, worker, store, ws, wsQueue, asked,
                 restartReq, announced, excuse, alarms>>

\* /config-healthy
CheckHealth ==
  /\ restartReq
  /\ restartReq' = ~AutoHeal
  /\ killing' = TRUE
  /\ excuse' = IF AutoHeal /\ Requesting THEN excuse \cup {"early"} ELSE excuse
  /\ UNCHANGED <<du, running, netconf, main, worker, store, websocket, announced, alarms>>

\* /restarted
Restarted ==
  /\ announced
  /\ announced' = FALSE /\ restartReq' = FALSE
  /\ excuse' = IF Stale \/ Requesting THEN excuse \cup {"early"} ELSE excuse
  /\ UNCHANGED <<du, running, netconf, main, worker, store, websocket, killing, alarms>>

Next ==
  \/ \E p \in Part : Change(p)
  \/ NcDrops \/ ConnectFails \/ Connect \/ FirstReadFails \/ NoticeDrop \/ Join \/ JoinFailed
  \/ CreateSubscription \/ Stop \/ Unchanged \/ UpdateRuntime \/ UpdateRaises
  \/ FullRestart \/ Waited \/ GiveUp \/ Refetch \/ RefetchRaises \/ ReadFails
  \/ WsConnect \/ HandshakeFails \/ HandlerFails \/ WsLinkDrops \/ WsClosed \/ Send
  \/ GnbStarts \/ GnbDies \/ CheckHealth \/ Restarted

Spec == Init /\ [][Next]_vars

-----------------------------------------------------------------------------
(***************************************************************************)
(* A worker with nothing left to take has seen the datastore as it is, and *)
(* rendered it (process_config_update, the refetch after a restart         *)
(* request), unless the datastore changed before it was subscribed.        *)
(***************************************************************************)
FileFollowsDatastore ==
  worker = "taking" /\ ncLink /\ subscribed /\ notifs = 0 /\ ~unseen =>
    last = du /\ (Renderable(du) => file = du)

(***************************************************************************)
(* The gNB never goes back to an older configuration: commands reach it in *)
(* order, a new session begins with no command of the last one, and the    *)
(* file it starts from holds what it was commanded (_run_ws_session,       *)
(* process_config_update).  There is one exception: when the configuration *)
(* read last did not get to the file, because it was not rendered or an    *)
(* exception came first, a gNB that starts loses what it had been          *)
(* commanded, and nothing else.                                            *)
(***************************************************************************)
GnbNeverGoesBack ==
  [][\A p \in Part : \/ gnb[p] <= gnb'[p]
                     \/ p = "runtime" /\ ~gnbUp /\ unwritten]_vars

(***************************************************************************)
(* While it is connected the gNB was asked for the metrics of every active *)
(* job since it became active, or is about to be (write_full_config,       *)
(* _run_ws_session).                                                       *)
(***************************************************************************)
SnapshotAsked == wsLink /\ ~Pending("metrics_subscribe") => asked = jobs

Flagged == restartReq \/ killing \/ Pending("quit")

(***************************************************************************)
(* A gNB that runs an older configuration than the file is flagged for a   *)
(* restart, unless the file was written on connecting, the restart was     *)
(* reported or answered before it was written, or the adapter failed.      *)
(***************************************************************************)
StaleGnbIsFlagged == Stale => Flagged \/ excuse # {}

(***************************************************************************)
(* README.md:42: the unhealthy status "can be used to trigger a restart",  *)
(* and /restarted to reset it; who does so while the adapter is connected  *)
(* is left with a gNB that runs the changed configuration.  Not so while   *)
(* the wait for the WebSocket keeps the file from being written.           *)
(***************************************************************************)
RestartBringsTheChange == Stale => Flagged \/ excuse \cap {"reconnect", "crash"} # {}
=============================================================================
