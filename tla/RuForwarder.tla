---------------------------- MODULE RuForwarder ----------------------------
(***************************************************************************)
(* The RU forwarder (ru_forwarder.py) with what feeds it: the bootstrap    *)
(* that copies the O-RU's configuration into the source datastore once     *)
(* (sync_source_netconf_from_ru, called by o1_adapter.netconf_main), and   *)
(* the configuration manager's queue of updates, of which only the latest  *)
(* waits (config_manager._enqueue_ru_forward_update).                      *)
(*                                                                         *)
(* A configuration gives each top-level element of the namespaces that are *)
(* forwarded a version: the number of the operator's commit that wrote it, *)
(* Own for what the O-RU came with, Absent when there is no such element.  *)
(* What the configuration manager does with a change besides queueing it   *)
(* is in ConfigSync.                                                       *)
(*                                                                         *)
(* last, lost, unseen, adopted and syncWrote are for the properties.       *)
(***************************************************************************)
EXTENDS Integers, Sequences

CONSTANTS Element,
          None,           \* no update
          Startup,        \* the configurations an O-RU may come up with
          OwnsAlarm,      \* owns_connection_alarm: not --ru_supervise
          MaxCommits,     \* bound: the operator's commits
          MaxDrops,       \* bound: sessions that drop, on either side
          MaxReboots,     \* bound: reboots of the O-RU, which lose what it was sent
          MaxRestarts     \* bound: ends of the adapter, which is started again

Absent == 0
Own == -1

ASSUME ForwarderAssumption ==
  /\ None \notin [Element -> Int]
  /\ Startup \subseteq [Element -> {Own, Absent}]
  /\ OwnsAlarm \in BOOLEAN
  /\ MaxCommits \in Nat /\ MaxDrops \in Nat /\ MaxReboots \in Nat /\ MaxRestarts \in Nat

VARIABLES
  source,      \* the source datastore
  ru,          \* the O-RU's datastore
  commits, drops, reboots, restarts,
  main,        \* where netconf_main and the worker of its session are: the worker
               \* is "subscribing", "up", "deaf" without a subscription, or "dead"
  syncDone,    \* startup_ru_sync_done
  got, todo,   \* the O-RU's configuration as the bootstrap read it, the elements to apply
  dirty,       \* a change notification waits for the configuration manager
  seen,        \* last_config, what it read last
  queue,       \* state.ru_update_queue
  fw,          \* where RuForwarder.run is
  link,        \* ru_session.connected
  hand,        \* the update being forwarded
  flag,        \* session_state["ru_nc_connected"]
  alarm,       \* alarm 1003
  last,        \* the update queued last
  lost,        \* it was not forwarded, or not known to be, or the O-RU lost it
  unseen,      \* there was a commit between the first read and the subscription
  adopted,     \* elements the source took from the O-RU, not committed since
  syncWrote    \* the alarm was last written by the bootstrap's connect

environment == <<commits, drops, reboots, restarts>>
bootstrap == <<main, syncDone, got, todo, adopted>>
updates == <<dirty, seen, unseen, queue, last>>
session == <<fw, link, hand, flag>>
raised == <<alarm, syncWrote>>
vars == <<source, ru, environment, bootstrap, updates, session, raised, lost>>

Version == -1 .. MaxCommits
Config == [Element -> Version]
Update == Config \cup {None}
Empty == [e \in Element |-> Absent]

\* Only the latest update waits.
TypeOK ==
  /\ source \in Config /\ ru \in Config
  /\ commits \in 0 .. MaxCommits /\ drops \in 0 .. MaxDrops
  /\ reboots \in 0 .. MaxReboots /\ restarts \in 0 .. MaxRestarts
  /\ main \in {"connecting", "sync", "reading", "applying", "subscribing", "up", "deaf", "dead"}
  /\ syncDone \in BOOLEAN /\ got \in Config /\ todo \subseteq Element
  /\ dirty \in BOOLEAN /\ unseen \in BOOLEAN /\ seen \in Update
  /\ last \in Update /\ queue \in {<<>>, <<last>>}
  /\ hand \in Update /\ (hand # None <=> fw = "editing")
  /\ fw \in {"connecting", "serving", "editing", "waiting"}
  /\ link \in BOOLEAN /\ flag \in BOOLEAN /\ alarm \in BOOLEAN
  /\ lost \in BOOLEAN /\ adopted \subseteq Element /\ syncWrote \in BOOLEAN

\* The O-RU has a configuration of its own, the source may lack elements.
Init ==
  /\ source = Empty
  /\ ru \in Startup
  /\ commits = 0 /\ drops = 0 /\ reboots = 0 /\ restarts = 0
  /\ main = "connecting" /\ syncDone = FALSE
  /\ got = Empty /\ todo = {} /\ adopted = {}
  /\ dirty = FALSE /\ seen = None /\ unseen = FALSE /\ queue = <<>> /\ last = None
  /\ fw = "connecting" /\ link = FALSE /\ hand = None /\ flag = FALSE
  /\ alarm = FALSE /\ syncWrote = FALSE /\ lost = FALSE

-----------------------------------------------------------------------------
(* The operator and the network *)

\* A commit writes one element of the source, or removes it.  The adapter is
\* told while its configuration manager is subscribed.
Commit(e, v) ==
  /\ commits < MaxCommits
  /\ v \in {commits + 1, Absent}
  /\ commits' = commits + 1
  /\ source' = [source EXCEPT ![e] = v]
  /\ adopted' = adopted \ {e}
  /\ dirty' = (dirty \/ main = "up")
  /\ UNCHANGED <<ru, drops, reboots, restarts, main, syncDone, got, todo,
                 seen, unseen, queue, last, session, raised, lost>>

RuDrops ==
  /\ link /\ drops < MaxDrops
  /\ drops' = drops + 1
  /\ link' = FALSE
  /\ UNCHANGED <<source, ru, commits, reboots, restarts, bootstrap, updates, fw, hand, flag, raised, lost>>

\* The O-RU starts again with a configuration of its own; nobody sends it the
\* last update again.
RuReboots ==
  /\ reboots < MaxReboots
  /\ reboots' = reboots + 1
  /\ ru' \in Startup
  /\ link' = FALSE
  /\ adopted' = {}
  /\ lost' = (last # None /\ queue = <<>>)
  /\ UNCHANGED <<source, commits, drops, restarts, main, syncDone, got, todo, updates, fw, hand, flag, raised>>

\* netconf_main notices, stops the worker and connects anew, with a manager that
\* has seen nothing.  With a worker that died it ends the adapter: see Restart.
SourceDrops ==
  /\ main \in {"up", "deaf"} /\ drops < MaxDrops
  /\ drops' = drops + 1
  /\ main' = "connecting" /\ dirty' = FALSE /\ seen' = None /\ unseen' = FALSE
  /\ UNCHANGED <<source, ru, commits, reboots, restarts, syncDone, got, todo, adopted,
                 queue, last, session, raised, lost>>

\* The edit merges: an element the update lacks stays as it is.
Merged(c, elements) ==
  [e \in Element |-> IF e \in elements /\ c[e] # Absent THEN c[e] ELSE ru[e]]

\* An edit that is refused or not answered may have been applied, or some of it.
PartlyMerged(c) == \E elements \in SUBSET Element : ru' = Merged(c, elements)

\* An exception none of the tasks catches ends the adapter: queue, update in
\* hand and alarms are gone with it.
Restart ==
  /\ restarts < MaxRestarts
  /\ restarts' = restarts + 1
  /\ main' = "connecting" /\ syncDone' = FALSE /\ got' = Empty /\ todo' = {} /\ adopted' = {}
  /\ dirty' = FALSE /\ seen' = None /\ unseen' = FALSE /\ queue' = <<>> /\ last' = None
  /\ fw' = "connecting" /\ link' = FALSE /\ hand' = None /\ flag' = FALSE
  /\ alarm' = FALSE /\ syncWrote' = FALSE /\ lost' = FALSE
  /\ IF hand = None THEN UNCHANGED ru ELSE PartlyMerged(hand)
  /\ UNCHANGED <<source, commits, drops, reboots>>

-----------------------------------------------------------------------------
(* The configuration manager's side of the queue *)

\* The updates that wait are drained first.
Enqueue(c) ==
  /\ queue' = <<c>>
  /\ last' = c /\ lost' = FALSE

\* write_full_config: read the source, and queue it unless it is not rendered.
Write ==
  /\ seen' = source /\ unseen' = FALSE
  /\ Enqueue(source) \/ UNCHANGED <<queue, last, lost>>

\* A refused subscription is logged, and the worker goes on without; any other
\* exception ends it, unnoticed while the session lasts.
Subscribe ==
  /\ main = "subscribing"
  /\ \/ main' = "up" /\ unseen' = (seen # source)
     \/ main' \in {"deaf", "dead"} /\ UNCHANGED unseen
  /\ UNCHANGED <<source, ru, environment, syncDone, got, todo, adopted, dirty, seen, queue, last,
                 session, raised, lost>>

\* A notification is handled, or the worker dies of it.
HandleChange ==
  /\ main = "up" /\ dirty
  /\ dirty' = FALSE
  /\ \/ main' = "up" /\ IF seen = source THEN UNCHANGED <<seen, unseen, queue, last, lost>> ELSE Write
     \/ main' = "dead" /\ UNCHANGED <<seen, unseen, queue, last, lost>>
  /\ UNCHANGED <<source, ru, environment, syncDone, got, todo, adopted, session, raised>>

-----------------------------------------------------------------------------
(* netconf_main and the bootstrap *)

\* netconf_main creates the worker, which runs only when it has written what the
\* source holds now: a commit in between is not notified.
Serve ==
  /\ main' = "subscribing" /\ UNCHANGED dirty
  /\ Write

\* Slip: the first update is queued before the bootstrap.
ConnectSourceWriting ==
  /\ main = "connecting"
  /\ IF syncDone THEN Serve ELSE main' = "sync" /\ UNCHANGED dirty /\ Write
  /\ UNCHANGED <<source, ru, environment, syncDone, got, todo, adopted, session, raised>>

ConnectSource ==
  /\ main = "connecting"
  /\ IF syncDone THEN Serve ELSE main' = "sync" /\ UNCHANGED <<updates, lost>>
  /\ UNCHANGED <<source, ru, environment, syncDone, got, todo, adopted, session, raised>>

\* A bootstrap that failed counts as done.
EndSync == syncDone' = TRUE /\ got' = Empty /\ todo' = {} /\ Serve

\* Whoever tries to connect writes the alarm, unless the M-plane session does.
Tell(lostIt, bySync) ==
  /\ alarm' = IF OwnsAlarm THEN lostIt ELSE alarm
  /\ syncWrote' = (OwnsAlarm /\ bySync)

SyncConnect ==
  /\ main = "sync"
  /\ \/ main' = "reading" /\ Tell(FALSE, TRUE) /\ UNCHANGED <<syncDone, got, todo, updates, lost>>
     \/ EndSync /\ Tell(TRUE, TRUE)
  /\ UNCHANGED <<source, ru, environment, adopted, session>>

SyncRead ==
  /\ main = "reading"
  /\ \/ /\ main' = "applying"
        /\ got' = ru /\ todo' = {e \in Element : ru[e] # Absent}
        /\ UNCHANGED <<syncDone, updates, lost>>
     \/ EndSync
  /\ UNCHANGED <<source, ru, environment, adopted, session, raised>>

\* One merge per element; one that fails is logged and the next one tried.
SyncApply(e) ==
  /\ main = "applying" /\ e \in todo
  /\ todo' = todo \ {e}
  /\ \/ /\ source' = [source EXCEPT ![e] = got[e]]
        /\ adopted' = IF got[e] = ru[e] THEN adopted \cup {e} ELSE adopted \ {e}
     \/ UNCHANGED <<source, adopted>>
  /\ UNCHANGED <<ru, environment, main, syncDone, got, updates, session, raised, lost>>

SyncApplied ==
  /\ main = "applying" /\ todo = {}
  /\ EndSync
  /\ UNCHANGED <<source, ru, environment, adopted, session, raised>>

-----------------------------------------------------------------------------
(* RuForwarder.run *)

\* Slip: updates that waited for the session are drained as stale.
ConnectDraining ==
  /\ fw = "connecting"
  /\ fw' = "serving" /\ link' = TRUE /\ flag' = TRUE
  /\ queue' = <<>>
  /\ Tell(FALSE, FALSE)
  /\ UNCHANGED <<source, ru, environment, bootstrap, dirty, seen, unseen, last, hand, lost>>

Connect ==
  /\ fw = "connecting"
  /\ fw' = "serving" /\ link' = TRUE /\ flag' = TRUE
  /\ Tell(FALSE, FALSE)
  /\ UNCHANGED <<source, ru, environment, bootstrap, updates, hand, lost>>

\* Slip: only the flag tells.
LeaveQuietly ==
  /\ fw' = "waiting" /\ link' = FALSE /\ flag' = FALSE
  /\ UNCHANGED raised

\* The end of a round, connected or not.
Leave ==
  /\ fw' = "waiting" /\ link' = FALSE /\ flag' = FALSE
  /\ Tell(TRUE, FALSE)

ConnectFails ==
  /\ fw = "connecting"
  /\ Leave
  /\ UNCHANGED <<source, ru, environment, bootstrap, updates, hand, lost>>

Retry ==
  /\ fw = "waiting"
  /\ fw' = "connecting"
  /\ UNCHANGED <<source, ru, environment, bootstrap, updates, link, hand, flag, raised, lost>>

NoticeDrop ==
  /\ fw = "serving" /\ ~link
  /\ Leave
  /\ UNCHANGED <<source, ru, environment, bootstrap, updates, hand, lost>>

\* The look at the session may be a second old when an update comes.  An update
\* without an element to forward is skipped.
Take ==
  /\ fw = "serving" /\ queue # <<>>
  /\ queue' = Tail(queue)
  /\ IF \E e \in Element : Head(queue)[e] # Absent
     THEN fw' = "editing" /\ hand' = Head(queue)
     ELSE UNCHANGED <<fw, hand>>
  /\ UNCHANGED <<source, ru, environment, bootstrap, dirty, seen, unseen, last, link, flag, raised, lost>>

Forward ==
  /\ fw = "editing" /\ link
  /\ ru' = Merged(hand, Element)
  /\ fw' = "serving" /\ hand' = None
  /\ UNCHANGED <<source, environment, bootstrap, updates, link, flag, raised, lost>>

\* Slip: an update whose edit failed waits again.
FailRequeueing ==
  /\ fw = "editing"
  /\ PartlyMerged(hand)
  /\ hand' = None
  /\ queue' = Append(queue, hand)
  /\ IF link
     THEN fw' = "serving" /\ UNCHANGED <<link, flag, raised>>
     ELSE Leave
  /\ UNCHANGED <<source, environment, bootstrap, dirty, seen, unseen, last, lost>>

\* The O-RU refuses the edit, having applied some of it or nothing, or the
\* answer does not come.  The update is dropped.
Fail ==
  /\ fw = "editing"
  /\ PartlyMerged(hand)
  /\ hand' = None
  /\ lost' = (queue = <<>>)
  /\ IF link
     THEN fw' = "serving" /\ UNCHANGED <<link, flag, raised>>
     ELSE Leave
  /\ UNCHANGED <<source, environment, bootstrap, updates>>

Forwarder == Connect \/ ConnectFails \/ Retry \/ NoticeDrop \/ Take \/ Forward \/ Fail

NetconfMain ==
  \/ ConnectSource \/ SyncConnect \/ SyncRead \/ SyncApplied \/ Subscribe \/ HandleChange
  \/ \E e \in Element : SyncApply(e)

Environment ==
  \/ \E e \in Element : \E v \in Version : Commit(e, v)
  \/ RuDrops \/ RuReboots \/ SourceDrops \/ Restart

Next == Environment \/ NetconfMain \/ Forwarder

Spec == Init /\ [][Next]_vars

-----------------------------------------------------------------------------
(* Both tasks go on, and an O-RU that is tried again and again is reached.  *)

Fairness ==
  /\ WF_vars(NetconfMain)
  /\ WF_vars(Forwarder)
  /\ SF_vars(Connect)
  /\ SF_vars(Take)

FairSpec == Spec /\ Fairness

RuHas(c) == \A e \in Element : c[e] # Absent => ru[e] = c[e]

(***************************************************************************)
(* The update queued last is not overlooked: it waits, is being forwarded, *)
(* is on the O-RU, or its edit failed or the O-RU lost it with a reboot    *)
(* (the drained queue, the take that may be too late, the dropped update   *)
(* of run).                                                                *)
(***************************************************************************)
NewestInHand ==
  last # None /\ ~lost => queue = <<last>> \/ hand = last \/ RuHas(last)

(***************************************************************************)
(* What the source took from the O-RU at the start is not overwritten by   *)
(* what the source held before, although both tasks run at once and the    *)
(* bootstrap may fail for some elements (netconf_main writes the first     *)
(* update after the bootstrap).                                            *)
(***************************************************************************)
BootstrapKept == \A e \in adopted : source[e] = ru[e]

(***************************************************************************)
(* Flag and alarm 1003 tell the forwarder's session, unless the            *)
(* bootstrap's own connect was the last to write the alarm (try_connect,   *)
(* run).                                                                   *)
(***************************************************************************)
OutageTold ==
  /\ (flag <=> fw \in {"serving", "editing"})
  /\ OwnsAlarm /\ ~syncWrote =>
       /\ fw = "waiting" => alarm
       /\ flag => ~alarm

(***************************************************************************)
(* The O-RU never goes back unless it reboots: no element is overwritten   *)
(* by an older commit, over failed and half-applied edits, dropped         *)
(* sessions and restarts that copy the O-RU's configuration over a newer   *)
(* source (run, Enqueue).                                                  *)
(***************************************************************************)
RuNeverGoesBack ==
  [][reboots' # reboots \/ \A e \in Element : ru'[e] >= ru[e] \/ ru[e] = Absent]_vars

\* The worker hears of no commit.
Unheard == main \in {"deaf", "dead"} \/ unseen

(***************************************************************************)
(* When commits, drops and reboots end, the O-RU has what the source       *)
(* holds, with these exceptions: its last edit failed, or it lost what it  *)
(* was sent, and there is no second try (run, l.235); the last change was  *)
(* not rendered; or the worker did not hear of it, because its             *)
(* subscription was refused, it died, or the change came after the first   *)
(* read and before the subscription (netconf_main l.192, worker l.362).    *)
(***************************************************************************)
CatchesUp == <>[](RuHas(source) \/ lost \/ seen # last \/ (Unheard /\ seen # source))
=============================================================================
