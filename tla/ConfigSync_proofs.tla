-------------------------- MODULE ConfigSync_proofs --------------------------
(***************************************************************************)
(* Configuration management, for any number of changes and of jobs, any    *)
(* values the template cannot render, with --autoheal or without.          *)
(***************************************************************************)
EXTENDS ConfigSync, TLAPS

USE ConfigAssumption

\* Every notification is one of the changes.
Counted == Total(du) <= MaxChanges /\ notifs <= Total(du)

\* How far what the gNB was commanded may be: no further than the file, unless
\* the configuration it was taken from did not get there.
Limit == IF unwritten THEN du["runtime"] ELSE file["runtime"]

\* What runs was started from the file or commanded since, and what is on file
\* was read from the datastore; all of them only move on.
Behind ==
  /\ \A p \in Part : file[p] <= du[p]
  /\ \A p \in Part \ {"runtime"} : gnb[p] <= file[p]
  /\ gnb["runtime"] <= Limit
  /\ jobs <= du["jobs"]

\* A worker at work has written what it read last, if it could be rendered.
Rendered == worker \notin {"none", "failed"} /\ Renderable(last) => file = last

\* What was not notified was read before the subscription.
Seen ==
  /\ worker = "created" => ~subscribed
  /\ worker = "taking" /\ ncLink /\ subscribed /\ notifs = 0 /\ ~unseen => last = du

\* While there is a connection, the queued commands lead from what the gNB runs
\* as far as it may be, in order.
Ordered(q, low, high) ==
  /\ \A i \in 1 .. Len(q) : q[i].cmd = "runtime" => low <= q[i].value /\ q[i].value <= high
  /\ \A i, j \in 1 .. Len(q) : i < j /\ q[i].cmd = "runtime" /\ q[j].cmd = "runtime" =>
       q[i].value <= q[j].value

Queued == wsLink => Ordered(wsQueue, gnb["runtime"], Limit)

IInv ==
  TypeOK /\ Counted /\ Behind /\ Rendered /\ Seen /\ Queued /\ SnapshotAsked

-----------------------------------------------------------------------------
(* The effects of a step on what the invariant relates *)

\* Nothing of it, but that the connection may be lost.
Quiet ==
  /\ UNCHANGED <<du, running, file, unwritten, last, jobs, wsQueue, asked>>
  /\ wsLink' => wsLink
  /\ worker' \in {"none", "failed"} \/ worker \notin {"none", "failed"}

\* The commands for what the gNB takes at run time may be sent before a write.
MayCommand(queue) == queue \in {wsQueue, Append(wsQueue, Runtime(du["runtime"]))}

Writes ==
  /\ \E q \in Seq(Command) : MayCommand(q) /\ WriteFull(q)
  /\ UNCHANGED <<du, running, wsLink, asked>>

Raises ==
  /\ \E q \in Seq(Command) :
       MayCommand(q) /\ (Read(q) \/ (wsQueue' = q /\ UNCHANGED <<last, jobs>>))
  /\ worker' = "failed" /\ unwritten' = TRUE
  /\ UNCHANGED <<du, running, file, wsLink, asked>>

Effect ==
  \/ Quiet \/ Writes \/ Raises \/ FullRestart \/ Crash
  \/ \E p \in Part : Change(p)
  \/ WsConnect \/ Send
  \/ GnbStarts \/ GnbDies \/ CheckHealth \/ Restarted

USE DEF netconf, store, websocket, health, running

LEMMA AppendQueue ==
  ASSUME NEW q \in Seq(Command), NEW c \in Command
  PROVE  /\ Append(q, c) \in Seq(Command) /\ Len(Append(q, c)) = Len(q) + 1 /\ Len(q) \in Nat
         /\ \A i \in 1 .. Len(q) : Append(q, c)[i] = q[i]
         /\ Append(q, c)[Len(q) + 1] = c
  OBVIOUS

LEMMA Commanding ==
  ASSUME TypeOK
  PROVE  /\ wsQueue \in Seq(Command) /\ MayCommand(wsQueue)
         /\ Commanded \in Seq(Command) /\ MayCommand(Commanded)
<1>1. Runtime(du["runtime"]) \in Command
  BY DEF TypeOK, Config, Part, Command
<1>2. wsQueue \in Seq(Command)
  BY DEF TypeOK
<1> QED
  BY <1>1, <1>2, AppendQueue DEF MayCommand, Commanded

LEMMA Effects ==
  ASSUME TypeOK, Next
  PROVE  Effect
<1>c. /\ wsQueue \in Seq(Command) /\ MayCommand(wsQueue)
      /\ Commanded \in Seq(Command) /\ MayCommand(Commanded)
  BY Commanding
<1>1. CASE NcDrops \/ ConnectFails \/ NoticeDrop \/ Join
  BY <1>1 DEF NcDrops, ConnectFails, NoticeDrop, Join, Effect, Quiet
<1>2. CASE Connect
  BY <1>2, <1>c DEF Connect, Effect, Writes
<1>3. CASE FirstReadFails \/ JoinFailed \/ HandlerFails
  BY <1>3 DEF FirstReadFails, JoinFailed, HandlerFails, Effect
<1>4. CASE CreateSubscription \/ Stop \/ Unchanged
  BY <1>4 DEF CreateSubscription, Stop, Unchanged, Take, WorkerTo, Effect, Quiet
<1>5. CASE UpdateRuntime
  BY <1>5, <1>c DEF UpdateRuntime, Effect, Writes
<1>6. CASE UpdateRaises
  BY <1>6, <1>c DEF UpdateRaises, Effect, Raises
<1>7. CASE Waited \/ GiveUp \/ ReadFails
  BY <1>7 DEF Waited, GiveUp, ReadFails, WorkerTo, Effect, Quiet
<1>8. CASE Refetch
  BY <1>8, <1>c DEF Refetch, Effect, Writes
<1>9. CASE RefetchRaises
  BY <1>9, <1>c DEF RefetchRaises, Effect, Raises
<1>10. CASE HandshakeFails \/ WsLinkDrops \/ WsClosed
  BY <1>10 DEF HandshakeFails, WsLinkDrops, WsClosed, Effect, Quiet
<1> QED
  BY <1>1, <1>2, <1>3, <1>4, <1>5, <1>6, <1>7, <1>8, <1>9, <1>10 DEF Next, Effect

-----------------------------------------------------------------------------
\* What the invariant says of the types, as the steps need it.
LEMMA Types ==
  ASSUME IInv
  PROVE  /\ du \in Config /\ file \in Config /\ last \in Config /\ gnb \in Config
         /\ \A p \in Part : du[p] \in Nat /\ file[p] \in Nat /\ last[p] \in Nat /\ gnb[p] \in Nat
         /\ jobs \in Nat /\ notifs \in Nat
         /\ wsQueue \in Seq(Command)
         /\ \A i \in 1 .. Len(wsQueue) : wsQueue[i] \in Command
         /\ \A p \in Part : gnb[p] <= du[p] /\ file[p] <= du[p]
         /\ \A p \in Part \ {"runtime"} : gnb[p] <= file[p]
         /\ Limit \in Nat /\ gnb["runtime"] <= Limit /\ Limit <= du["runtime"]
         /\ jobs <= du["jobs"]
<1>1. TypeOK /\ Behind
  BY DEF IInv
<1>2. wsQueue \in Seq(Command)
  BY <1>1 DEF TypeOK
<1> QED
  BY <1>1, <1>2, SMTT(30) DEF TypeOK, Behind, Config, Part, Limit

LEMMA Kinds ==
  ASSUME NEW c \in Command
  PROVE  /\ c.cmd = "runtime" => c = Runtime(c.value) /\ c.value \in 0 .. MaxChanges
         /\ c.cmd = "metrics_subscribe" <=> c = Subscribe
         /\ c.cmd = "quit" <=> c = Quit
  BY DEF Command, Runtime, Subscribe, Quit

\* The first command, when it is one for run time, follows what the gNB runs.
LEMMA Sent ==
  ASSUME IInv, Send
  PROVE  /\ wsQueue # <<>> /\ Head(wsQueue) \in Command /\ wsQueue' = Tail(wsQueue)
         /\ UNCHANGED <<du, file, unwritten, last, jobs, worker>>
         /\ asked' = IF wsLink /\ Head(wsQueue) = Subscribe THEN jobs ELSE asked
         /\ wsLink' => wsLink
         /\ gnbUp' => gnbUp
         /\ \/ gnb' = gnb /\ (wsLink => Head(wsQueue).cmd # "runtime")
            \/ /\ wsLink /\ wsQueue[1].cmd = "runtime"
               /\ gnb["runtime"] <= wsQueue[1].value /\ wsQueue[1].value <= Limit
               /\ gnb' = [gnb EXCEPT !["runtime"] = wsQueue[1].value]
<1>1. /\ wsQueue \in Seq(Command) /\ wsQueue # <<>> /\ wsQueue' = Tail(wsQueue)
      /\ UNCHANGED <<du, file, unwritten, last, jobs, worker>>
      /\ asked' = IF wsLink /\ Head(wsQueue) = Subscribe THEN jobs ELSE asked
      /\ gnb' = IF wsLink /\ Head(wsQueue).cmd = "runtime"
                THEN [gnb EXCEPT !["runtime"] = Head(wsQueue).value] ELSE gnb
  BY Types DEF Send
<1>2. (wsLink' => wsLink) /\ (gnbUp' => gnbUp)
  BY DEF Send
<1>3. Head(wsQueue) = wsQueue[1] /\ 1 \in 1 .. Len(wsQueue) /\ Head(wsQueue) \in Command
  BY <1>1
<1>4. CASE wsLink /\ Head(wsQueue).cmd = "runtime"
  BY <1>1, <1>2, <1>3, <1>4 DEF IInv, Queued, Ordered
<1>5. CASE ~(wsLink /\ Head(wsQueue).cmd = "runtime")
  BY <1>1, <1>2, <1>3, <1>5
<1> QED
  BY <1>4, <1>5

-----------------------------------------------------------------------------
LEMMA BehindStep ==
  ASSUME IInv, Effect
  PROVE  Behind'
<1>t. /\ \A p \in Part : du[p] \in Nat /\ file[p] \in Nat /\ gnb[p] \in Nat
      /\ \A p \in Part : gnb[p] <= du[p] /\ file[p] <= du[p]
      /\ \A p \in Part \ {"runtime"} : gnb[p] <= file[p]
      /\ gnb["runtime"] <= Limit /\ jobs <= du["jobs"] /\ jobs \in Nat
      /\ "jobs" \in Part /\ "runtime" \in Part
  BY Types DEF Part
<1>1. CASE UNCHANGED <<du, gnb, file, unwritten>> /\ jobs' \in {0, jobs}
  BY <1>1, <1>t DEF Behind, Limit
<1>2. ASSUME NEW p \in Part, Change(p) PROVE Behind'
  <2>1. du' = [du EXCEPT ![p] = @ + 1] /\ UNCHANGED <<gnb, file, unwritten, jobs>>
    BY <1>2 DEF Change
  <2>2. \A q \in Part : du'[q] \in Nat /\ du[q] <= du'[q]
    <3> SUFFICES ASSUME NEW q \in Part PROVE du'[q] \in Nat /\ du[q] <= du'[q]
      OBVIOUS
    <3>1. du'[q] = IF q = p THEN du[q] + 1 ELSE du[q]
      BY <2>1, Types DEF Config
    <3> QED
      BY <1>t, <3>1
  <2>3. gnb["runtime"] <= IF unwritten THEN du'["runtime"] ELSE file["runtime"]
    BY <1>t, <2>2 DEF Limit
  <2>4. jobs <= du'["jobs"] /\ \A q \in Part : file[q] <= du'[q]
    BY <1>t, <2>2
  <2> QED
    BY <1>t, <2>1, <2>3, <2>4 DEF Behind, Limit
<1>3. CASE Writes
  <2>1. /\ jobs' = du["jobs"] /\ du' = du /\ gnb' = gnb
        /\ file' = IF unwritten' THEN file ELSE du
    BY <1>3 DEF Writes, WriteFull, Read
  <2>2. gnb["runtime"] <= Limit'
    BY <1>t, <2>1 DEF Limit
  <2> QED
    BY <1>t, <2>1, <2>2 DEF Behind
<1>7. CASE Raises
  <2>1. jobs' \in {jobs, du["jobs"]} /\ unwritten' /\ UNCHANGED <<du, gnb, file>>
    BY <1>7 DEF Raises, Read
  <2>2. jobs' <= du["jobs"]
    BY <1>t, <2>1
  <2> QED
    BY <1>t, <2>1, <2>2 DEF Behind, Limit
<1>4. CASE GnbStarts
  <2>1. gnb' = file /\ UNCHANGED <<du, file, unwritten, jobs>>
    BY <1>4 DEF GnbStarts
  <2> QED
    BY <1>t, <2>1 DEF Behind, Limit
<1>5. CASE Send
  <2>1. /\ UNCHANGED <<du, file, unwritten, jobs>> /\ Limit' = Limit
        /\ \A p \in Part \ {"runtime"} : gnb'[p] = gnb[p]
        /\ gnb'["runtime"] <= Limit
    <3>1. DOMAIN gnb = Part
      BY Types DEF Config
    <3> QED
      BY <1>5, <1>t, <3>1, Sent DEF Part, Limit
  <2> QED
    BY <1>t, <2>1 DEF Behind
<1>6. CASE Crash
  BY <1>1, <1>6 DEF Crash
<1> QED
  BY <1>1, <1>2, <1>3, <1>4, <1>5, <1>6, <1>7
     DEF Effect, Quiet, FullRestart, WsConnect, GnbDies, CheckHealth, Restarted

LEMMA RenderedStep ==
  ASSUME IInv, Effect
  PROVE  Rendered'
<1>1. CASE UNCHANGED <<file, last>> /\ (worker' \in {"none", "failed"} \/ worker \notin {"none", "failed"})
  BY <1>1 DEF IInv, Rendered, Renderable
<1>2. CASE Writes
  BY <1>2 DEF Writes, WriteFull, Read, Rendered, Renderable
<1>3. CASE Raises \/ Crash
  BY <1>3 DEF Raises, Crash, Rendered
<1>4. CASE FullRestart
  BY <1>1, <1>4 DEF FullRestart, Take
<1> QED
  BY <1>1, <1>2, <1>3, <1>4, Sent
     DEF Effect, Quiet, Change, WsConnect, GnbStarts, GnbDies, CheckHealth, Restarted

-----------------------------------------------------------------------------
LEMMA TailQueue ==
  ASSUME NEW q \in Seq(Command), q # <<>>
  PROVE  /\ Tail(q) \in Seq(Command) /\ Len(Tail(q)) = Len(q) - 1 /\ Len(q) \in Nat \ {0}
         /\ \A i \in 1 .. Len(Tail(q)) : Tail(q)[i] = q[i + 1] /\ i + 1 \in 1 .. Len(q)
  OBVIOUS

\* A command keeps the queue in order when it is none for run time, or carries
\* the highest value.
LEMMA OrderedAppend ==
  ASSUME NEW q \in Seq(Command), NEW c \in Command,
         NEW low \in Nat, NEW high \in Nat, NEW top \in Nat, low <= high, high <= top,
         Ordered(q, low, high), c.cmd = "runtime" => c.value = top
  PROVE  Append(q, c) \in Seq(Command) /\ Ordered(Append(q, c), low, top)
<1> DEFINE n == Len(q)
           r == Append(q, c)
<1>1. /\ r \in Seq(Command) /\ Len(r) = n + 1 /\ n \in Nat /\ r[n + 1] = c
      /\ \A i \in 1 .. n : r[i] = q[i]
  BY AppendQueue
<1>2. ASSUME NEW i \in 1 .. n, q[i].cmd = "runtime"
      PROVE  low <= q[i].value /\ q[i].value <= top
  <2>1. low <= q[i].value /\ q[i].value <= high
    BY <1>2 DEF Ordered
  <2>2. q[i] \in Command
    BY <1>1
  <2>3. q[i].value \in Nat
    BY <1>2, <2>2, Kinds
  <2> QED
    BY <2>1, <2>3
<1> HIDE DEF r, n
<1>3. ASSUME NEW i \in 1 .. n + 1, r[i].cmd = "runtime"
      PROVE  low <= r[i].value /\ r[i].value <= top
  <2>1. CASE i \in 1 .. n
    BY <1>1, <1>2, <1>3, <2>1
  <2>2. CASE i = n + 1
    BY <1>1, <1>3, <2>2
  <2> QED
    BY <1>1, <2>1, <2>2
<1>4. ASSUME NEW i \in 1 .. n + 1, NEW j \in 1 .. n + 1, i < j,
             r[i].cmd = "runtime", r[j].cmd = "runtime"
      PROVE  r[i].value <= r[j].value
  <2>1. i \in 1 .. n
    BY <1>1, <1>4
  <2>2. CASE j \in 1 .. n
    BY <1>1, <1>4, <2>1, <2>2 DEF Ordered, n
  <2>3. CASE j = n + 1
    BY <1>1, <1>2, <1>4, <2>1, <2>3
  <2> QED
    BY <1>1, <2>2, <2>3
<1>5. Ordered(r, low, top)
  BY <1>1, <1>3, <1>4 DEF Ordered
<1> QED
  BY <1>1, <1>5 DEF r

\* Sending the first command leaves the others in order after it.
LEMMA OrderedTail ==
  ASSUME NEW q \in Seq(Command), q # <<>>, NEW low, NEW high, Ordered(q, low, high)
  PROVE  /\ Ordered(Tail(q), low, high)
         /\ q[1].cmd = "runtime" => Ordered(Tail(q), q[1].value, high)
<1>1. /\ Len(Tail(q)) = Len(q) - 1 /\ Len(q) \in Nat \ {0}
      /\ \A i \in 1 .. Len(Tail(q)) : Tail(q)[i] = q[i + 1] /\ i + 1 \in 1 .. Len(q)
  BY TailQueue
<1>2. ASSUME NEW i \in 1 .. Len(Tail(q)), Tail(q)[i].cmd = "runtime"
      PROVE  /\ low <= Tail(q)[i].value /\ Tail(q)[i].value <= high
             /\ q[1].cmd = "runtime" => q[1].value <= Tail(q)[i].value
  <2>1. 1 \in 1 .. Len(q) /\ 1 < i + 1
    BY <1>1
  <2> QED
    BY <1>1, <1>2, <2>1 DEF Ordered
<1>3. ASSUME NEW i \in 1 .. Len(Tail(q)), NEW j \in 1 .. Len(Tail(q)), i < j,
             Tail(q)[i].cmd = "runtime", Tail(q)[j].cmd = "runtime"
      PROVE  Tail(q)[i].value <= Tail(q)[j].value
  <2>1. i + 1 < j + 1
    BY <1>3
  <2> QED
    BY <1>1, <1>3, <2>1 DEF Ordered
<1> QED
  BY <1>2, <1>3 DEF Ordered

\* What is in order stays so when more is allowed.
LEMMA OrderedWiden ==
  ASSUME NEW q \in Seq(Command), NEW low, NEW high \in Nat, NEW top \in Nat, high <= top,
         Ordered(q, low, high)
  PROVE  Ordered(q, low, top)
<1>1. \A i \in 1 .. Len(q) : q[i].cmd = "runtime" => q[i].value \in Nat
  <2>1. \A i \in 1 .. Len(q) : q[i] \in Command
    OBVIOUS
  <2> QED
    BY <2>1, Kinds
<1> QED
  BY <1>1 DEF Ordered

\* A read of the datastore appends what may be as new as the datastore.
LEMMA OrderedReads ==
  ASSUME IInv, wsLink, NEW q \in Seq(Command), MayCommand(q), Read(q) \/ wsQueue' = q
  PROVE  Ordered(wsQueue', gnb["runtime"], du["runtime"])
<1> DEFINE low == gnb["runtime"]
           top == du["runtime"]
<1>t. /\ wsQueue \in Seq(Command) /\ low \in Nat /\ Limit \in Nat /\ top \in Nat
      /\ low <= Limit /\ Limit <= top /\ low <= top /\ top <= top
      /\ Ordered(wsQueue, low, Limit)
  BY Types DEF Part, IInv, Queued
<1>2. Subscribe \in Command /\ Subscribe.cmd # "runtime"
  BY DEF Command, Subscribe
<1>3. Runtime(top) \in Command /\ (Runtime(top).cmd = "runtime" => Runtime(top).value = top)
  BY Types DEF Command, Runtime, Config, Part
<1> HIDE DEF low, top
<1>4. Ordered(q, low, top)
  <2>1. CASE q = wsQueue
    BY <1>t, <2>1, OrderedWiden
  <2>2. CASE q = Append(wsQueue, Runtime(top))
    BY <1>t, <1>3, <2>2, OrderedAppend
  <2> QED
    BY <2>1, <2>2 DEF MayCommand, top
<1>5. Ordered(Append(q, Subscribe), low, top)
  BY <1>t, <1>2, <1>4, OrderedAppend
<1>6. wsQueue' = q \/ wsQueue' = Append(q, Subscribe)
  BY DEF Read
<1> QED
  BY <1>4, <1>5, <1>6 DEF low, top

LEMMA QueuedStep ==
  ASSUME IInv, Effect
  PROVE  Queued'
<1> DEFINE low == gnb["runtime"]
<1>t. /\ wsQueue \in Seq(Command) /\ low \in Nat /\ Limit \in Nat /\ low <= Limit
      /\ wsLink => Ordered(wsQueue, low, Limit)
  BY Types DEF Part, IInv, Queued
<1>1. CASE ~wsLink'
  BY <1>1 DEF Queued
<1>2. CASE UNCHANGED <<wsQueue, gnb, unwritten, du, file>> /\ (wsLink' => wsLink)
  BY <1>2 DEF IInv, Queued, Limit
<1>3. CASE Writes \/ Raises
  <2>1. UNCHANGED <<gnb, wsLink>> /\ Limit' = du["runtime"]
    BY <1>3 DEF Writes, Raises, WriteFull, Limit
  <2>2. wsLink => Ordered(wsQueue', low, du["runtime"])
    BY <1>3, OrderedReads DEF Writes, Raises, WriteFull
  <2> QED
    BY <2>1, <2>2 DEF Queued
<1>4. CASE FullRestart
  <2>1. wsQueue' = Append(wsQueue, Quit) /\ UNCHANGED <<gnb, du, file, unwritten, wsLink>>
    BY <1>4 DEF FullRestart
  <2>2. Quit \in Command /\ Quit.cmd # "runtime"
    BY DEF Command, Quit
  <2>3. wsLink => Ordered(wsQueue', low, Limit)
    <3> HIDE DEF low
    <3>1. Limit <= Limit
      BY <1>t
    <3> QED
      BY <1>t, <2>1, <2>2, <3>1, OrderedAppend
  <2> QED
    BY <2>1, <2>3 DEF Queued, Limit
<1>5. ASSUME NEW p \in Part, Change(p) PROVE Queued'
  <2>1. /\ du' = [du EXCEPT ![p] = @ + 1] /\ UNCHANGED <<gnb, file, unwritten, wsQueue, wsLink>>
    BY <1>5 DEF Change
  <2>2. du["runtime"] \in Nat /\ du'["runtime"] \in {du["runtime"], du["runtime"] + 1}
    BY <2>1, Types DEF Config, Part
  <2>3. Limit' \in Nat /\ Limit <= Limit'
    BY <1>t, <2>1, <2>2 DEF Limit
  <2> QED
    BY <1>t, <2>1, <2>3, OrderedWiden DEF Queued
<1>6. CASE WsConnect
  <2>1. wsQueue' = <<Subscribe>>
    BY <1>6 DEF WsConnect
  <2>2. Subscribe.cmd # "runtime"
    BY DEF Subscribe
  <2> QED
    BY <2>1, <2>2 DEF Queued, Ordered
<1>7. CASE Send
  <2> SUFFICES ASSUME wsLink PROVE Ordered(wsQueue', gnb'["runtime"], Limit)
    BY <1>7, Sent DEF Queued, Limit
  <2>1. /\ wsQueue # <<>> /\ wsQueue' = Tail(wsQueue)
        /\ \/ gnb'["runtime"] = low
           \/ wsQueue[1].cmd = "runtime" /\ gnb'["runtime"] = wsQueue[1].value
    BY <1>7, Sent, Types DEF Config, Part
  <2> HIDE DEF low
  <2>2. /\ Ordered(Tail(wsQueue), low, Limit)
        /\ wsQueue[1].cmd = "runtime" => Ordered(Tail(wsQueue), wsQueue[1].value, Limit)
    BY <1>t, <2>1, OrderedTail
  <2> QED
    BY <2>1, <2>2
<1>8. CASE GnbStarts
  <2>1. ~wsLink'
    BY <1>8 DEF GnbStarts, IInv, TypeOK
  <2> QED
    BY <1>1, <2>1
<1>9. CASE GnbDies \/ Crash
  BY <1>1, <1>9 DEF GnbDies, Crash
<1> QED
  BY <1>2, <1>3, <1>4, <1>5, <1>6, <1>7, <1>8, <1>9
     DEF Effect, Quiet, CheckHealth, Restarted

-----------------------------------------------------------------------------
\* What is appended adds to what is pending.
LEMMA PendingAppend ==
  ASSUME NEW q \in Seq(Command), NEW c \in Command, NEW m,
         c.cmd = m \/ \E i \in 1 .. Len(q) : q[i].cmd = m
  PROVE  \E i \in 1 .. Len(Append(q, c)) : Append(q, c)[i].cmd = m
<1>1. /\ Len(Append(q, c)) = Len(q) + 1 /\ Len(q) \in Nat
      /\ \A i \in 1 .. Len(q) : Append(q, c)[i] = q[i] /\ i \in 1 .. Len(q) + 1
      /\ Append(q, c)[Len(q) + 1] = c /\ Len(q) + 1 \in 1 .. Len(q) + 1
  BY AppendQueue
<1> QED
  BY <1>1

\* What is pending and not the first to be sent stays pending.
LEMMA PendingTail ==
  ASSUME NEW q \in Seq(Command), q # <<>>, NEW m, q[1].cmd # m,
         \E i \in 1 .. Len(q) : q[i].cmd = m
  PROVE  \E i \in 1 .. Len(Tail(q)) : Tail(q)[i].cmd = m
<1>1. PICK i \in 1 .. Len(q) : q[i].cmd = m
  OBVIOUS
<1>2. i - 1 \in 1 .. Len(Tail(q)) /\ (i - 1) + 1 = i
  <2>1. i # 1
    BY <1>1
  <2>2. Len(Tail(q)) = Len(q) - 1 /\ Len(q) \in Nat
    BY TailQueue
  <2> QED
    BY <2>1, <2>2
<1>3. Tail(q)[i - 1] = q[i]
  BY <1>2, TailQueue
<1> QED
  BY <1>1, <1>2, <1>3

LEMMA AskedStep ==
  ASSUME IInv, Effect
  PROVE  SnapshotAsked'
<1> DEFINE m == "metrics_subscribe"
<1>1. CASE ~wsLink'
  BY <1>1 DEF SnapshotAsked
<1>2. CASE UNCHANGED <<wsQueue, asked, jobs>> /\ (wsLink' => wsLink)
  BY <1>2 DEF IInv, SnapshotAsked, Pending
<1>t. /\ wsQueue \in Seq(Command)
      /\ wsLink /\ ~Pending(m) => asked = jobs
  BY Types DEF IInv, SnapshotAsked
<1>3. CASE Writes \/ Raises
  <2>1. UNCHANGED <<asked, wsLink>>
    BY <1>3 DEF Writes, Raises
  <2>2. Subscribe \in Command /\ Subscribe.cmd = m /\ Runtime(du["runtime"]) \in Command
    BY Types DEF Command, Subscribe, Runtime, Config, Part
  <2>3. PICK q \in Seq(Command) : MayCommand(q) /\ (Read(q) \/ (wsQueue' = q /\ jobs' = jobs))
    BY <1>3 DEF Writes, Raises, WriteFull
  <2>4. Pending(m) => \E i \in 1 .. Len(q) : q[i].cmd = m
    BY <1>t, <2>2, <2>3, PendingAppend DEF Pending, MayCommand
  <2>5. CASE wsQueue' = q /\ jobs' = jobs
    <3>1. Pending(m) => Pending(m)'
      BY <2>4, <2>5 DEF Pending
    <3> QED
      BY <1>t, <2>1, <2>5, <3>1 DEF SnapshotAsked
  <2>6. CASE Read(q) /\ du["jobs"] > jobs
    <3>1. wsQueue' = Append(q, Subscribe)
      BY <2>6 DEF Read
    <3>2. Pending(m)'
      BY <2>2, <3>1, PendingAppend DEF Pending
    <3> QED
      BY <3>2 DEF SnapshotAsked
  <2>7. CASE Read(q) /\ ~(du["jobs"] > jobs)
    <3>1. wsQueue' = q /\ jobs' = jobs
      BY <2>7, Types DEF Read, Part
    <3> QED
      BY <2>5, <3>1
  <2> QED
    BY <2>3, <2>5, <2>6, <2>7
<1>4. CASE FullRestart
  <2>1. wsQueue' = Append(wsQueue, Quit) /\ UNCHANGED <<asked, jobs, wsLink>> /\ Quit \in Command
    BY <1>4 DEF FullRestart, Command
  <2>2. Pending(m) => Pending(m)'
    BY <1>t, <2>1, PendingAppend DEF Pending
  <2> QED
    BY <1>t, <2>1, <2>2 DEF SnapshotAsked
<1>5. ASSUME NEW p \in Part, Change(p) PROVE SnapshotAsked'
  BY <1>2, <1>5 DEF Change
<1>6. CASE WsConnect
  <2>1. wsQueue' = <<Subscribe>> /\ Subscribe.cmd = m /\ 1 \in 1 .. Len(<<Subscribe>>)
    BY <1>6 DEF WsConnect, Subscribe
  <2>2. Pending(m)'
    BY <2>1 DEF Pending
  <2> QED
    BY <2>2 DEF SnapshotAsked
<1>7. CASE Send
  <2> SUFFICES ASSUME wsLink, ~Pending(m)' PROVE asked' = jobs
    BY <1>7, Sent DEF SnapshotAsked
  <2>1. /\ wsQueue # <<>> /\ wsQueue' = Tail(wsQueue)
        /\ Head(wsQueue) = wsQueue[1] /\ Head(wsQueue) \in Command
        /\ asked' = IF Head(wsQueue) = Subscribe THEN jobs ELSE asked
    BY <1>7, Sent, <1>t
  <2>2. CASE Head(wsQueue) = Subscribe
    BY <2>1, <2>2
  <2>3. CASE Head(wsQueue) # Subscribe
    <3>1. wsQueue[1].cmd # m
      BY <2>1, <2>3, Kinds
    <3>2. ~Pending(m)
      BY <1>t, <2>1, <3>1, PendingTail, ZenonT(30) DEF Pending
    <3> QED
      BY <1>t, <2>1, <2>3, <3>2
  <2> QED
    BY <2>2, <2>3
<1>8. CASE GnbStarts
  <2>1. ~wsLink'
    BY <1>8 DEF GnbStarts, IInv, TypeOK
  <2> QED
    BY <1>1, <2>1
<1>9. CASE GnbDies \/ Crash
  BY <1>1, <1>9 DEF GnbDies, Crash
<1> QED
  BY <1>2, <1>3, <1>4, <1>5, <1>6, <1>7, <1>8, <1>9
     DEF Effect, Quiet, CheckHealth, Restarted

-----------------------------------------------------------------------------
\* A notification is counted with the change it tells of, and only while the
\* session is subscribed and alive; taking one, or reading after a restart
\* request, reads the datastore as it is.
LEMMA SeenStep ==
  ASSUME IInv, Next
  PROVE  Seen'
<1>t. /\ worker = "created" => ~subscribed
      /\ worker = "taking" /\ ncLink /\ subscribed /\ notifs = 0 /\ ~unseen => last = du
      /\ notifs \in Nat
  BY Types DEF IInv, Seen
<1> USE DEF Seen
<1>1. ASSUME NEW p \in Part, Change(p) PROVE Seen'
  BY <1>t, <1>1 DEF Change
<1>2. CASE NcDrops \/ ConnectFails \/ NoticeDrop \/ Join
  BY <1>t, <1>2 DEF NcDrops, ConnectFails, NoticeDrop, Join
<1>3. CASE Connect
  BY <1>3 DEF Connect
<1>4. CASE FirstReadFails \/ JoinFailed \/ HandlerFails
  BY <1>4 DEF FirstReadFails, JoinFailed, HandlerFails, Crash
<1>5. CASE CreateSubscription
  <2>1. CASE worker' = "taking" /\ unseen' = (last # du) /\ last' = last /\ du' = du
    <3>1. ~unseen' => last' = du'
      BY <2>1
    <3> QED
      BY <2>1, <3>1
  <2>2. CASE worker' \in {"taking", "failed"} /\ subscribed' = subscribed
    <3>1. ~subscribed'
      BY <1>t, <1>5, <2>2 DEF CreateSubscription
    <3> QED
      BY <2>2, <3>1
  <2> QED
    BY <1>5, <2>1, <2>2 DEF CreateSubscription, WorkerTo
<1>6. CASE Stop \/ ReadFails \/ UpdateRaises \/ RefetchRaises
  BY <1>6 DEF Stop, ReadFails, WorkerTo, UpdateRaises, RefetchRaises
<1>7. CASE Unchanged
  BY <1>7 DEF Unchanged, Take
<1>8. CASE UpdateRuntime
  BY <1>8 DEF UpdateRuntime, WriteFull, Read, Take
<1>9. CASE FullRestart \/ Waited \/ GiveUp
  BY <1>9 DEF FullRestart, Waited, GiveUp
<1>10. CASE Refetch
  BY <1>10 DEF Refetch, WriteFull, Read
<1>11. CASE WsConnect \/ HandshakeFails \/ WsLinkDrops \/ WsClosed \/ Send
  BY <1>t, <1>11 DEF WsConnect, HandshakeFails, WsLinkDrops, WsClosed, Send
<1>12. CASE GnbStarts \/ GnbDies \/ CheckHealth \/ Restarted
  BY <1>t, <1>12 DEF GnbStarts, GnbDies, CheckHealth, Restarted
<1> QED
  BY <1>1, <1>2, <1>3, <1>4, <1>5, <1>6, <1>7, <1>8, <1>9, <1>10, <1>11, <1>12 DEF Next

LEMMA CountedStep ==
  ASSUME IInv, Next
  PROVE  Counted' /\ du' \in Config /\ notifs' \in 0 .. MaxChanges
<1>t. /\ du \in Config /\ du["static"] \in Nat /\ du["runtime"] \in Nat /\ du["jobs"] \in Nat
      /\ Total(du) \in Nat /\ Total(du) <= MaxChanges /\ notifs <= Total(du) /\ notifs \in Nat
  <2>1. du \in Config /\ du["static"] \in Nat /\ du["runtime"] \in Nat /\ du["jobs"] \in Nat
    BY Types DEF Part
  <2>2. Total(du) \in Nat
    BY <2>1 DEF Total
  <2> QED
    BY <2>1, <2>2, Types DEF IInv, Counted
<1>1. CASE du' = du /\ notifs' \in {0, notifs, notifs - 1} /\ notifs' \in Nat
  <2>1. Total(du') = Total(du)
    BY <1>1
  <2>2. notifs' <= notifs
    BY <1>1, <1>t
  <2> QED
    BY <1>1, <1>t, <2>1, <2>2 DEF Counted
<1>2. ASSUME NEW p \in Part, Change(p) PROVE Counted' /\ du' \in Config /\ notifs' \in 0 .. MaxChanges
  <2>1. /\ Total(du) < MaxChanges /\ du' = [du EXCEPT ![p] = @ + 1]
        /\ notifs' = notifs + 1 \/ notifs' = notifs
    BY <1>2 DEF Change
  <2>2. Total(du') = Total(du) + 1
    BY <1>t, <2>1 DEF Total, Part, Config
  <2>3. du[p] <= Total(du) /\ du[p] \in Nat
    BY <1>t DEF Total, Part
  <2>4. du' \in Config
    BY <1>t, <2>1, <2>3 DEF Config
  <2> QED
    BY <1>t, <2>1, <2>2, <2>4 DEF Counted
<1>3. CASE NcDrops \/ ConnectFails \/ NoticeDrop \/ Join \/ Connect
  BY <1>1, <1>3, <1>t DEF NcDrops, ConnectFails, NoticeDrop, Join, Connect
<1>4. CASE FirstReadFails \/ JoinFailed \/ HandlerFails
  BY <1>1, <1>4 DEF FirstReadFails, JoinFailed, HandlerFails, Crash
<1>5. CASE CreateSubscription \/ Stop \/ ReadFails
  BY <1>1, <1>5, <1>t DEF CreateSubscription, Stop, ReadFails, WorkerTo
<1>6. CASE Unchanged \/ UpdateRuntime \/ UpdateRaises \/ FullRestart
  <2>1. du' = du /\ notifs > 0 /\ notifs' = notifs - 1
    BY <1>6 DEF Unchanged, UpdateRuntime, UpdateRaises, FullRestart, Take
  <2> QED
    BY <1>1, <1>t, <2>1
<1>7. CASE Waited \/ GiveUp \/ Refetch \/ RefetchRaises
  BY <1>1, <1>7, <1>t DEF Waited, GiveUp, Refetch, RefetchRaises
<1>8. CASE WsConnect \/ HandshakeFails \/ WsLinkDrops \/ WsClosed \/ Send
  BY <1>1, <1>8, <1>t DEF WsConnect, HandshakeFails, WsLinkDrops, WsClosed, Send
<1>9. CASE GnbStarts \/ GnbDies \/ CheckHealth \/ Restarted
  BY <1>1, <1>9, <1>t DEF GnbStarts, GnbDies, CheckHealth, Restarted
<1> QED
  BY <1>2, <1>3, <1>4, <1>5, <1>6, <1>7, <1>8, <1>9 DEF Next

\* What a read of the datastore gives is a configuration.
LEMMA ReadTypes ==
  ASSUME TypeOK, NEW q \in Seq(Command), Read(q)
  PROVE  /\ last' \in Config /\ jobs' \in 0 .. MaxChanges
         /\ unseen' \in BOOLEAN /\ wsQueue' \in Seq(Command)
<1>1. du \in Config /\ du["jobs"] \in 0 .. MaxChanges
  BY DEF TypeOK, Config, Part
<1>2. Append(q, Subscribe) \in Seq(Command)
  BY AppendQueue DEF Command
<1> QED
  BY <1>1, <1>2 DEF Read

\* The types no step but a few can disturb.
Plain ==
  /\ file' \in Config /\ last' \in Config /\ gnb' \in Config
  /\ jobs' \in 0 .. MaxChanges /\ asked' \in 0 .. MaxChanges
  /\ wsQueue' \in Seq(Command)

LEMMA PlainStep ==
  ASSUME IInv, Effect
  PROVE  Plain
<1>t. /\ TypeOK
      /\ file \in Config /\ last \in Config /\ gnb \in Config
      /\ jobs \in 0 .. MaxChanges /\ asked \in 0 .. MaxChanges
      /\ wsQueue \in Seq(Command) /\ 0 \in 0 .. MaxChanges
  BY DEF IInv, TypeOK
<1>1. CASE UNCHANGED <<file, last, gnb, jobs, asked, wsQueue>>
  BY <1>t, <1>1 DEF Plain
<1>2. CASE Writes \/ Raises
  <2>1. UNCHANGED <<gnb, asked>> /\ file' \in Config
    BY <1>2, <1>t DEF Writes, Raises, WriteFull, TypeOK
  <2>2. PICK q \in Seq(Command) : Read(q) \/ (wsQueue' = q /\ UNCHANGED <<last, jobs>>)
    BY <1>2 DEF Writes, Raises, WriteFull
  <2> QED
    BY <1>t, <2>1, <2>2, ReadTypes DEF Plain
<1>3. CASE FullRestart
  <2>1. wsQueue' = Append(wsQueue, Quit) /\ UNCHANGED <<file, last, gnb, jobs, asked>>
    BY <1>3 DEF FullRestart
  <2>2. Quit \in Command
    BY DEF Command
  <2> QED
    BY <1>t, <2>1, <2>2, AppendQueue DEF Plain
<1>4. CASE Crash
  BY <1>t, <1>4 DEF Crash, Plain
<1>5. ASSUME NEW p \in Part, Change(p) PROVE Plain
  BY <1>1, <1>5 DEF Change
<1>6. CASE WsConnect
  <2>1. /\ wsQueue' = <<Subscribe>> /\ asked' = 0
        /\ UNCHANGED <<file, last, gnb, jobs>>
    BY <1>6 DEF WsConnect
  <2>2. Subscribe \in Command
    BY DEF Command
  <2> QED
    BY <1>t, <2>1, <2>2 DEF Plain
<1>7. CASE Send
  <2>1. wsQueue' \in Seq(Command) /\ asked' \in 0 .. MaxChanges /\ UNCHANGED <<file, last, jobs>>
    <3>1. wsQueue # <<>> /\ wsQueue' = Tail(wsQueue) /\ asked' \in {jobs, asked}
          /\ UNCHANGED <<file, last, jobs>>
      BY <1>7, Sent
    <3> QED
      BY <1>t, <3>1, TailQueue
  <2>2. gnb' \in Config
    <3>1. CASE gnb' = gnb
      BY <1>t, <3>1
    <3>2. CASE wsQueue[1].cmd = "runtime" /\ gnb' = [gnb EXCEPT !["runtime"] = wsQueue[1].value]
      <4>1. wsQueue[1] \in Command
        BY <1>7, Sent, <1>t
      <4>2. wsQueue[1].value \in 0 .. MaxChanges
        BY <3>2, <4>1, Kinds
      <4> QED
        BY <1>t, <3>2, <4>2 DEF Config, Part
    <3> QED
      BY <1>7, <3>1, <3>2, Sent
  <2> QED
    BY <1>t, <2>1, <2>2 DEF Plain
<1>8. CASE GnbStarts
  BY <1>t, <1>8 DEF GnbStarts, Plain
<1>9. CASE GnbDies \/ CheckHealth \/ Restarted \/ Quiet
  BY <1>1, <1>9 DEF GnbDies, CheckHealth, Restarted, Quiet
<1> QED
  BY <1>2, <1>3, <1>4, <1>5, <1>6, <1>7, <1>8, <1>9 DEF Effect

\* The types of where the tasks are, and of what they tell one another.
Places ==
  /\ gnbUp \in BOOLEAN /\ ncLink \in BOOLEAN /\ subscribed \in BOOLEAN
  /\ unseen \in BOOLEAN /\ unwritten \in BOOLEAN
  /\ main \in {"retry", "watching", "joining"}
  /\ worker \in {"none", "created", "taking", "waiting", "writing", "stopped", "failed"}
  /\ ws \in {"retry", "up", "broken"} /\ wsLink \in BOOLEAN
  /\ restartReq \in BOOLEAN /\ killing \in BOOLEAN /\ announced \in BOOLEAN
  /\ alarms \subseteq {NetconfLoss, WsLoss}
  /\ excuse \subseteq {"reconnect", "early", "crash"}
  /\ worker = "none" <=> main = "retry"
  /\ wsLink => ws = "up" /\ gnbUp

LEMMA PlacesStep ==
  ASSUME IInv, Next
  PROVE  Places'
<1>t. Places
  BY DEF IInv, TypeOK, Places
<1> USE <1>t DEF Places
<1>1. ASSUME NEW p \in Part, Change(p) PROVE Places'
  BY <1>1 DEF Change
<1>2. CASE ConnectFails
  BY <1>2 DEF ConnectFails
<1>3. CASE NcDrops
  <2>1. /\ ncLink' = FALSE
        /\ UNCHANGED <<gnbUp, subscribed, unseen, unwritten, main, worker, ws, wsLink, restartReq,
                        killing, announced, alarms, excuse>>
    BY <1>3 DEF NcDrops, running, store, websocket, health
  <2>2. /\ gnbUp' \in BOOLEAN /\ ncLink' \in BOOLEAN /\ subscribed' \in BOOLEAN
        /\ unseen' \in BOOLEAN /\ unwritten' \in BOOLEAN /\ wsLink' \in BOOLEAN
        /\ restartReq' \in BOOLEAN /\ killing' \in BOOLEAN /\ announced' \in BOOLEAN
    BY <2>1, Zenon
  <2>3. (worker' = "none" <=> main' = "retry") /\ (wsLink' => ws' = "up" /\ gnbUp')
    BY <2>1, Zenon
  <2> QED
    BY <2>1, <2>2, <2>3, Zenon
<1>4. CASE Connect
  BY <1>4 DEF Connect, WriteFull, Read
<1>5. CASE NoticeDrop
  BY <1>5 DEF NoticeDrop
<1>6. CASE Join
  BY <1>6 DEF Join
<1>7. CASE FirstReadFails
  BY <1>7 DEF FirstReadFails, Crash
<1>8. CASE JoinFailed
  BY <1>8 DEF JoinFailed, Crash
<1>9. CASE HandlerFails
  BY <1>9 DEF HandlerFails, Crash
<1>10. CASE CreateSubscription
  <2>1. unseen' = (last # du) \/ unseen' = unseen
    BY <1>10 DEF CreateSubscription
  <2>2. unseen' \in BOOLEAN
    BY <2>1
  <2>3. /\ subscribed' = TRUE \/ subscribed' = subscribed
        /\ worker' \in {"taking", "failed"} /\ worker = "created"
        /\ UNCHANGED <<gnbUp, ncLink, unwritten, main, ws, wsLink, restartReq, killing, announced, alarms, excuse>>
    BY <1>10 DEF CreateSubscription, WorkerTo
  <2> QED
    BY <2>2, <2>3, ZenonT(30)
<1>11. CASE Stop
  BY <1>11 DEF Stop, WorkerTo
<1>12. CASE ReadFails
  BY <1>12 DEF ReadFails, WorkerTo
<1>13. CASE Unchanged
  BY <1>13 DEF Unchanged, Take
<1>14. CASE UpdateRuntime
  BY <1>14 DEF UpdateRuntime, WriteFull, Read, Take
<1>28. CASE UpdateRaises
  BY <1>28 DEF UpdateRaises, Read, Take
<1>29. CASE RefetchRaises
  BY <1>29 DEF RefetchRaises, Read
<1>15. CASE FullRestart
  BY <1>15 DEF FullRestart, Take
<1>16. CASE Waited
  BY <1>16 DEF Waited
<1>17. CASE GiveUp
  BY <1>17 DEF GiveUp
<1>18. CASE Refetch
  BY <1>18 DEF Refetch, WriteFull, Read
<1>19. CASE WsConnect
  BY <1>19 DEF WsConnect
<1>20. CASE HandshakeFails
  BY <1>20 DEF HandshakeFails
<1>21. CASE WsLinkDrops
  <2>1. /\ wsLink' = FALSE
        /\ UNCHANGED <<gnbUp, ncLink, subscribed, unseen, unwritten, main, worker, ws, restartReq,
                        killing, announced, alarms, excuse>>
    BY <1>21 DEF WsLinkDrops, running, netconf, store, health
  <2>2. /\ gnbUp' \in BOOLEAN /\ ncLink' \in BOOLEAN /\ subscribed' \in BOOLEAN
        /\ unseen' \in BOOLEAN /\ unwritten' \in BOOLEAN /\ wsLink' \in BOOLEAN
        /\ restartReq' \in BOOLEAN /\ killing' \in BOOLEAN /\ announced' \in BOOLEAN
    BY <2>1, Zenon
  <2>3. (worker' = "none" <=> main' = "retry") /\ (wsLink' => ws' = "up" /\ gnbUp')
    BY <2>1, Zenon
  <2> QED
    BY <2>1, <2>2, <2>3, Zenon
<1>22. CASE WsClosed
  BY <1>22 DEF WsClosed
<1>23. CASE Send
  BY <1>23 DEF Send
<1>24. CASE GnbStarts
  BY <1>24 DEF GnbStarts
<1>25. CASE GnbDies
  <2>1. /\ gnbUp' = FALSE /\ wsLink' = FALSE /\ killing' = FALSE
        /\ UNCHANGED <<ncLink, subscribed, unseen, unwritten, main, worker, ws, restartReq, announced,
                        alarms, excuse>>
    BY <1>25 DEF GnbDies, netconf, store
  <2>2. /\ gnbUp' \in BOOLEAN /\ ncLink' \in BOOLEAN /\ subscribed' \in BOOLEAN
        /\ unseen' \in BOOLEAN /\ unwritten' \in BOOLEAN /\ wsLink' \in BOOLEAN
        /\ restartReq' \in BOOLEAN /\ killing' \in BOOLEAN /\ announced' \in BOOLEAN
    BY <2>1, Zenon
  <2>3. (worker' = "none" <=> main' = "retry") /\ (wsLink' => ws' = "up" /\ gnbUp')
    BY <2>1, Zenon
  <2> QED
    BY <2>1, <2>2, <2>3, Zenon
<1>26. CASE CheckHealth
  BY <1>26 DEF CheckHealth
<1>27. CASE Restarted
  BY <1>27, ZenonT(30) DEF Restarted
<1> QED
  BY <1>1, <1>2, <1>3, <1>4, <1>5, <1>6, <1>7, <1>8, <1>9, <1>10, <1>11, <1>12, <1>13, <1>14, <1>15, <1>16, <1>17, <1>18, <1>19, <1>20, <1>21, <1>22, <1>23, <1>24, <1>25, <1>26, <1>27,
     <1>28, <1>29 DEF Next

-----------------------------------------------------------------------------
LEMMA InvInit == Init => IInv
<1> SUFFICES ASSUME Init PROVE IInv
  OBVIOUS
<1>1. Oldest \in Config /\ \A p \in Part : Oldest[p] = 0
  BY DEF Oldest, Config
<1>2. TypeOK
  <2>1. Places
    BY DEF Init, Places
  <2>2. 0 \in 0 .. MaxChanges /\ <<>> \in Seq(Command)
    OBVIOUS
  <2> QED
    BY <1>1, <2>1, <2>2 DEF Init, TypeOK, Places
<1>3. Counted /\ Behind
  BY <1>1 DEF Init, Counted, Total, Behind, Part, Limit
<1>4. Rendered /\ Seen /\ Queued /\ SnapshotAsked
  BY DEF Init, Rendered, Seen, Queued, SnapshotAsked
<1> QED
  BY <1>2, <1>3, <1>4 DEF IInv

LEMMA InvStep == IInv /\ [Next]_vars => IInv'
<1> SUFFICES ASSUME IInv, [Next]_vars PROVE IInv'
  OBVIOUS
<1>1. CASE UNCHANGED vars
  <2> USE <1>1 DEF vars, IInv
  <2>1. TypeOK'
    BY DEF TypeOK
  <2>2. Counted' /\ Behind' /\ Rendered' /\ Seen'
    BY DEF Counted, Behind, Limit, Rendered, Renderable, Seen
  <2>3. Queued' /\ SnapshotAsked'
    BY DEF Queued, Limit, SnapshotAsked, Pending
  <2> QED
    BY <2>1, <2>2, <2>3
<1>2. CASE Next
  <2>1. Effect
    BY <1>2, Effects DEF IInv
  <2>2. Counted' /\ du' \in Config /\ notifs' \in 0 .. MaxChanges
    BY <1>2, CountedStep
  <2>3. Plain /\ Places'
    BY <1>2, <2>1, PlainStep, PlacesStep
  <2>4. TypeOK'
    BY <2>2, <2>3 DEF TypeOK, Plain, Places
  <2> QED
    BY <1>2, <2>1, <2>2, <2>4, BehindStep, RenderedStep, SeenStep, QueuedStep, AskedStep DEF IInv
<1> QED
  BY <1>1, <1>2

LEMMA Invariance == Spec => []IInv
  BY InvInit, InvStep, PTL DEF Spec

\* Counters stay within the changes made, the tasks where they can be, and a
\* connection is held by a handler that is up to a gNB that is.
THEOREM TypeCorrect == Spec => []TypeOK
  BY Invariance, PTL DEF IInv

\* A worker with nothing left to take has seen the datastore as it is, and
\* rendered it, unless the datastore changed before it was subscribed.
THEOREM FileCorrect == Spec => []FileFollowsDatastore
<1>1. IInv => FileFollowsDatastore
  BY DEF IInv, Seen, Rendered, FileFollowsDatastore, Renderable
<1> QED
  BY <1>1, Invariance, PTL

\* A connected gNB was asked for the metrics of every active job, or is about
\* to be.
THEOREM AskedCorrect == Spec => []SnapshotAsked
  BY Invariance, PTL DEF IInv

\* Whatever is lost or restarted on the way, the gNB never goes back to an
\* older configuration, but when it starts from a file that lacks what was read
\* last; and then only in what it had been commanded at run time.
THEOREM ForwardCorrect == Spec => GnbNeverGoesBack
<1>1. IInv /\ [Next]_vars =>
        [\A p \in Part : \/ gnb[p] <= gnb'[p]
                         \/ p = "runtime" /\ ~gnbUp /\ unwritten]_vars
  <2> SUFFICES ASSUME IInv, Next, NEW p \in Part
               PROVE  gnb[p] <= gnb'[p] \/ (p = "runtime" /\ ~gnbUp /\ unwritten)
    OBVIOUS
  <2>1. Effect
    BY Effects DEF IInv
  <2>2. /\ gnb \in Config /\ gnb[p] \in Nat /\ file[p] \in Nat
        /\ p # "runtime" => gnb[p] <= file[p]
        /\ gnb["runtime"] <= Limit
    BY Types
  <2>3. CASE GnbStarts
    <3>1. gnb' = file /\ ~gnbUp
      BY <2>3 DEF GnbStarts
    <3> QED
      BY <2>2, <3>1 DEF Limit
  <2>4. CASE Send
    BY <2>2, <2>4, Sent DEF Config, Part
  <2>5. CASE gnb' = gnb
    BY <2>2, <2>5
  <2> QED
    BY <2>1, <2>3, <2>4, <2>5 DEF Effect, Quiet, Writes, Raises, FullRestart, Crash, Change,
       WsConnect, GnbDies, CheckHealth, Restarted
<1> QED
  BY <1>1, Invariance, PTL DEF Spec, GnbNeverGoesBack
=============================================================================
