---------------------------- MODULE RuFaultBridge ----------------------------
(***************************************************************************)
(* The fault bridge (ru_fm_bridge.py): the O-RU's faults mirrored into the *)
(* alarm registry.  A fault is reported by several sources; one adapter    *)
(* alarm mirrors it at the worst severity among them.  Every connect cycle *)
(* reads the O-RU's active-alarm-list once, on the cycle handlers' thread, *)
(* and sweeps the registry alarm by alarm; then the notifications queued   *)
(* since the subscription, older ones than the list included, are applied  *)
(* one at a time.                                                          *)
(*                                                                         *)
(* Severities are numbers, greater is worse; 0 stands for "not reported".  *)
(* The other leaves of a fault are left out, and so are event times, whose *)
(* change alone the bridge does not take for news.  A notifier failure     *)
(* comes after registry and bookkeeping have changed and is contained      *)
(* (_guarded, _dispatch), so it has no step of its own.                    *)
(***************************************************************************)
EXTENDS Integers, Sequences

CONSTANTS Fault, Source, Severity,
          Warning,     \* the severity whose end the O-RU does not announce
          MaxQueue     \* bound: notifications waiting in the session

ASSUME FaultAssumption ==
  /\ Fault \subseteq Nat /\ Source # {} /\ MaxQueue \in Nat
  /\ Severity \subseteq Nat \ {0} /\ Warning \in Severity

VARIABLES
  oru,        \* what each source of each fault reports in the O-RU
  session,    \* "down", or where the session is in its connect cycle
  link,       \* the subscription is alive
  queue,      \* notifications not yet taken
  reports,    \* _reports
  known,      \* _known_faults
  registry,   \* the alarms of the registry
  raises,     \* faults the sweep has still to set ...
  stale,      \* ... and to clear
  synced,     \* the list was read in this cycle
  gone        \* faults the O-RU was without since the list was read

network == <<session, link, queue, synced>>
bridge == <<reports, known>>
sweep == <<raises, stale>>
vars == <<oru, network, bridge, registry, sweep, gone>>

Reports == [Fault -> [Source -> Severity \cup {0}]]
Notification == [fault : Fault, source : Source, severity : Severity \cup {0}]
Alarm == {a \in [severity : Severity \cup {0}, sources : SUBSET Source] :
            a.severity = 0 <=> a.sources = {}}
Inactive == [severity |-> 0, sources |-> {}]

Reporting(r) == {s \in Source : r[s] # 0}
Without(r) == {f \in Fault : Reporting(r[f]) = {}}

TypeOK ==
  /\ oru \in Reports
  /\ session \in {"down", "reading", "sweeping", "listening"} /\ link \in BOOLEAN
  /\ queue \in Seq(Notification)
  /\ reports \in Reports /\ known \subseteq Fault
  /\ registry \in [Fault -> Alarm]
  /\ raises \subseteq Fault /\ stale \subseteq Fault
  /\ synced \in BOOLEAN /\ gone \subseteq Fault

Init ==
  /\ oru \in Reports
  /\ session = "down" /\ link = FALSE
  /\ queue = <<>>
  /\ reports = [f \in Fault |-> [s \in Source |-> 0]] /\ known = {}
  /\ registry = [f \in Fault |-> Inactive]
  /\ raises = {} /\ stale = {}
  /\ synced = FALSE /\ gone = Fault

-----------------------------------------------------------------------------
(* The O-RU *)

Report(f, s, v) ==
  /\ oru' = [oru EXCEPT ![f][s] = v]
  /\ gone' = gone \cup Without(oru')

Announce(f, s, v) ==
  IF link
  THEN /\ Len(queue) < MaxQueue
       /\ queue' = Append(queue, [fault |-> f, source |-> s, severity |-> v])
  ELSE UNCHANGED queue

OruRaises(f, s, v) ==
  /\ oru[f][s] # v
  /\ Report(f, s, v) /\ Announce(f, s, v)
  /\ UNCHANGED <<session, link, synced, bridge, registry, sweep>>

\* A warning ends without a notification.
OruClears(f, s) ==
  /\ oru[f][s] # 0
  /\ Report(f, s, 0)
  /\ IF oru[f][s] = Warning THEN UNCHANGED queue ELSE Announce(f, s, 0)
  /\ UNCHANGED <<session, link, synced, bridge, registry, sweep>>

-----------------------------------------------------------------------------
(* The session *)

\* Connected and subscribed; the cycle handlers run before the listen loop.
Connect ==
  /\ session = "down"
  /\ session' = "reading" /\ link' = TRUE /\ synced' = FALSE
  /\ UNCHANGED <<oru, queue, bridge, registry, sweep, gone>>

Close == session' = "down" /\ link' = FALSE /\ queue' = <<>>

\* Whatever the session was waiting for fails.  A sweep is not cut short: the
\* handlers' thread is awaited first.
SessionLost ==
  /\ session \in {"reading", "listening"}
  /\ Close
  /\ UNCHANGED <<oru, synced, bridge, registry, sweep, gone>>

LinkDrops ==
  /\ link
  /\ link' = FALSE
  /\ UNCHANGED <<oru, session, queue, synced, bridge, registry, sweep, gone>>

-----------------------------------------------------------------------------
(* reconcile *)

\* The active-alarm-list may hold residual entries of faults that are cleared.
Entry(f, s, v, cleared) == [fault |-> f, source |-> s, severity |-> v, cleared |-> cleared]
Listed(residual) ==
  {Entry(p[1], p[2], oru[p[1]][p[2]], FALSE) : p \in {q \in Fault \X Source : oru[q[1]][q[2]] # 0}}
  \cup {Entry(p[1], p[2], Warning, TRUE) : p \in residual}

\* What the entries of the list that are not cleared report.
FromList(listed) ==
  {r \in Reports : \A f \in Fault, s \in Source, v \in Severity :
                     r[f][s] = v <=> Entry(f, s, v, FALSE) \in listed}

\* Slip: a source that was mirrored is kept although it is no longer listed.
ReadListMerging ==
  /\ session = "reading" /\ link
  /\ reports' = [f \in Fault |-> [s \in Source |-> IF oru[f][s] # 0 THEN oru[f][s] ELSE reports[f][s]]]
  /\ raises' = Fault \ Without(reports')
  /\ stale' = {f \in Fault : registry[f] # Inactive} \ raises'
  /\ session' = "sweeping" /\ synced' = TRUE
  /\ gone' = Without(oru)
  /\ UNCHANGED <<oru, link, queue, known, registry>>

\* The list replaces what was mirrored; what the registry holds active and the
\* list does not is stale.
ReadList ==
  /\ session = "reading" /\ link
  /\ \E residual \in SUBSET {p \in Fault \X Source : oru[p[1]][p[2]] = 0} :
       reports' \in FromList(Listed(residual))
  /\ raises' = Fault \ Without(reports')
  /\ stale' = {f \in Fault : registry[f] # Inactive} \ raises'
  /\ session' = "sweeping" /\ synced' = TRUE
  /\ gone' = Without(oru)
  /\ UNCHANGED <<oru, link, queue, known, registry>>

\* The O-RU refuses the read: the mirror is kept.
ReadRefused ==
  /\ session = "reading" /\ link
  /\ session' = "listening"
  /\ UNCHANGED <<oru, link, queue, synced, bridge, registry, sweep, gone>>

\* Slip: the severity of any source, not of the worst.
RaiseAnyOf(f, r) ==
  /\ known' = known \cup {f}
  /\ \E v \in {r[s] : s \in Reporting(r)} :
       registry' = [registry EXCEPT ![f] = [severity |-> v, sources |-> Reporting(r)]]

\* _raise: the alarm is registered on first sight and set to the worst of its
\* sources, which it names.
Raise(f, r) ==
  /\ known' = known \cup {f}
  /\ \E v \in {r[s] : s \in Reporting(r)} :
       /\ \A s \in Source : r[s] <= v
       /\ registry' = [registry EXCEPT ![f] = [severity |-> v, sources |-> Reporting(r)]]

First(f, faults) == f \in faults /\ \A g \in faults : f <= g

SweepRaise(f) ==
  /\ session = "sweeping" /\ First(f, raises)
  /\ Raise(f, reports[f])
  /\ raises' = raises \ {f}
  /\ UNCHANGED <<oru, network, reports, stale, gone>>

SweepClear(f) ==
  /\ session = "sweeping" /\ raises = {} /\ First(f, stale)
  /\ registry' = [registry EXCEPT ![f] = Inactive]
  /\ stale' = stale \ {f}
  /\ UNCHANGED <<oru, network, bridge, raises, gone>>

SweepDone ==
  /\ session = "sweeping" /\ raises = {} /\ stale = {}
  /\ IF link THEN session' = "listening" /\ UNCHANGED <<link, queue>> ELSE Close
  /\ UNCHANGED <<oru, synced, bridge, registry, sweep, gone>>

-----------------------------------------------------------------------------
(* handle_notification *)

ApplyRaise(n) ==
  /\ n.severity # 0
  /\ reports' = [reports EXCEPT ![n.fault][n.source] = n.severity]
  /\ Raise(n.fault, reports'[n.fault])

\* The clear of a source the bridge does not mirror is ignored; the alarm is
\* cleared with its last source and set anew while there are others.
ApplyClear(n) ==
  /\ n.severity = 0
  /\ IF reports[n.fault][n.source] = 0
     THEN UNCHANGED <<bridge, registry>>
     ELSE /\ reports' = [reports EXCEPT ![n.fault][n.source] = 0]
          /\ IF Reporting(reports'[n.fault]) # {}
             THEN Raise(n.fault, reports'[n.fault])
             ELSE registry' = [registry EXCEPT ![n.fault] = Inactive] /\ UNCHANGED known

HandleNotification ==
  /\ session = "listening" /\ queue # <<>>
  /\ queue' = Tail(queue)
  /\ ApplyRaise(Head(queue)) \/ ApplyClear(Head(queue))
  /\ UNCHANGED <<oru, session, link, synced, sweep, gone>>

Next ==
  \/ \E f \in Fault, s \in Source : OruClears(f, s) \/ (\E v \in Severity : OruRaises(f, s, v))
  \/ Connect \/ SessionLost \/ LinkDrops
  \/ ReadList \/ ReadRefused
  \/ (\E f \in Fault : SweepRaise(f) \/ SweepClear(f)) \/ SweepDone
  \/ HandleNotification

Spec == Init /\ [][Next]_vars

-----------------------------------------------------------------------------
(***************************************************************************)
(* Registry and bookkeeping agree after every update, but for the faults   *)
(* the sweep has not come to: an alarm is active while some source reports *)
(* its fault, names them all, and has the severity of the worst (_raise,   *)
(* _apply, reconcile).                                                     *)
(***************************************************************************)
RegistryMirrorsReports ==
  \A f \in Fault \ (raises \cup stale) :
    /\ registry[f].sources = Reporting(reports[f])
    /\ \A s \in Source : reports[f][s] <= registry[f].severity
    /\ registry[f].severity # 0 => \E s \in Source : reports[f][s] = registry[f].severity
    /\ registry[f] # Inactive => f \in known

Pending(f, s) == \E i \in 1 .. Len(queue) : queue[i].fault = f /\ queue[i].source = s

(***************************************************************************)
(* Reconciliation loses and leaks nothing, although the notifications that *)
(* follow it may be older than the list it read: once a source's           *)
(* notifications are applied its report is the O-RU's, unless it is a      *)
(* warning, whose end is not announced.                                    *)
(***************************************************************************)
MirrorCatchesUp ==
  link /\ synced /\ session \in {"sweeping", "listening"} =>
    \A f \in Fault, s \in Source :
      ~Pending(f, s) => reports[f][s] = oru[f][s] \/ (oru[f][s] = 0 /\ reports[f][s] = Warning)

(***************************************************************************)
(* docs/mplane-service.md: the alarm "stays active while any source        *)
(* reports the fault".  Once the list was read, an alarm only ends for a   *)
(* fault the O-RU has been without since.  Not so: notifications queued    *)
(* before the list was read are applied after it.                          *)
(***************************************************************************)
StaysActiveWhileReported ==
  [][\A f \in Fault : synced /\ registry[f] # Inactive /\ registry'[f] = Inactive => f \in gone]_vars
=============================================================================
