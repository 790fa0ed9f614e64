------------------------ MODULE RuFaultBridge_proofs ------------------------
(***************************************************************************)
(* The mirror of the O-RU's faults is correct for any faults, sources and  *)
(* severities and any number of queued notifications.                      *)
(***************************************************************************)
EXTENDS RuFaultBridge, TLAPS

\* What a report or a notification may say of a source that reports o.
Agrees(r, o) == r = o \/ (o = 0 /\ r = Warning)

\* Notification i is the last one about the source.
IsLast(i, f, s) ==
  /\ queue[i].fault = f /\ queue[i].source = s
  /\ \A j \in 1 .. Len(queue) : j > i => ~(queue[j].fault = f /\ queue[j].source = s)

\* The last notification about a source tells what it reports now.
LastTells ==
  link => \A f \in Fault, s \in Source : \A i \in 1 .. Len(queue) :
            IsLast(i, f, s) => Agrees(queue[i].severity, oru[f][s])

\* What a cycle starts from.
CycleStarts ==
  /\ session = "down" => queue = <<>> /\ ~link
  /\ session = "reading" => ~synced

SweepLeft ==
  /\ session # "sweeping" => raises = {} /\ stale = {}
  /\ \A f \in raises : Reporting(reports[f]) # {}
  /\ \A f \in stale : Reporting(reports[f]) = {}

IInv == TypeOK /\ RegistryMirrorsReports /\ CycleStarts /\ SweepLeft /\ LastTells /\ MirrorCatchesUp

-----------------------------------------------------------------------------
LEMMA Numbers == \A v \in Severity \cup {0} : v \in Nat
  BY FaultAssumption

LEMMA Warnings == Warning \in Severity \cup {0} /\ 0 \notin Severity
  BY FaultAssumption

LEMMA Reported ==
  ASSUME NEW m \in Reports, NEW f \in Fault
  PROVE  /\ m[f] \in [Source -> Severity \cup {0}]
         /\ \A s \in Source : m[f][s] \in Severity \cup {0} /\ m[f][s] \in Nat
<1>1. m[f] \in [Source -> Severity \cup {0}]
  BY DEF Reports
<1>2. \A s \in Source : m[f][s] \in Severity \cup {0}
  BY <1>1
<1> QED
  BY <1>1, <1>2, Numbers

\* One report more.
With(m, f, s, v) == [m EXCEPT ![f][s] = v]

LEMMA Updated ==
  ASSUME NEW m \in Reports, NEW f \in Fault, NEW s \in Source, NEW v \in Severity \cup {0},
         NEW k, k = With(m, f, s, v)
  PROVE  /\ k \in Reports /\ k[f] \in [Source -> Severity \cup {0}]
         /\ k[f][s] = v
         /\ \A t \in Source : t # s => k[f][t] = m[f][t]
         /\ \A g \in Fault : g # f => k[g] = m[g]
<1>1. m[f] \in [Source -> Severity \cup {0}]
  BY Reported
<1> DEFINE row == [m[f] EXCEPT ![s] = v]
<1>2. row \in [Source -> Severity \cup {0}] /\ row[s] = v /\ \A t \in Source : t # s => row[t] = m[f][t]
  BY <1>1
<1>3. k = [m EXCEPT ![f] = row]
  BY DEF With
<1> HIDE DEF row
<1> QED
  BY <1>2, <1>3 DEF Reports

LEMMA OruReports ==
  ASSUME TypeOK, NEW f \in Fault, NEW s \in Source, NEW v \in Severity \cup {0}, Report(f, s, v)
  PROVE  /\ oru' \in Reports /\ oru'[f][s] = v
         /\ \A g \in Fault, t \in Source : ~(g = f /\ t = s) => oru'[g][t] = oru[g][t]
<1>1. oru \in Reports
  BY DEF TypeOK
<1>2. oru' = With(oru, f, s, v)
  BY DEF Report, With
<1> QED
  BY <1>1, <1>2, Updated

\* The entries of the list that are not cleared are the O-RU's reports.
LEMMA ListRead ==
  ASSUME oru \in Reports, NEW residual \in SUBSET (Fault \X Source),
         NEW r \in FromList(Listed(residual))
  PROVE  r = oru
<1>1. ASSUME NEW f \in Fault, NEW s \in Source, NEW v \in Severity
      PROVE  oru[f][s] = v <=> Entry(f, s, v, FALSE) \in Listed(residual)
  <2> DEFINE Active == {q \in Fault \X Source : oru[q[1]][q[2]] # 0}
  <2>1. Entry(f, s, v, FALSE) \in Listed(residual) <=>
          \E p \in Active : Entry(f, s, v, FALSE) = Entry(p[1], p[2], oru[p[1]][p[2]], FALSE)
    BY DEF Listed, Entry
  <2>2. ASSUME NEW p \in Active, Entry(f, s, v, FALSE) = Entry(p[1], p[2], oru[p[1]][p[2]], FALSE)
        PROVE  oru[f][s] = v
    BY <2>2 DEF Entry
  <2>3. ASSUME oru[f][s] = v PROVE <<f, s>> \in Active
    BY <2>3, Warnings
  <2> QED
    BY <2>1, <2>2, <2>3
<1>2. r \in Reports
  BY DEF FromList
<1>3. ASSUME NEW f \in Fault, NEW s \in Source PROVE r[f][s] = oru[f][s]
  <2>1. r[f][s] \in Severity \cup {0} /\ oru[f][s] \in Severity \cup {0}
    BY <1>2, Reported
  <2>2. \A v \in Severity : r[f][s] = v <=> Entry(f, s, v, FALSE) \in Listed(residual)
    BY DEF FromList
  <2>3. \A v \in Severity : r[f][s] = v <=> oru[f][s] = v
    BY <1>1, <2>2
  <2> QED
    BY <2>1, <2>3
<1>4. ASSUME NEW f \in Fault PROVE r[f] = oru[f]
  BY <1>2, <1>3, Reported
<1> QED
  BY <1>2, <1>4 DEF Reports

LEMMA InitInv == Init => IInv
<1> SUFFICES ASSUME Init PROVE IInv
  OBVIOUS
<1> DEFINE none == [s \in Source |-> 0]
<1>1. none \in [Source -> Severity \cup {0}] /\ \A s \in Source : none[s] = 0
  OBVIOUS
<1>2. reports \in Reports /\ \A f \in Fault : reports[f] = none
  BY <1>1 DEF Init, Reports
<1>3. Inactive \in Alarm
  BY DEF Alarm, Inactive
<1>4. TypeOK
  <2>1. registry \in [Fault -> Alarm]
    BY <1>3 DEF Init
  <2>2. queue \in Seq(Notification)
    BY DEF Init
  <2> QED
    BY <1>2, <2>1, <2>2 DEF Init, TypeOK
<1>5. RegistryMirrorsReports
  <2>1. \A f \in Fault : registry[f] = Inactive
    BY DEF Init
  <2>2. Reporting(none) = {}
    BY DEF Reporting
  <2>3. Inactive.severity = 0 /\ Inactive.sources = {}
    BY DEF Inactive
  <2>4. ASSUME NEW f \in Fault
        PROVE  /\ registry[f].sources = Reporting(reports[f])
               /\ \A s \in Source : reports[f][s] <= registry[f].severity
    BY <1>1, <1>2, <2>1, <2>2, <2>3
  <2> QED
    BY <2>1, <2>3, <2>4 DEF RegistryMirrorsReports
<1> QED
  BY <1>4, <1>5 DEF Init, IInv, CycleStarts, SweepLeft, LastTells, MirrorCatchesUp

-----------------------------------------------------------------------------
\* What RegistryMirrorsReports says of one alarm.
Mirrored(a, r) ==
  /\ a.sources = Reporting(r)
  /\ \A s \in Source : r[s] <= a.severity
  /\ a.severity # 0 => \E s \in Source : r[s] = a.severity

LEMMA Mirrors ==
  RegistryMirrorsReports <=>
    \A f \in Fault \ (raises \cup stale) :
      Mirrored(registry[f], reports[f]) /\ (registry[f] # Inactive => f \in known)
  BY DEF RegistryMirrorsReports, Mirrored

LEMMA Raised ==
  ASSUME TypeOK, NEW f \in Fault, NEW r \in [Source -> Severity \cup {0}], Raise(f, r)
  PROVE  /\ registry' \in [Fault -> Alarm] /\ known' \subseteq Fault
         /\ Mirrored(registry'[f], r)
         /\ f \in known' /\ known \subseteq known'
         /\ \A g \in Fault : g # f => registry'[g] = registry[g]
<1>1. PICK v \in {r[s] : s \in Reporting(r)} :
        /\ \A s \in Source : r[s] <= v
        /\ registry' = [registry EXCEPT ![f] = [severity |-> v, sources |-> Reporting(r)]]
  BY DEF Raise
<1> DEFINE a == [severity |-> v, sources |-> Reporting(r)]
<1>2. PICK s \in Source : v = r[s] /\ r[s] # 0
  BY DEF Reporting
<1>3. a \in [severity : Severity \cup {0}, sources : SUBSET Source]
  BY <1>2 DEF Reporting
<1>4. a.severity = v /\ a.sources = Reporting(r) /\ v # 0 /\ s \in Reporting(r)
  BY <1>2 DEF Reporting
<1>5. a \in Alarm
  BY <1>3, <1>4 DEF Alarm
<1>6. Mirrored(a, r)
  BY <1>1, <1>2, <1>4 DEF Mirrored
<1>7. registry \in [Fault -> Alarm] /\ known \subseteq Fault
  BY DEF TypeOK
<1> HIDE DEF a
<1>8. registry' = [registry EXCEPT ![f] = a]
  BY <1>1 DEF a
<1>9. registry' \in [Fault -> Alarm] /\ registry'[f] = a
  BY <1>5, <1>7, <1>8
<1> QED
  BY <1>6, <1>7, <1>8, <1>9 DEF Raise

LEMMA Empty ==
  ASSUME NEW r \in [Source -> Severity \cup {0}], Reporting(r) = {}
  PROVE  Mirrored(Inactive, r)
<1>1. Inactive.severity = 0 /\ Inactive.sources = {}
  BY DEF Inactive
<1>2. \A s \in Source : r[s] = 0
  BY DEF Reporting
<1> QED
  BY <1>1, <1>2 DEF Mirrored

LEMMA Ended ==
  ASSUME TypeOK, NEW f \in Fault, NEW r \in [Source -> Severity \cup {0}], Reporting(r) = {},
         registry' = [registry EXCEPT ![f] = Inactive]
  PROVE  /\ registry' \in [Fault -> Alarm]
         /\ registry'[f] = Inactive /\ Mirrored(Inactive, r)
         /\ \A g \in Fault : g # f => registry'[g] = registry[g]
<1>1. Inactive \in Alarm
  BY DEF Alarm, Inactive
<1>2. registry \in [Fault -> Alarm]
  BY DEF TypeOK
<1> QED
  BY <1>1, <1>2, Empty

-----------------------------------------------------------------------------
(* What an applied notification does. *)

LEMMA Applied ==
  ASSUME TypeOK, NEW n \in Notification, ApplyRaise(n) \/ ApplyClear(n)
  PROVE  /\ reports' \in Reports /\ known' \subseteq Fault /\ known \subseteq known'
         /\ registry' \in [Fault -> Alarm]
         /\ reports'[n.fault][n.source] = n.severity
         /\ \A f \in Fault, s \in Source :
              ~(f = n.fault /\ s = n.source) => reports'[f][s] = reports[f][s]
         /\ \A f \in Fault : f # n.fault =>
              reports'[f] = reports[f] /\ registry'[f] = registry[f]
         /\ \/ reports' = reports /\ registry' = registry
            \/ /\ Mirrored(registry'[n.fault], reports'[n.fault])
               /\ registry'[n.fault] # Inactive => n.fault \in known'
<1>1. n.fault \in Fault /\ n.source \in Source /\ n.severity \in Severity \cup {0}
  BY DEF Notification
<1>2. reports \in Reports /\ registry \in [Fault -> Alarm] /\ known \subseteq Fault
  BY DEF TypeOK
<1> DEFINE new == With(reports, n.fault, n.source, n.severity)
<1>3. /\ new \in Reports /\ new[n.fault] \in [Source -> Severity \cup {0}]
      /\ new[n.fault][n.source] = n.severity
      /\ \A s \in Source : s # n.source => new[n.fault][s] = reports[n.fault][s]
      /\ \A f \in Fault : f # n.fault => new[f] = reports[f]
  BY <1>1, <1>2, Updated
<1> HIDE DEF new
<1>4. CASE ApplyRaise(n)
  <2>1. reports' = new /\ Raise(n.fault, new[n.fault])
    BY <1>4 DEF ApplyRaise, With, new
  <2> QED
    BY <1>1, <1>3, <2>1, Raised
<1>5. CASE ApplyClear(n) /\ reports[n.fault][n.source] = 0
  BY <1>2, <1>5 DEF ApplyClear, bridge
<1>6. CASE ApplyClear(n) /\ reports[n.fault][n.source] # 0
  <2>1. n.severity = 0 /\ reports' = new
    BY <1>6 DEF ApplyClear, With, new
  <2>2. CASE Reporting(new[n.fault]) # {}
    <3>1. Raise(n.fault, new[n.fault])
      BY <1>6, <2>1, <2>2 DEF ApplyClear
    <3> QED
      BY <1>1, <1>3, <2>1, <3>1, Raised
  <2>3. CASE Reporting(new[n.fault]) = {}
    <3>1. registry' = [registry EXCEPT ![n.fault] = Inactive] /\ known' = known
      BY <1>6, <2>1, <2>3 DEF ApplyClear
    <3> QED
      BY <1>1, <1>2, <1>3, <2>1, <2>3, <3>1, Ended
  <2> QED
    BY <2>2, <2>3
<1> QED
  BY <1>4, <1>5, <1>6

-----------------------------------------------------------------------------
(* The steps of the invariant *)

LEMMA TypeStep == TypeOK /\ SweepLeft /\ [Next]_vars => TypeOK'
<1> SUFFICES ASSUME TypeOK, SweepLeft, [Next]_vars PROVE TypeOK'
  OBVIOUS
<1> USE DEF network, bridge, sweep
<1>1. ASSUME NEW f \in Fault, NEW s \in Source, NEW v \in Severity \cup {0}, Report(f, s, v),
             Announce(f, s, v) \/ UNCHANGED queue,
             UNCHANGED <<session, link, synced, bridge, registry, sweep>>
      PROVE  TypeOK'
  <2>1. oru' \in Reports
    BY <1>1, OruReports
  <2>2. queue' \in Seq(Notification)
    <3>1. [fault |-> f, source |-> s, severity |-> v] \in Notification
      BY DEF Notification
    <3> QED
      BY <1>1, <3>1 DEF Announce, TypeOK
  <2>3. gone' \subseteq Fault
    BY <1>1 DEF Report, Without, TypeOK
  <2> QED
    BY <1>1, <2>1, <2>2, <2>3 DEF TypeOK
<1>2. ASSUME NEW f \in Fault, NEW s \in Source,
             OruClears(f, s) \/ \E v \in Severity : OruRaises(f, s, v)
      PROVE  TypeOK'
  <2>1. CASE OruClears(f, s)
    BY <1>1, <2>1 DEF OruClears
  <2>2. CASE \E v \in Severity : OruRaises(f, s, v)
    BY <1>1, <2>2 DEF OruRaises
  <2> QED
    BY <1>2, <2>1, <2>2
<1>3. CASE Connect
  BY <1>3 DEF Connect, TypeOK
<1>4. CASE SessionLost
  <2>1. queue' \in Seq(Notification)
    BY <1>4 DEF SessionLost, Close
  <2> QED
    BY <1>4, <2>1 DEF SessionLost, Close, TypeOK
<1>5. CASE LinkDrops
  BY <1>5 DEF LinkDrops, TypeOK
<1>6. CASE ReadList
  <2>1. reports' \in Reports
    BY <1>6 DEF ReadList, FromList
  <2>2. raises' \subseteq Fault /\ stale' \subseteq Fault /\ gone' \subseteq Fault
    BY <1>6 DEF ReadList, Without
  <2> QED
    BY <1>6, <2>1, <2>2 DEF ReadList, TypeOK
<1>7. CASE ReadRefused
  BY <1>7 DEF ReadRefused, TypeOK
<1>8. ASSUME NEW f \in Fault, SweepRaise(f) PROVE TypeOK'
  <2>1. registry' \in [Fault -> Alarm] /\ known' \subseteq Fault
    <3>1. reports[f] \in [Source -> Severity \cup {0}]
      BY Reported DEF TypeOK
    <3> QED
      BY <1>8, <3>1, Raised DEF SweepRaise
  <2> QED
    BY <1>8, <2>1 DEF SweepRaise, TypeOK
<1>9. ASSUME NEW f \in Fault, SweepClear(f) PROVE TypeOK'
  <2>1. Inactive \in Alarm
    BY DEF Alarm, Inactive
  <2>2. registry' \in [Fault -> Alarm]
    BY <1>9, <2>1 DEF SweepClear, TypeOK
  <2> QED
    BY <1>9, <2>2 DEF SweepClear, TypeOK
<1>10. CASE SweepDone
  <2>1. queue' \in Seq(Notification)
    <3>1. queue' = queue \/ queue' = <<>>
      BY <1>10 DEF SweepDone, Close
    <3>2. queue \in Seq(Notification)
      BY DEF TypeOK
    <3>3. CASE queue' = <<>>
      BY <3>3
    <3> QED
      BY <3>1, <3>2, <3>3
  <2>2. session' \in {"down", "listening"} /\ link' \in BOOLEAN
    BY <1>10 DEF SweepDone, Close, TypeOK
  <2> QED
    BY <1>10, <2>1, <2>2 DEF SweepDone, TypeOK
<1>11. CASE HandleNotification
  <2>1. Head(queue) \in Notification /\ queue' \in Seq(Notification)
    BY <1>11 DEF HandleNotification, TypeOK
  <2>2. reports' \in Reports /\ known' \subseteq Fault /\ registry' \in [Fault -> Alarm]
    BY <1>11, <2>1, Applied DEF HandleNotification
  <2> QED
    BY <1>11, <2>1, <2>2 DEF HandleNotification, TypeOK
<1>12. CASE UNCHANGED vars
  BY <1>12 DEF vars, TypeOK
<1> QED
  BY <1>2, <1>3, <1>4, <1>5, <1>6, <1>7, <1>8, <1>9, <1>10, <1>11, <1>12 DEF Next

LEMMA MirrorStep ==
  TypeOK /\ SweepLeft /\ RegistryMirrorsReports /\ [Next]_vars => RegistryMirrorsReports' /\ SweepLeft'
<1> SUFFICES ASSUME TypeOK, SweepLeft, RegistryMirrorsReports, [Next]_vars
             PROVE  RegistryMirrorsReports' /\ SweepLeft'
  OBVIOUS
<1> USE DEF network, bridge, sweep
<1>r. reports \in Reports /\ registry \in [Fault -> Alarm]
  BY DEF TypeOK
<1>1. ASSUME UNCHANGED <<reports, known, registry, raises, stale>>,
             session' = "sweeping" \/ session # "sweeping" \/ (raises = {} /\ stale = {})
      PROVE  RegistryMirrorsReports' /\ SweepLeft'
  BY <1>1 DEF RegistryMirrorsReports, SweepLeft
<1>2. ASSUME NEW f \in Fault, NEW s \in Source,
             OruClears(f, s) \/ \E v \in Severity : OruRaises(f, s, v)
      PROVE  RegistryMirrorsReports' /\ SweepLeft'
  <2>1. UNCHANGED <<session, bridge, registry, sweep>>
    BY <1>2 DEF OruClears, OruRaises
  <2> QED
    BY <1>1, <2>1
<1>3. CASE Connect \/ SessionLost \/ LinkDrops \/ ReadRefused \/ SweepDone \/ UNCHANGED vars
  BY <1>1, <1>3 DEF Connect, SessionLost, LinkDrops, ReadRefused, SweepDone, vars
<1>4. CASE ReadList
  <2>1. reports' \in Reports
    BY <1>4 DEF ReadList, FromList
  <2>2. \A f \in Fault : f \in raises' <=> Reporting(reports'[f]) # {}
    BY <1>4 DEF ReadList, Without
  <2>3. \A f \in Fault : f \in stale' <=> registry[f] # Inactive /\ f \notin raises'
    BY <1>4 DEF ReadList
  <2>4. raises' \subseteq Fault /\ stale' \subseteq Fault /\ session' = "sweeping" /\ registry' = registry
    BY <1>4 DEF ReadList
  <2>5. ASSUME NEW f \in Fault \ (raises' \cup stale')
        PROVE  registry'[f] = Inactive /\ Mirrored(registry'[f], reports'[f])
    <3>1. registry'[f] = Inactive /\ Reporting(reports'[f]) = {}
      BY <2>2, <2>3, <2>4
    <3>2. reports'[f] \in [Source -> Severity \cup {0}]
      BY <2>1, Reported
    <3> QED
      BY <3>1, <3>2, Empty
  <2>6. RegistryMirrorsReports'
    BY <2>5 DEF RegistryMirrorsReports, Mirrored
  <2>7. SweepLeft'
    BY <2>2, <2>3, <2>4 DEF SweepLeft
  <2> QED
    BY <2>6, <2>7
<1>5. ASSUME NEW f \in Fault, SweepRaise(f) PROVE RegistryMirrorsReports' /\ SweepLeft'
  <2>1. reports[f] \in [Source -> Severity \cup {0}]
    BY <1>r, Reported
  <2>2. Raise(f, reports[f]) /\ reports' = reports /\ raises' = raises \ {f} /\ stale' = stale
        /\ session = "sweeping" /\ session' = session
    BY <1>5 DEF SweepRaise
  <2>3. /\ Mirrored(registry'[f], reports[f]) /\ f \in known' /\ known \subseteq known'
        /\ \A g \in Fault : g # f => registry'[g] = registry[g]
    BY <2>1, <2>2, Raised
  <2>4. ASSUME NEW g \in Fault \ (raises' \cup stale')
        PROVE  Mirrored(registry'[g], reports'[g]) /\ (registry'[g] # Inactive => g \in known')
    <3>1. CASE g = f
      BY <2>2, <2>3, <3>1
    <3>2. CASE g # f
      <4>1. g \in Fault \ (raises \cup stale)
        BY <2>2, <3>2
      <4> QED
        BY <2>2, <2>3, <3>2, <4>1, Mirrors
    <3> QED
      BY <3>1, <3>2
  <2>5. RegistryMirrorsReports'
    BY <2>4 DEF RegistryMirrorsReports, Mirrored
  <2>6. SweepLeft'
    BY <2>2 DEF SweepLeft
  <2> QED
    BY <2>5, <2>6
<1>6. ASSUME NEW f \in Fault, SweepClear(f) PROVE RegistryMirrorsReports' /\ SweepLeft'
  <2>1. reports[f] \in [Source -> Severity \cup {0}]
    BY <1>r, Reported
  <2>2. registry' = [registry EXCEPT ![f] = Inactive] /\ reports' = reports /\ known' = known
        /\ raises' = raises /\ stale' = stale \ {f} /\ f \in stale
        /\ session = "sweeping" /\ session' = session
    BY <1>6 DEF SweepClear, First
  <2>3. Reporting(reports[f]) = {}
    BY <2>2 DEF SweepLeft
  <2>4. /\ registry'[f] = Inactive /\ Mirrored(Inactive, reports[f])
        /\ \A g \in Fault : g # f => registry'[g] = registry[g]
    BY <2>1, <2>2, <2>3, Ended
  <2>5. ASSUME NEW g \in Fault \ (raises' \cup stale')
        PROVE  Mirrored(registry'[g], reports'[g]) /\ (registry'[g] # Inactive => g \in known')
    <3>1. CASE g = f
      BY <2>2, <2>4, <3>1
    <3>2. CASE g # f
      <4>1. g \in Fault \ (raises \cup stale)
        BY <2>2, <3>2
      <4> QED
        BY <2>2, <2>4, <3>2, <4>1, Mirrors
    <3> QED
      BY <3>1, <3>2
  <2>6. RegistryMirrorsReports'
    BY <2>5 DEF RegistryMirrorsReports, Mirrored
  <2>7. SweepLeft'
    BY <2>2 DEF SweepLeft
  <2> QED
    BY <2>6, <2>7
<1>7. CASE HandleNotification
  <2> DEFINE n == Head(queue)
  <2>1. n \in Notification /\ (ApplyRaise(n) \/ ApplyClear(n))
    BY <1>7 DEF HandleNotification, TypeOK
  <2>2. raises = {} /\ stale = {} /\ raises' = {} /\ stale' = {} /\ session' # "sweeping"
    BY <1>7 DEF HandleNotification, SweepLeft
  <2>3. n.fault \in Fault
    BY <2>1 DEF Notification
  <2> HIDE DEF n
  <2>4. /\ known \subseteq known'
        /\ \A f \in Fault : f # n.fault => reports'[f] = reports[f] /\ registry'[f] = registry[f]
        /\ \/ reports' = reports /\ registry' = registry
           \/ /\ Mirrored(registry'[n.fault], reports'[n.fault])
              /\ registry'[n.fault] # Inactive => n.fault \in known'
    BY <2>1, Applied
  <2>5. ASSUME NEW f \in Fault
        PROVE  Mirrored(registry'[f], reports'[f]) /\ (registry'[f] # Inactive => f \in known')
    <3>1. Mirrored(registry[f], reports[f]) /\ (registry[f] # Inactive => f \in known)
      BY <2>2, Mirrors
    <3> QED
      BY <2>4, <3>1
  <2>6. RegistryMirrorsReports'
    BY <2>5 DEF RegistryMirrorsReports, Mirrored
  <2>7. SweepLeft'
    BY <2>2 DEF SweepLeft
  <2> QED
    BY <2>6, <2>7
<1> QED
  BY <1>2, <1>3, <1>4, <1>5, <1>6, <1>7 DEF Next

Catching == CycleStarts /\ LastTells /\ MirrorCatchesUp

LEMMA CatchStep == TypeOK /\ TypeOK' /\ Catching /\ [Next]_vars => Catching'
<1> SUFFICES ASSUME TypeOK, TypeOK', Catching, [Next]_vars PROVE Catching'
  OBVIOUS
<1> USE DEF network, bridge, sweep
<1>q. queue \in Seq(Notification) /\ Len(queue) \in Nat /\ DOMAIN queue = 1 .. Len(queue)
      /\ reports \in Reports /\ oru \in Reports /\ link \in BOOLEAN
  BY DEF TypeOK
\* Nothing is promised of a dead link.
<1>d. ASSUME ~link', CycleStarts' PROVE Catching'
  BY <1>d DEF Catching, LastTells, MirrorCatchesUp
\* Nothing that LastTells and MirrorCatchesUp speak of changes.
<1>u. ASSUME UNCHANGED <<oru, link, queue, reports, synced>>, CycleStarts',
             session \in {"sweeping", "listening"} \/ session' = session \/ ~synced
      PROVE  Catching'
  <2>1. LastTells'
    BY <1>u DEF Catching, LastTells, IsLast
  <2>2. MirrorCatchesUp'
    BY <1>u DEF Catching, MirrorCatchesUp, Pending
  <2> QED
    BY <1>u, <2>1, <2>2 DEF Catching
<1>1. ASSUME NEW f \in Fault, NEW s \in Source, NEW v \in Severity \cup {0}, Report(f, s, v),
             Announce(f, s, v) \/ (UNCHANGED queue /\ v = 0 /\ oru[f][s] = Warning),
             UNCHANGED <<session, link, synced, bridge, registry, sweep>>
      PROVE  Catching'
  <2>1. /\ oru' \in Reports /\ oru'[f][s] = v
        /\ \A g \in Fault, t \in Source : ~(g = f /\ t = s) => oru'[g][t] = oru[g][t]
    BY <1>1, OruReports
  <2>2. CASE ~link
    <3>1. queue' = queue
      BY <1>1, <2>2 DEF Announce
    <3> QED
      BY <1>1, <1>d, <2>2, <3>1 DEF Catching, CycleStarts
  <2>3. CASE link /\ Announce(f, s, v)
    <3> DEFINE n == [fault |-> f, source |-> s, severity |-> v]
               last == Len(queue) + 1
    <3>1. queue' = Append(queue, n) /\ n.fault = f /\ n.source = s /\ n.severity = v /\ n \in Notification
      BY <2>3 DEF Announce, Notification
    <3> HIDE DEF n
    <3>2. /\ Len(queue') = last /\ queue'[last] = n
          /\ \A i \in 1 .. Len(queue) : queue'[i] = queue[i]
      BY <1>q, <3>1
    <3>3. CycleStarts'
      BY <1>1, <2>3 DEF Catching, CycleStarts
    <3>4. ASSUME NEW g \in Fault, NEW t \in Source, NEW i \in 1 .. Len(queue'), IsLast(i, g, t)'
          PROVE  Agrees(queue'[i].severity, oru'[g][t])
      <4>1. queue'[i].fault = g /\ queue'[i].source = t
            /\ \A j \in 1 .. Len(queue') : j > i => ~(queue'[j].fault = g /\ queue'[j].source = t)
        BY <3>4 DEF IsLast
      <4>2. CASE i = last
        BY <2>1, <3>1, <3>2, <4>1, <4>2 DEF Agrees
      <4>3. CASE i # last
        <5>1. i \in 1 .. Len(queue) /\ last \in 1 .. Len(queue') /\ last > i
          BY <1>q, <3>2, <4>3
        <5>2. ~(g = f /\ t = s)
          BY <3>1, <3>2, <4>1, <5>1
        <5>3. \A j \in 1 .. Len(queue) : j > i => ~(queue[j].fault = g /\ queue[j].source = t)
          <6>1. \A j \in 1 .. Len(queue) : j \in 1 .. Len(queue')
            BY <1>q, <3>2
          <6> QED
            BY <3>2, <4>1, <6>1
        <5>4. IsLast(i, g, t)
          BY <3>2, <4>1, <5>1, <5>3 DEF IsLast
        <5>5. Agrees(queue[i].severity, oru[g][t])
          BY <2>3, <5>1, <5>4 DEF Catching, LastTells
        <5> QED
          BY <2>1, <3>2, <5>1, <5>2, <5>5
      <4> QED
        BY <4>2, <4>3
    <3>5. LastTells'
      BY <3>4 DEF LastTells
    <3>6. ASSUME NEW g \in Fault, NEW t \in Source, ~Pending(g, t)'
          PROVE  ~(g = f /\ t = s) /\ ~Pending(g, t)
      <4>1. \A j \in 1 .. Len(queue') : ~(queue'[j].fault = g /\ queue'[j].source = t)
        BY <3>6 DEF Pending
      <4>2. last \in 1 .. Len(queue') /\ \A j \in 1 .. Len(queue) : j \in 1 .. Len(queue')
        BY <1>q, <3>2
      <4> QED
        BY <3>1, <3>2, <4>1, <4>2 DEF Pending
    <3>7. MirrorCatchesUp'
      BY <1>1, <2>1, <3>6 DEF Catching, MirrorCatchesUp
    <3> QED
      BY <3>3, <3>5, <3>7 DEF Catching
  <2>4. CASE link /\ UNCHANGED queue /\ v = 0 /\ oru[f][s] = Warning
    <3>1. CycleStarts'
      BY <1>1, <2>4 DEF Catching, CycleStarts
    <3>2. \A o : Agrees(o, Warning) => Agrees(o, 0)
      BY Warnings DEF Agrees
    <3>3. ASSUME NEW g \in Fault, NEW t \in Source, NEW o, Agrees(o, oru[g][t])
          PROVE  Agrees(o, oru'[g][t])
      BY <2>1, <2>4, <3>2, <3>3
    <3>4. LastTells'
      BY <1>1, <2>4, <3>3 DEF Catching, LastTells, IsLast
    <3>5. MirrorCatchesUp'
      <4>1. ASSUME NEW g \in Fault, NEW t \in Source, ~Pending(g, t)', link', synced',
                   session' \in {"sweeping", "listening"}
            PROVE  Agrees(reports'[g][t], oru'[g][t])
        <5>1. ~Pending(g, t)
          BY <2>4, <4>1 DEF Pending
        <5>2. Agrees(reports[g][t], oru[g][t])
          BY <1>1, <4>1, <5>1 DEF Catching, MirrorCatchesUp, Agrees
        <5> QED
          BY <1>1, <3>3, <5>2
      <4> QED
        BY <4>1 DEF MirrorCatchesUp, Agrees
    <3> QED
      BY <3>1, <3>4, <3>5 DEF Catching
  <2> QED
    BY <1>1, <1>q, <2>2, <2>3, <2>4
<1>2. ASSUME NEW f \in Fault, NEW s \in Source,
             OruClears(f, s) \/ \E v \in Severity : OruRaises(f, s, v)
      PROVE  Catching'
  <2>1. CASE OruClears(f, s)
    BY <1>1, <2>1 DEF OruClears
  <2>2. CASE \E v \in Severity : OruRaises(f, s, v)
    BY <1>1, <2>2 DEF OruRaises
  <2> QED
    BY <1>2, <2>1, <2>2
<1>3. CASE Connect
  <2>1. queue' = <<>> /\ session' = "reading" /\ ~synced'
    BY <1>3 DEF Connect, Catching, CycleStarts
  <2> QED
    BY <2>1 DEF Catching, CycleStarts, LastTells, MirrorCatchesUp
<1>4. CASE SessionLost \/ LinkDrops \/ (SweepDone /\ ~link)
  <2>1. ~link' /\ CycleStarts'
    BY <1>4 DEF SessionLost, LinkDrops, SweepDone, Close, Catching, CycleStarts
  <2> QED
    BY <1>d, <2>1
<1>5. CASE ReadRefused \/ (SweepDone /\ link) \/ UNCHANGED vars
  <2>1. CycleStarts'
    BY <1>5 DEF ReadRefused, SweepDone, vars, Catching, CycleStarts
  <2> QED
    BY <1>u, <1>5, <2>1 DEF ReadRefused, SweepDone, vars, Catching, CycleStarts
<1>6. CASE ReadList
  <2>1. PICK residual \in SUBSET (Fault \X Source) : reports' \in FromList(Listed(residual))
    BY <1>6 DEF ReadList
  <2>2. reports' = oru
    BY <1>q, <2>1, ListRead
  <2>3. UNCHANGED <<oru, link, queue>> /\ session' = "sweeping"
    BY <1>6 DEF ReadList
  <2>4. LastTells'
    BY <2>3 DEF Catching, LastTells, IsLast
  <2> QED
    BY <2>2, <2>3, <2>4 DEF Catching, CycleStarts, MirrorCatchesUp
<1>7. ASSUME NEW f \in Fault, SweepRaise(f) \/ SweepClear(f) PROVE Catching'
  <2>1. session = "sweeping" /\ UNCHANGED <<oru, session, link, queue, reports, synced>>
    BY <1>7 DEF SweepRaise, SweepClear
  <2> QED
    BY <1>u, <2>1 DEF CycleStarts
<1>8. CASE HandleNotification
  <2> DEFINE n == Head(queue)
  <2>1. queue # <<>> /\ queue' = Tail(queue) /\ (ApplyRaise(n) \/ ApplyClear(n))
        /\ UNCHANGED <<oru, session, link, synced>> /\ session = "listening"
    BY <1>8 DEF HandleNotification
  <2>2. n \in Notification /\ n = queue[1] /\ 1 \in 1 .. Len(queue)
    BY <1>q, <2>1
  <2> HIDE DEF n
  <2>3. \A i \in 1 .. Len(queue') : i + 1 \in 1 .. Len(queue) /\ queue'[i] = queue[i + 1]
    BY <1>q, <2>1
  <2>4. \A j \in 1 .. Len(queue) : j > 1 => j - 1 \in 1 .. Len(queue') /\ queue'[j - 1] = queue[j]
    BY <1>q, <2>1
  <2>5. /\ reports'[n.fault][n.source] = n.severity
        /\ \A f \in Fault, s \in Source :
             ~(f = n.fault /\ s = n.source) => reports'[f][s] = reports[f][s]
    BY <2>1, <2>2, Applied
  <2>6. CycleStarts'
    BY <2>1 DEF CycleStarts
  <2>7. ASSUME NEW f \in Fault, NEW s \in Source, NEW i \in 1 .. Len(queue'), IsLast(i, f, s)'
        PROVE  IsLast(i + 1, f, s)
    <3>1. queue[i + 1].fault = f /\ queue[i + 1].source = s
      BY <2>3, <2>7 DEF IsLast
    <3>2. ASSUME NEW j \in 1 .. Len(queue), j > i + 1
          PROVE  ~(queue[j].fault = f /\ queue[j].source = s)
      <4>1. j > 1 /\ j - 1 > i
        BY <1>q, <2>3, <3>2
      <4>2. j - 1 \in 1 .. Len(queue') /\ queue'[j - 1] = queue[j]
        BY <2>4, <4>1
      <4> QED
        BY <2>7, <4>1, <4>2 DEF IsLast
    <3> QED
      BY <3>1, <3>2 DEF IsLast
  <2>8. LastTells'
    BY <2>1, <2>3, <2>7 DEF Catching, LastTells
  <2>9. ASSUME NEW f \in Fault, NEW s \in Source, ~Pending(f, s)', link', synced'
        PROVE  Agrees(reports'[f][s], oru'[f][s])
    <3>1. \A j \in 1 .. Len(queue') : ~(queue'[j].fault = f /\ queue'[j].source = s)
      BY <2>9 DEF Pending
    <3>2. \A j \in 1 .. Len(queue) : j > 1 => ~(queue[j].fault = f /\ queue[j].source = s)
      BY <2>4, <3>1
    <3>3. CASE f = n.fault /\ s = n.source
      <4>1. IsLast(1, f, s)
        BY <2>2, <3>2, <3>3 DEF IsLast
      <4>2. Agrees(n.severity, oru[f][s])
        BY <2>1, <2>2, <2>9, <4>1 DEF Catching, LastTells
      <4> QED
        BY <2>1, <2>5, <3>3, <4>2
    <3>4. CASE ~(f = n.fault /\ s = n.source)
      <4>1. ~Pending(f, s)
        <5>1. \A j \in 1 .. Len(queue) : j = 1 \/ j > 1
          OBVIOUS
        <5> QED
          BY <2>2, <3>2, <3>4, <5>1 DEF Pending
      <4>2. Agrees(reports[f][s], oru[f][s])
        BY <2>1, <2>9, <4>1 DEF Catching, MirrorCatchesUp, Agrees
      <4> QED
        BY <2>1, <2>5, <3>4, <4>2
    <3> QED
      BY <3>3, <3>4
  <2>10. MirrorCatchesUp'
    BY <2>9 DEF MirrorCatchesUp, Agrees
  <2> QED
    BY <2>6, <2>8, <2>10 DEF Catching
<1> QED
  BY <1>q, <1>2, <1>3, <1>4, <1>5, <1>6, <1>7, <1>8 DEF Next

-----------------------------------------------------------------------------
\* The invariant holds throughout.
THEOREM Inductive == Spec => []IInv
<1>1. Init => IInv
  BY InitInv
<1>2. IInv /\ [Next]_vars => IInv'
  <2> SUFFICES ASSUME IInv, [Next]_vars PROVE IInv'
    OBVIOUS
  <2>1. TypeOK'
    BY TypeStep DEF IInv
  <2>2. RegistryMirrorsReports' /\ SweepLeft'
    BY MirrorStep DEF IInv
  <2>3. Catching'
    BY <2>1, CatchStep DEF IInv, Catching
  <2> QED
    BY <2>1, <2>2, <2>3 DEF IInv, Catching
<1> QED
  BY <1>1, <1>2, PTL DEF Spec

\* Bookkeeping, registry and queue keep their types.
THEOREM TypeCorrect == Spec => []TypeOK
<1>1. IInv => TypeOK
  BY DEF IInv
<1> QED
  BY <1>1, Inductive, PTL

\* Each mirrored alarm names the reporting sources and has the severity of the worst.
THEOREM MirrorCorrect == Spec => []RegistryMirrorsReports
<1>1. IInv => RegistryMirrorsReports
  BY DEF IInv
<1> QED
  BY <1>1, Inductive, PTL

\* Once a source's notifications are applied, what is mirrored of it is what
\* the O-RU reports, unannounced ends of warnings apart.
THEOREM CatchUpCorrect == Spec => []MirrorCatchesUp
<1>1. IInv => MirrorCatchesUp
  BY DEF IInv
<1> QED
  BY <1>1, Inductive, PTL
=============================================================================
