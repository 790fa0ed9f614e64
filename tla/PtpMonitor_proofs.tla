------------------------- MODULE PtpMonitor_proofs -------------------------
(***************************************************************************)
(* The PTP monitor, for any numbers: both alarms debounce what the         *)
(* snapshots carry, and no excursion of the statistics is missed.          *)
(***************************************************************************)
EXTENDS PtpMonitor, TLAPS

USE PtpAssumption

\* While the alarm is on, the confirms newest snapshots are not local, and the
\* one before them, if it came after the alarm, is.
MasterRun ==
  master = 1 =>
    /\ confirms <= masterSince
    /\ \A i \in 1 .. confirms : masterReports[i] = 0
    /\ confirms < masterSince => masterReports[confirms + 1] = 1

\* The exceeds newest snapshots lie above the limit; while the alarm is off,
\* the one before them, if it came after the alarm, does not.
LateRun ==
  /\ \A i \in 1 .. exceeds : lateReports[i] = 1
  /\ late = 0 =>
       /\ exceeds <= lateSince
       /\ exceeds < lateSince => lateReports[exceeds + 1] = 0

\* The reader's state is the latest statistics line, and what repeats it only
\* adds to the count: a run of lines is never longer than it.
LinesCounted ==
  /\ stats = -1 \/ stats = statsLines[1]
  /\ stats = -1 => statsLines[1] = 0
  /\ statsLines[1] = 0 => exceeds = 0
  /\ \A k \in 1 .. LateN : (\A i \in 1 .. k : statsLines[i] = 1) => k <= exceeds

IInv == TypeOK /\ MasterRun /\ LateRun /\ LinesCounted

LEMMA Depths == MasterWindow!Depth = MasterClearN /\ LateWindow!Depth = LateN
  BY DEF MasterWindow!Depth, LateWindow!Depth

LEMMA MasterCounted ==
  ASSUME NEW n \in 0 .. MasterClearN
  PROVE  MasterWindow!Count(n) = (IF n < MasterClearN THEN n + 1 ELSE n)
  BY Depths DEF MasterWindow!Count

LEMMA LateCounted ==
  ASSUME NEW n \in 0 .. LateN
  PROVE  LateWindow!Count(n) = (IF n < LateN THEN n + 1 ELSE n)
  BY Depths DEF LateWindow!Count

LEMMA MasterPushed ==
  ASSUME NEW w \in MasterWindow!Window, NEW r \in Verdict
  PROVE  /\ MasterWindow!Push(w, r) \in MasterWindow!Window
         /\ MasterWindow!Push(w, r)[1] = r
         /\ \A i \in 1 .. MasterClearN - 1 : MasterWindow!Push(w, r)[i + 1] = w[i]
<1>1. \A i \in 1 .. MasterClearN : (IF i = 1 THEN r ELSE w[i - 1]) \in Verdict
  BY Depths DEF MasterWindow!Window
<1>2. MasterWindow!Push(w, r) = [i \in 1 .. MasterClearN |-> IF i = 1 THEN r ELSE w[i - 1]]
  BY Depths DEF MasterWindow!Push
<1>3. MasterWindow!Push(w, r) \in MasterWindow!Window
  BY <1>1, <1>2, Depths DEF MasterWindow!Window
<1>4. ASSUME NEW i \in 1 .. MasterClearN - 1 PROVE MasterWindow!Push(w, r)[i + 1] = w[i]
  <2>1. i + 1 \in 1 .. MasterClearN /\ i + 1 # 1 /\ (i + 1) - 1 = i
    OBVIOUS
  <2> QED
    BY <1>2, <2>1
<1>5. MasterWindow!Push(w, r)[1] = r
  <2>1. 1 \in 1 .. MasterClearN
    OBVIOUS
  <2> QED
    BY <1>2, <2>1
<1> QED
  BY <1>3, <1>4, <1>5

LEMMA LatePushed ==
  ASSUME NEW w \in LateWindow!Window, NEW r \in Verdict
  PROVE  /\ LateWindow!Push(w, r) \in LateWindow!Window
         /\ LateWindow!Push(w, r)[1] = r
         /\ \A i \in 1 .. LateN - 1 : LateWindow!Push(w, r)[i + 1] = w[i]
<1>1. \A i \in 1 .. LateN : (IF i = 1 THEN r ELSE w[i - 1]) \in Verdict
  BY Depths DEF LateWindow!Window
<1>2. LateWindow!Push(w, r) = [i \in 1 .. LateN |-> IF i = 1 THEN r ELSE w[i - 1]]
  BY Depths DEF LateWindow!Push
<1>3. LateWindow!Push(w, r) \in LateWindow!Window
  BY <1>1, <1>2, Depths DEF LateWindow!Window
<1>4. ASSUME NEW i \in 1 .. LateN - 1 PROVE LateWindow!Push(w, r)[i + 1] = w[i]
  <2>1. i + 1 \in 1 .. LateN /\ i + 1 # 1 /\ (i + 1) - 1 = i
    OBVIOUS
  <2> QED
    BY <1>2, <2>1
<1>5. LateWindow!Push(w, r)[1] = r
  <2>1. 1 \in 1 .. LateN
    OBVIOUS
  <2> QED
    BY <1>2, <2>1
<1> QED
  BY <1>3, <1>4, <1>5

-----------------------------------------------------------------------------
\* What a line does to the reader's state; the consumer checks it whatever the
\* line.
ReaderTypes == source' \in {"none", "remote", "local"} /\ stats' \in {-1, 0, 1}

LEMMA NextChecks ==
  ASSUME TypeOK, Next
  PROVE  /\ ReaderTypes /\ CheckMaster /\ CheckLatency
         /\ \/ stats' = stats /\ statsLines' = statsLines
            \/ stats' \in Verdict /\ statsLines' = LateWindow!Push(statsLines, stats')
<1>1. ASSUME NEW s \in {"remote", "local"}, BestMaster(s)
      PROVE  Check /\ ReaderTypes /\ stats' = stats /\ statsLines' = statsLines
  BY <1>1 DEF BestMaster, ReaderTypes, TypeOK
<1>2. ASSUME NEW v \in Verdict, Stats(v)
      PROVE  /\ Check /\ ReaderTypes
             /\ stats' \in Verdict /\ statsLines' = LateWindow!Push(statsLines, stats')
  BY <1>2 DEF Stats, ReaderTypes, TypeOK, Verdict
<1>3. CASE Phc2sys
  BY <1>3 DEF Phc2sys, ReaderTypes, TypeOK, state, Check
<1> QED
  BY <1>1, <1>2, <1>3 DEF Next, Check

\* The master alarm's part of the invariant.
MasterTypes ==
  /\ master \in Verdict /\ confirms \in 0 .. MasterClearN - 1
  /\ master = 0 => confirms = 0
  /\ masterReports \in MasterWindow!Window /\ masterSince \in 0 .. MasterClearN

\* What a check makes of the alarm of a snapshot that is local, or not.
Judged(local) ==
  /\ local \in Verdict
  /\ masterReports' = MasterWindow!Push(masterReports, local)
  /\ masterReports'[1] = local
  /\ \A i \in 1 .. MasterClearN - 1 : masterReports'[i + 1] = masterReports[i]
  /\ masterSince' = IF master' = master THEN MasterWindow!Count(masterSince) ELSE 0
  /\ \/ local = 1 /\ (MasterLost \/ StillLocal)
     \/ local = 0 /\ (NoAlarm \/ Confirm \/ MasterBack)

LEMMA MasterJudged ==
  ASSUME MasterTypes, CheckMaster
  PROVE  Judged(IF source' = "local" THEN 1 ELSE 0) /\ masterReports' \in MasterWindow!Window
<1> DEFINE local == IF source' = "local" THEN 1 ELSE 0
<1>1. local \in Verdict /\ (local = 1 \/ local = 0)
  BY DEF Verdict
<1>2. /\ masterReports' = MasterWindow!Push(masterReports, local)
      /\ masterSince' = IF master' = master THEN MasterWindow!Count(masterSince) ELSE 0
      /\ IF local = 1 THEN MasterLost \/ StillLocal ELSE NoAlarm \/ Confirm \/ MasterBack
  BY DEF CheckMaster
<1>3. masterReports \in MasterWindow!Window
  BY DEF MasterTypes
<1> HIDE DEF local
<1>4. /\ masterReports' \in MasterWindow!Window /\ masterReports'[1] = local
      /\ \A i \in 1 .. MasterClearN - 1 : masterReports'[i + 1] = masterReports[i]
  BY <1>1, <1>2, <1>3, MasterPushed
<1>5. Judged(local)
  BY <1>1, <1>2, <1>4 DEF Judged
<1> QED
  BY <1>4, <1>5 DEF local

LEMMA MasterRunStep ==
  ASSUME MasterTypes, MasterRun, CheckMaster
  PROVE  MasterTypes' /\ MasterRun'
<1>1. PICK local \in Verdict : Judged(local)
  BY MasterJudged DEF Judged
<1>t. /\ master \in {0, 1} /\ confirms \in 0 .. MasterClearN - 1 /\ masterSince \in 0 .. MasterClearN
      /\ master = 0 => confirms = 0
      /\ MasterWindow!Count(masterSince) = IF masterSince < MasterClearN THEN masterSince + 1 ELSE masterSince
      /\ masterReports' \in MasterWindow!Window
  BY MasterJudged, MasterCounted DEF MasterTypes, Verdict
<1>2. CASE MasterLost
  <2>1. master' = 1 /\ confirms' = 0 /\ masterSince' = 0
    BY <1>1, <1>2 DEF Judged, MasterLost
  <2> QED
    BY <1>t, <2>1 DEF MasterTypes, MasterRun, Verdict
<1>3. CASE StillLocal /\ local = 1
  <2>1. master' = master /\ master' = 1 /\ confirms' = 0 /\ masterSince' = MasterWindow!Count(masterSince)
        /\ masterReports'[1] = 1
    BY <1>1, <1>3 DEF Judged, StillLocal
  <2> QED
    BY <1>t, <2>1 DEF MasterTypes, MasterRun, Verdict
<1>4. CASE NoAlarm
  <2>1. master' = 0 /\ confirms' = confirms /\ master = 0 /\ masterSince' = MasterWindow!Count(masterSince)
    BY <1>1, <1>4 DEF Judged, NoAlarm
  <2> QED
    BY <1>t, <2>1 DEF MasterTypes, MasterRun, Verdict
<1>5. CASE Confirm /\ local = 0
  <2>1. /\ master' = master /\ master = 1 /\ confirms' = confirms + 1 /\ confirms + 1 < MasterClearN
        /\ masterSince' = MasterWindow!Count(masterSince)
        /\ masterReports'[1] = 0
        /\ \A i \in 1 .. MasterClearN - 1 : masterReports'[i + 1] = masterReports[i]
    BY <1>1, <1>5 DEF Judged, Confirm
  <2>2. /\ confirms <= masterSince
        /\ \A i \in 1 .. confirms : masterReports[i] = 0
        /\ confirms < masterSince => masterReports[confirms + 1] = 1
    BY <2>1 DEF MasterRun
  <2>3. ASSUME NEW i \in 1 .. confirms + 1 PROVE masterReports'[i] = 0
    <3>1. CASE i = 1
      BY <2>1, <3>1
    <3>2. CASE i # 1
      <4>1. i - 1 \in 1 .. confirms /\ i - 1 \in 1 .. MasterClearN - 1 /\ (i - 1) + 1 = i
        BY <1>t, <2>1, <3>2
      <4> QED
        BY <2>1, <2>2, <4>1
    <3> QED
      BY <3>1, <3>2
  <2>4. confirms + 1 < masterSince' => masterReports'[(confirms + 1) + 1] = 1
    BY <1>t, <2>1, <2>2
  <2> QED
    BY <1>t, <2>1, <2>2, <2>3, <2>4 DEF MasterTypes, MasterRun, Verdict
<1>6. CASE MasterBack
  <2>1. master' = 0 /\ confirms' = 0 /\ masterSince' = 0
    BY <1>1, <1>6 DEF Judged, MasterBack
  <2> QED
    BY <1>t, <2>1 DEF MasterTypes, MasterRun, Verdict
<1> QED
  BY <1>1, <1>2, <1>3, <1>4, <1>5, <1>6 DEF Judged

-----------------------------------------------------------------------------
\* The latency alarm's part of the invariant.
LateTypes ==
  /\ late \in Verdict /\ exceeds \in 0 .. LateN
  /\ late = 1 <=> exceeds = LateN
  /\ lateReports \in LateWindow!Window /\ lateSince \in 0 .. LateN

\* What a check makes of a snapshot with statistics.
Measured(v) ==
  /\ v \in Verdict
  /\ lateReports' = LateWindow!Push(lateReports, v)
  /\ lateReports' \in LateWindow!Window /\ lateReports'[1] = v
  /\ \A i \in 1 .. LateN - 1 : lateReports'[i + 1] = lateReports[i]
  /\ lateSince' = IF late' = late THEN LateWindow!Count(lateSince) ELSE 0
  /\ \/ /\ v = 1
        /\ exceeds' = (IF exceeds < LateN THEN exceeds + 1 ELSE exceeds)
        /\ late' = (IF exceeds' >= LateN THEN 1 ELSE late)
     \/ v = 0 /\ late' = 0 /\ exceeds' = 0

LEMMA LateMeasured ==
  ASSUME LateTypes, CheckLatency, stats' \in Verdict
  PROVE  Measured(stats')
<1>1. stats' # -1 /\ (stats' = 1 \/ stats' = 0)
  BY DEF Verdict
<1>2. /\ IF stats' = 1 THEN Exceeds ELSE InTime
      /\ lateReports' = LateWindow!Push(lateReports, stats')
      /\ lateSince' = IF late' = late THEN LateWindow!Count(lateSince) ELSE 0
  BY <1>1 DEF CheckLatency
<1>3. /\ lateReports' \in LateWindow!Window /\ lateReports'[1] = stats'
      /\ \A i \in 1 .. LateN - 1 : lateReports'[i + 1] = lateReports[i]
  BY <1>2, LatePushed DEF LateTypes
<1>4. CASE stats' = 1
  BY <1>2, <1>3, <1>4 DEF Measured, Exceeds
<1>5. CASE stats' = 0
  BY <1>2, <1>3, <1>5 DEF Measured, InTime
<1> QED
  BY <1>1, <1>4, <1>5

LEMMA LateRunStep ==
  ASSUME LateTypes, LateRun, NEW v \in Verdict, Measured(v)
  PROVE  LateTypes' /\ LateRun'
<1>1. /\ late \in {0, 1} /\ exceeds \in 0 .. LateN /\ lateSince \in 0 .. LateN
      /\ late = 1 <=> exceeds = LateN
      /\ LateWindow!Count(lateSince) = IF lateSince < LateN THEN lateSince + 1 ELSE lateSince
      /\ lateReports' \in LateWindow!Window
      /\ lateSince' = IF late' = late THEN LateWindow!Count(lateSince) ELSE 0
  BY LateCounted DEF LateTypes, Verdict, Measured
<1>2. CASE v = 0
  <2>1. late' = 0 /\ exceeds' = 0 /\ lateReports'[1] = 0
    BY <1>2 DEF Measured
  <2> QED
    BY <1>1, <2>1 DEF LateTypes, LateRun, Verdict
<1>3. CASE v = 1
  <2>1. /\ exceeds' = (IF exceeds < LateN THEN exceeds + 1 ELSE exceeds)
        /\ late' = (IF exceeds' >= LateN THEN 1 ELSE late)
        /\ lateReports'[1] = 1
        /\ \A i \in 1 .. LateN - 1 : lateReports'[i + 1] = lateReports[i]
    BY <1>3 DEF Measured
  <2>2. exceeds' \in 0 .. LateN /\ late' \in {0, 1} /\ (late' = 1 <=> exceeds' = LateN)
    BY <1>1, <2>1
  <2>3. LateTypes'
    BY <1>1, <2>2 DEF LateTypes, Verdict
  <2>4. ASSUME NEW i \in 1 .. exceeds' PROVE lateReports'[i] = 1
    <3>1. CASE i = 1
      BY <2>1, <3>1
    <3>2. CASE i # 1
      <4>1. i - 1 \in 1 .. exceeds /\ i - 1 \in 1 .. LateN - 1 /\ (i - 1) + 1 = i
        BY <1>1, <2>1, <3>2
      <4>2. lateReports[i - 1] = 1
        BY <4>1 DEF LateRun
      <4> QED
        BY <2>1, <4>1, <4>2
    <3> QED
      BY <3>1, <3>2
  <2>5. ASSUME late' = 0
        PROVE  exceeds' <= lateSince' /\ (exceeds' < lateSince' => lateReports'[exceeds' + 1] = 0)
    <3>1. late = 0 /\ exceeds' = exceeds + 1 /\ exceeds + 1 < LateN
          /\ lateSince' = IF lateSince < LateN THEN lateSince + 1 ELSE lateSince
      BY <1>1, <2>1, <2>2, <2>5
    <3>2. exceeds <= lateSince /\ (exceeds < lateSince => lateReports[exceeds + 1] = 0)
      BY <3>1 DEF LateRun
    <3> QED
      BY <1>1, <2>1, <3>1, <3>2
  <2> QED
    BY <2>3, <2>4, <2>5 DEF LateRun
<1> QED
  BY <1>2, <1>3 DEF Verdict

-----------------------------------------------------------------------------
\* A line adds itself to the lines and, one check later, to the count.
LEMMA LinesStep ==
  ASSUME IInv, Next
  PROVE  LinesCounted' /\ statsLines' \in LateWindow!Window
<1>1. /\ CheckLatency /\ stats' \in {-1, 0, 1}
      /\ \/ stats' = stats /\ statsLines' = statsLines
         \/ stats' \in Verdict /\ statsLines' = LateWindow!Push(statsLines, stats')
  BY NextChecks DEF IInv, ReaderTypes
<1>2. LateTypes /\ exceeds \in 0 .. LateN /\ statsLines \in LateWindow!Window
  BY Depths DEF IInv, TypeOK, LateTypes
<1>3. /\ stats = -1 \/ stats = statsLines[1]
      /\ stats = -1 => statsLines[1] = 0
      /\ statsLines[1] = 0 => exceeds = 0
      /\ \A k \in 1 .. LateN : (\A i \in 1 .. k : statsLines[i] = 1) => k <= exceeds
  BY DEF IInv, LinesCounted
<1>4. CASE stats' = -1
  <2>1. exceeds' = exceeds /\ stats' = stats /\ statsLines' = statsLines
    BY <1>1, <1>4 DEF CheckLatency, lateAlarm, Verdict
  <2> QED
    BY <1>2, <1>3, <2>1 DEF LinesCounted
<1>5. CASE stats' \in Verdict /\ stats' = stats /\ statsLines' = statsLines
  <2>1. Measured(stats')
    BY <1>1, <1>2, <1>5, LateMeasured
  <2>2. stats' = statsLines'[1]
    BY <1>3, <1>5 DEF Verdict
  <2>3. CASE stats' = 0
    <3>1. exceeds' = 0 /\ statsLines'[1] = 0
      BY <2>1, <2>2, <2>3 DEF Measured
    <3> QED
      BY <1>2, <1>5, <2>2, <2>3, <3>1 DEF LinesCounted
  <2>4. CASE stats' = 1
    <3>1. exceeds' = (IF exceeds < LateN THEN exceeds + 1 ELSE exceeds) /\ statsLines'[1] = 1
      BY <2>1, <2>2, <2>4 DEF Measured
    <3>2. exceeds' >= exceeds /\ exceeds' \in Nat
      BY <1>2, <3>1
    <3>3. \A k \in 1 .. LateN : (\A i \in 1 .. k : statsLines'[i] = 1) => k <= exceeds'
      BY <1>2, <1>3, <1>5, <3>2
    <3> QED
      BY <1>2, <1>5, <2>2, <2>4, <3>1, <3>3 DEF LinesCounted
  <2> QED
    BY <1>5, <2>3, <2>4 DEF Verdict
<1>6. CASE stats' \in Verdict /\ statsLines' = LateWindow!Push(statsLines, stats')
  <2>1. Measured(stats')
    BY <1>1, <1>2, <1>6, LateMeasured
  <2>2. /\ statsLines' \in LateWindow!Window /\ statsLines'[1] = stats'
        /\ \A i \in 1 .. LateN - 1 : statsLines'[i + 1] = statsLines[i]
    BY <1>2, <1>6, LatePushed
  <2>3. CASE stats' = 0
    <3>1. exceeds' = 0
      BY <2>1, <2>3 DEF Measured
    <3> QED
      BY <2>2, <2>3, <3>1 DEF LinesCounted
  <2>4. CASE stats' = 1
    <3>1. exceeds' = (IF exceeds < LateN THEN exceeds + 1 ELSE exceeds)
      BY <2>1, <2>4 DEF Measured
    <3>2. ASSUME NEW k \in 1 .. LateN, \A i \in 1 .. k : statsLines'[i] = 1
          PROVE  k <= exceeds'
      <4>1. CASE k = 1
        BY <1>2, <3>1, <4>1
      <4>2. CASE k # 1
        <5>1. k - 1 \in 1 .. LateN
          BY <4>2
        <5>2. ASSUME NEW i \in 1 .. k - 1 PROVE statsLines[i] = 1
          <6>1. i \in 1 .. LateN - 1 /\ i + 1 \in 1 .. k
            OBVIOUS
          <6> QED
            BY <2>2, <3>2, <6>1
        <5>3. k - 1 <= exceeds
          BY <1>3, <5>1, <5>2
        <5> QED
          BY <1>2, <3>1, <5>1, <5>3
      <4> QED
        BY <4>1, <4>2
    <3> QED
      BY <2>2, <2>4, <3>2 DEF LinesCounted
  <2> QED
    BY <1>6, <2>3, <2>4 DEF Verdict
<1> QED
  BY <1>1, <1>4, <1>5, <1>6 DEF Verdict

-----------------------------------------------------------------------------
LEMMA InvInit == Init => IInv
<1> SUFFICES ASSUME Init PROVE IInv
  OBVIOUS
<1>1. /\ masterReports \in MasterWindow!Window
      /\ lateReports \in LateWindow!Window /\ statsLines \in LateWindow!Window
      /\ \A i \in 1 .. LateN : statsLines[i] = 0
  BY Depths DEF Init, MasterWindow!Window, LateWindow!Window, Verdict
<1>2. TypeOK
  BY <1>1, Depths DEF Init, TypeOK, Verdict
<1>3. MasterRun /\ LateRun
  BY DEF Init, MasterRun, LateRun
<1>4. LinesCounted
  <2>1. stats = -1 /\ exceeds = 0 /\ statsLines[1] = 0
    <3>1. 1 \in 1 .. LateN
      OBVIOUS
    <3> QED
      BY <1>1, <3>1 DEF Init
  <2>2. ASSUME NEW k \in 1 .. LateN PROVE ~(\A i \in 1 .. k : statsLines[i] = 1)
    <3>1. 1 \in 1 .. k
      OBVIOUS
    <3> QED
      BY <2>1, <3>1
  <2> QED
    BY <2>1, <2>2 DEF LinesCounted
<1> QED
  BY <1>2, <1>3, <1>4 DEF IInv

LEMMA Parts ==
  IInv => MasterTypes /\ LateTypes /\ MasterRun /\ LateRun
  BY Depths DEF IInv, TypeOK, MasterTypes, LateTypes

LEMMA InvStep == IInv /\ [Next]_vars => IInv'
<1> SUFFICES ASSUME IInv, [Next]_vars PROVE IInv'
  OBVIOUS
<1>1. CASE UNCHANGED vars
  <2> USE <1>1 DEF vars, state, masterAlarm, lateAlarm
  <2>1. TypeOK'
    BY DEF IInv, TypeOK
  <2>2. MasterRun' /\ LateRun' /\ LinesCounted'
    BY DEF IInv, MasterRun, LateRun, LinesCounted
  <2> QED
    BY <2>1, <2>2 DEF IInv
<1>2. CASE Next
  <2>1. ReaderTypes /\ CheckMaster /\ CheckLatency
    BY <1>2, NextChecks DEF IInv
  <2>2. MasterTypes' /\ MasterRun'
    BY <2>1, Parts, MasterRunStep
  <2>3. LinesCounted' /\ statsLines' \in LateWindow!Window
    BY <1>2, LinesStep
  <2>4. LateTypes' /\ LateRun'
    <3>1. CASE stats' = -1
      <4>1. lateAlarm' = lateAlarm
        BY <2>1, <3>1 DEF CheckLatency
      <4> QED
        BY <4>1, Parts DEF lateAlarm, LateTypes, LateRun
    <3>2. CASE stats' \in Verdict
      BY <2>1, <3>2, Parts, LateMeasured, LateRunStep
    <3> QED
      BY <2>1, <3>1, <3>2 DEF ReaderTypes, Verdict
  <2>5. TypeOK'
    BY <2>1, <2>2, <2>3, <2>4, Depths DEF TypeOK, MasterTypes, LateTypes, ReaderTypes
  <2> QED
    BY <2>2, <2>3, <2>4, <2>5 DEF IInv
<1> QED
  BY <1>1, <1>2

LEMMA Invariance == Spec => []IInv
  BY InvInit, InvStep, PTL DEF Spec

\* The counts keep their bounds: none survives the alarm it leads to or from.
THEOREM TypeCorrect == Spec => []TypeOK
  BY Invariance, PTL DEF IInv

\* Every excursion of max_consecutive statistics lines is alarmed, whatever
\* lines of the other daemon come between, and none whose last line is fine.
THEOREM ExcursionCorrect == Spec => []ExcursionSeen
<1>1. IInv => ExcursionSeen
  <2> SUFFICES ASSUME IInv PROVE ExcursionSeen
    OBVIOUS
  <2>1. /\ late \in {0, 1} /\ exceeds \in 0 .. LateN /\ (late = 1 <=> exceeds = LateN)
        /\ \A i \in 1 .. LateN : statsLines[i] \in {0, 1}
    BY Depths DEF IInv, TypeOK, LateWindow!Window, Verdict
  <2>2. ASSUME LateWindow!AllAbove(statsLines, LateN, 0) PROVE late = 1
    <3>1. \A i \in 1 .. LateN : statsLines[i] = 1
      BY <2>1, <2>2 DEF LateWindow!AllAbove
    <3>2. LateN <= exceeds
      BY <3>1 DEF IInv, LinesCounted
    <3> QED
      BY <2>1, <3>2
  <2>3. ASSUME statsLines[1] = 0 PROVE late = 0
    <3>1. exceeds = 0
      BY <2>3 DEF IInv, LinesCounted
    <3> QED
      BY <2>1, <3>1
  <2> QED
    BY <2>2, <2>3 DEF ExcursionSeen
<1> QED
  BY <1>1, Invariance, PTL

-----------------------------------------------------------------------------
(* Both alarms against Debounce *)

\* A check is a report to the master alarm, of which 1 is that the clock is
\* the local one.
LEMMA MasterReport ==
  ASSUME MasterTypes, MasterRun, CheckMaster
  PROVE  Master!DebounceNext
<1> DEFINE one(x) == [s \in {"gm"} |-> x]
<1>1. PICK local \in Verdict : Judged(local)
  BY MasterJudged DEF Judged
<1>2. /\ master \in {0, 1} /\ confirms \in 0 .. MasterClearN - 1 /\ masterSince \in 0 .. MasterClearN
      /\ masterReports' = MasterWindow!Push(masterReports, local)
      /\ masterReports'[1] = local
      /\ \A i \in 1 .. MasterClearN - 1 : masterReports'[i + 1] = masterReports[i]
      /\ \A i \in 1 .. MasterClearN : masterReports'[i] \in {0, 1}
      /\ masterSince' = IF master' = master THEN MasterWindow!Count(masterSince) ELSE 0
  BY <1>1, MasterJudged, Depths DEF MasterTypes, Verdict, Judged, MasterWindow!Window
<1>3. one(masterReports') = [one(masterReports) EXCEPT !["gm"] = Master!Push(masterReports, local)]
  BY <1>2 DEF Master!Push, Master!Depth, MasterWindow!Push, MasterWindow!Depth
<1>4. /\ one(master') = [one(master) EXCEPT !["gm"] = master']
      /\ one(masterSince') = [one(masterSince) EXCEPT !["gm"] = masterSince']
  OBVIOUS
<1>5. ASSUME master' # master, master' \in Verdict,
             \/ master = 0 /\ Master!AllAbove(masterReports', 1, master)
                           /\ Master!IsLeast(master', masterReports', 1)
             \/ /\ masterSince + 1 >= MasterClearN
                /\ Master!AllBelow(masterReports', MasterClearN, master)
                /\ Master!IsGreatest(master', masterReports', MasterClearN)
      PROVE  Master!Report("gm", local)
  <2>1. Master!Rise("gm", master') \/ Master!Fall("gm", master')
    BY <1>2, <1>5 DEF Master!Rise, Master!Fall
  <2>2. masterSince' = 0
    BY <1>2, <1>5
  <2> QED
    BY <1>3, <1>4, <1>5, <2>1, <2>2 DEF Master!Report
<1>6. ASSUME master' = master,
             ~Master!AllAbove(masterReports', 1, master),
             masterSince + 1 >= MasterClearN => ~Master!AllBelow(masterReports', MasterClearN, master)
      PROVE  Master!Report("gm", local)
  <2>1. Master!Stay("gm")
    BY <1>6 DEF Master!Stay
  <2>2. masterSince' = Master!Count(masterSince)
    BY <1>2, <1>6 DEF Master!Count, Master!Depth, MasterWindow!Count, MasterWindow!Depth
  <2> QED
    BY <1>3, <1>4, <1>6, <2>1, <2>2 DEF Master!Report
<1>7. CASE MasterLost /\ local = 1
  <2>1. master = 0 /\ master' = 1
    BY <1>7 DEF MasterLost
  <2> QED
    BY <1>2, <1>5, <1>7, <2>1
       DEF Master!AllAbove, Master!IsLeast, Verdict, Master!DebounceNext
<1>8. CASE (StillLocal /\ local = 1) \/ (NoAlarm /\ local = 0)
  <2>1. master' = master /\ master = local
    BY <1>8 DEF StillLocal, NoAlarm
  <2>2. ~Master!AllAbove(masterReports', 1, master) /\ ~Master!AllBelow(masterReports', MasterClearN, master)
    BY <1>2, <2>1 DEF Master!AllAbove, Master!AllBelow
  <2> QED
    BY <1>6, <2>1, <2>2 DEF Master!DebounceNext
<1>9. CASE Confirm /\ local = 0
  <2>1. master' = master /\ master = 1 /\ confirms + 1 < MasterClearN
    BY <1>9 DEF Confirm
  <2>2. ~Master!AllAbove(masterReports', 1, master)
    BY <1>2, <1>9, <2>1 DEF Master!AllAbove
  <2>3. ASSUME masterSince + 1 >= MasterClearN
        PROVE  ~Master!AllBelow(masterReports', MasterClearN, master)
    <3>1. confirms < masterSince /\ confirms + 1 \in 1 .. MasterClearN - 1
          /\ (confirms + 1) + 1 \in 1 .. MasterClearN
      BY <1>2, <2>1, <2>3
    <3>2. masterReports'[(confirms + 1) + 1] = 1
      BY <1>2, <2>1, <3>1 DEF MasterRun
    <3> QED
      BY <2>1, <3>1, <3>2 DEF Master!AllBelow
  <2> QED
    BY <1>6, <2>1, <2>2, <2>3 DEF Master!DebounceNext
<1>10. CASE MasterBack /\ local = 0
  <2>1. master = 1 /\ master' = 0 /\ confirms + 1 = MasterClearN
    BY <1>2, <1>10 DEF MasterBack
  <2>2. /\ confirms <= masterSince
        /\ \A i \in 1 .. confirms : masterReports[i] = 0
    BY <2>1 DEF MasterRun
  <2>3. ASSUME NEW i \in 1 .. MasterClearN PROVE masterReports'[i] = 0
    <3>1. CASE i = 1
      BY <1>2, <1>10, <3>1
    <3>2. CASE i # 1
      <4>1. i - 1 \in 1 .. confirms /\ i - 1 \in 1 .. MasterClearN - 1 /\ (i - 1) + 1 = i
        BY <1>2, <2>1, <3>2
      <4> QED
        BY <1>2, <2>2, <4>1
    <3> QED
      BY <3>1, <3>2
  <2>4. masterSince + 1 >= MasterClearN
    BY <1>2, <2>1, <2>2
  <2>5. Master!AllBelow(masterReports', MasterClearN, master)
        /\ Master!IsGreatest(master', masterReports', MasterClearN)
    <3>1. 1 \in 1 .. MasterClearN
      OBVIOUS
    <3> QED
      BY <2>1, <2>3, <3>1 DEF Master!AllBelow, Master!IsGreatest
  <2> QED
    BY <1>5, <2>1, <2>4, <2>5 DEF Verdict, Master!DebounceNext
<1> QED
  BY <1>1, <1>7, <1>8, <1>9, <1>10 DEF Judged

\* A snapshot with statistics is a report to the latency alarm, of which 1 is
\* that it lies above the limit.
LEMMA LateReport ==
  ASSUME LateTypes, LateRun, NEW v \in Verdict, Measured(v)
  PROVE  Late!DebounceNext
<1> DEFINE one(x) == [s \in {"max"} |-> x]
<1>1. /\ late \in {0, 1} /\ exceeds \in 0 .. LateN /\ lateSince \in 0 .. LateN
      /\ late = 1 <=> exceeds = LateN
      /\ lateReports' = LateWindow!Push(lateReports, v)
      /\ lateReports'[1] = v
      /\ \A i \in 1 .. LateN - 1 : lateReports'[i + 1] = lateReports[i]
      /\ \A i \in 1 .. LateN : lateReports'[i] \in {0, 1}
      /\ lateSince' = IF late' = late THEN LateWindow!Count(lateSince) ELSE 0
  BY Depths DEF LateTypes, Verdict, Measured, LateWindow!Window
<1>2. one(lateReports') = [one(lateReports) EXCEPT !["max"] = Late!Push(lateReports, v)]
  BY <1>1 DEF Late!Push, Late!Depth, LateWindow!Push, LateWindow!Depth
<1>3. /\ one(late') = [one(late) EXCEPT !["max"] = late']
      /\ one(lateSince') = [one(lateSince) EXCEPT !["max"] = lateSince']
  OBVIOUS
<1>4. ASSUME late' # late, late' \in Verdict,
             \/ /\ lateSince + 1 >= LateN
                /\ Late!AllAbove(lateReports', LateN, late)
                /\ Late!IsLeast(late', lateReports', LateN)
             \/ /\ Late!AllBelow(lateReports', 1, late)
                /\ Late!IsGreatest(late', lateReports', 1)
      PROVE  Late!Report("max", v)
  <2>1. Late!Rise("max", late') \/ Late!Fall("max", late')
    BY <1>1, <1>4 DEF Late!Rise, Late!Fall
  <2>2. lateSince' = 0
    BY <1>1, <1>4
  <2> QED
    BY <1>2, <1>3, <1>4, <2>1, <2>2 DEF Late!Report
<1>5. ASSUME late' = late,
             lateSince + 1 >= LateN => ~Late!AllAbove(lateReports', LateN, late),
             ~Late!AllBelow(lateReports', 1, late)
      PROVE  Late!Report("max", v)
  <2>1. Late!Stay("max")
    BY <1>5 DEF Late!Stay
  <2>2. lateSince' = Late!Count(lateSince)
    BY <1>1, <1>5 DEF Late!Count, Late!Depth, LateWindow!Count, LateWindow!Depth
  <2> QED
    BY <1>2, <1>3, <1>5, <2>1, <2>2 DEF Late!Report
<1>6. CASE v = 0
  <2>1. late' = 0 /\ lateReports'[1] = 0
    BY <1>6 DEF Measured
  <2>2. CASE late = 0
    BY <1>5, <2>1, <2>2 DEF Late!AllAbove, Late!AllBelow, Late!DebounceNext
  <2>3. CASE late = 1
    BY <1>4, <2>1, <2>3 DEF Late!AllBelow, Late!IsGreatest, Verdict, Late!DebounceNext
  <2> QED
    BY <1>1, <2>2, <2>3
<1>7. CASE v = 1
  <2>1. /\ exceeds' = (IF exceeds < LateN THEN exceeds + 1 ELSE exceeds)
        /\ late' = (IF exceeds' >= LateN THEN 1 ELSE late)
        /\ lateReports'[1] = 1
    BY <1>7 DEF Measured
  <2>2. CASE late = 1
    <3>1. late' = late
      BY <1>1, <2>1, <2>2
    <3>2. 1 \in 1 .. LateN
      OBVIOUS
    <3> QED
      BY <1>5, <2>1, <2>2, <3>1, <3>2 DEF Late!AllAbove, Late!AllBelow, Late!DebounceNext
  <2>3. CASE late = 0
    <3>1. /\ exceeds < LateN /\ exceeds' = exceeds + 1
          /\ exceeds <= lateSince
          /\ exceeds < lateSince => lateReports[exceeds + 1] = 0
          /\ \A i \in 1 .. exceeds : lateReports[i] = 1
      BY <1>1, <2>1, <2>3 DEF LateRun
    <3>2. CASE exceeds + 1 < LateN
      <4>1. late' = late
        BY <1>1, <2>1, <2>3, <3>1, <3>2
      <4>2. ~Late!AllBelow(lateReports', 1, late)
        BY <2>1, <2>3 DEF Late!AllBelow
      <4>3. ASSUME lateSince + 1 >= LateN PROVE ~Late!AllAbove(lateReports', LateN, late)
        <5>1. exceeds < lateSince /\ exceeds + 1 \in 1 .. LateN - 1
              /\ (exceeds + 1) + 1 \in 1 .. LateN
          BY <1>1, <3>2, <4>3
        <5>2. lateReports'[(exceeds + 1) + 1] = 0
          BY <1>1, <3>1, <5>1
        <5> QED
          BY <2>3, <5>1, <5>2 DEF Late!AllAbove
      <4> QED
        BY <1>5, <4>1, <4>2, <4>3 DEF Late!DebounceNext
    <3>3. CASE exceeds + 1 = LateN
      <4>1. late' = 1 /\ lateSince + 1 >= LateN
        BY <1>1, <2>1, <3>1, <3>3
      <4>2. ASSUME NEW i \in 1 .. LateN PROVE lateReports'[i] = 1
        <5>1. CASE i = 1
          BY <2>1, <5>1
        <5>2. CASE i # 1
          <6>1. i - 1 \in 1 .. exceeds /\ i - 1 \in 1 .. LateN - 1 /\ (i - 1) + 1 = i
            BY <1>1, <3>3, <5>2
          <6> QED
            BY <1>1, <3>1, <6>1
        <5> QED
          BY <5>1, <5>2
      <4>3. Late!AllAbove(lateReports', LateN, late) /\ Late!IsLeast(late', lateReports', LateN)
        <5>1. 1 \in 1 .. LateN
          OBVIOUS
        <5> QED
          BY <2>3, <4>1, <4>2, <5>1 DEF Late!AllAbove, Late!IsLeast
      <4> QED
        BY <1>4, <2>3, <4>1, <4>3 DEF Verdict, Late!DebounceNext
    <3> QED
      BY <1>1, <3>1, <3>2, <3>3
  <2> QED
    BY <1>1, <2>2, <2>3
<1> QED
  BY <1>6, <1>7 DEF Verdict

LEMMA MasterRefines == IInv /\ [Next]_vars => [Master!DebounceNext]_(Master!debounce)
<1> SUFFICES ASSUME IInv, [Next]_vars PROVE [Master!DebounceNext]_(Master!debounce)
  OBVIOUS
<1>1. CASE UNCHANGED vars
  BY <1>1 DEF vars, masterAlarm, Master!debounce
<1>2. CASE Next
  BY <1>2, NextChecks, Parts, MasterReport DEF IInv
<1> QED
  BY <1>1, <1>2

LEMMA LateRefines == IInv /\ [Next]_vars => [Late!DebounceNext]_(Late!debounce)
<1> SUFFICES ASSUME IInv, [Next]_vars PROVE [Late!DebounceNext]_(Late!debounce)
  OBVIOUS
<1>1. CASE UNCHANGED vars
  BY <1>1 DEF vars, lateAlarm, Late!debounce
<1>2. CASE Next
  <2>1. CheckLatency /\ stats' \in {-1, 0, 1} /\ LateTypes /\ LateRun
    BY <1>2, NextChecks, Parts DEF IInv, ReaderTypes
  <2>2. CASE stats' = -1
    BY <2>1, <2>2 DEF CheckLatency, lateAlarm, Late!debounce
  <2>3. CASE stats' \in Verdict
    BY <2>1, <2>3, LateMeasured, LateReport
  <2> QED
    BY <2>1, <2>2, <2>3 DEF Verdict
<1> QED
  BY <1>1, <1>2

\* Both alarms debounce what the snapshots carry, as the reports themselves
\* define it: the lost grandmaster at once and back after a run, the latency
\* after a run and back at once.
THEOREM DebounceCorrect == Spec => Debounced
<1>1. Init => Master!DebounceInit /\ Late!DebounceInit
  BY Depths DEF Init, Master!DebounceInit, Late!DebounceInit, Master!Depth, Late!Depth,
     MasterWindow!Depth, LateWindow!Depth
<1> QED
  BY <1>1, MasterRefines, LateRefines, Invariance, PTL
     DEF Spec, Debounced, Master!DebounceSpec, Late!DebounceSpec
=============================================================================
