------------------------------ MODULE PmFiles ------------------------------
(***************************************************************************)
(* File-based performance reporting (pm_files.py), fed by the metric       *)
(* reports of the gNB and the O-RU (pm_metrics.py, _stream_metrics).  A    *)
(* loop closes granularity periods and files on wall-clock boundaries; it  *)
(* runs on the event loop, where reports and changes of the jobs can only  *)
(* come while it sleeps or while a thread publishes a file.                *)
(*                                                                         *)
(* A job is Locked or has its two periods; a report is its number.  What a *)
(* file shows of a period's samples is their mean.  Jobs that stream, and  *)
(* what is filtered out for a job, leave no trace here.                    *)
(*                                                                         *)
(* at, accepted and dropped are for the properties.                        *)
(***************************************************************************)
EXTENDS Integers, Sequences, FiniteSets

CONSTANTS Job,
          Locked,
          Periods,       \* [gran, file], in seconds
          MaxTime,       \* bound: the clock, on a boundary of all
          MaxReports,    \* bound
          MaxChanges     \* bound: changes of a job's configuration

ASSUME PmAssumption ==
  /\ \A p \in Periods : p.gran \in Nat \ {0} /\ p.file \in Nat \ {0} /\ p.file % p.gran = 0
  /\ Locked \notin Periods \cup Job
  /\ MaxTime \in Nat /\ MaxReports \in Nat /\ MaxChanges \in Nat

VARIABLES
  time,        \* the wall clock
  pmJobs,      \* state.pm_jobs
  tracked,     \* _jobs: the jobs that are collected for
  collected,   \* and the collection state of each
  phase,       \* where run is
  now,         \* the clock as run read it at the start of its round
  active,      \* _sync_jobs' result: the jobs of the round, as configured then
  left,        \* those still to be looked at
  publishing,  \* the file a thread writes and announces
  files,       \* those written and announced
  at,          \* when each report came
  accepted,    \* the reports buffered for a job
  dropped,     \* those discarded with a collection state
  changes

round == <<now, active, left>>
filesVars == <<time, pmJobs, tracked, collected, phase, round, publishing, files, at, accepted, dropped, changes>>

Report == 1 .. MaxReports
NoFile == [job |-> Locked]

\* The first multiple of period after t.
NextBoundary(t, period) == (t \div period + 1) * period

\* _jobs[job] of a job that starts, or starts over, at t.
Fresh(key, t) ==
  [key |-> key, samples |-> {}, periods |-> {}, begin |-> t,
   periodEnd |-> NextBoundary(t, key.gran), fileEnd |-> NextBoundary(t, key.file)]

Uncollected == [samples |-> {}, periods |-> {}]

\* The boundaries ahead of a job are ahead of the last round, but for a job
\* that the round still has to look at; a period ends within its file.
FilesTypeOK ==
  /\ time \in 0 .. MaxTime /\ now \in -1 .. time
  /\ pmJobs \in [Job -> Periods \cup {Locked}] /\ active \in [Job -> Periods \cup {Locked}]
  /\ left \subseteq tracked
  /\ phase \in {"asleep", "round", "publishing", "ended"}
  /\ publishing # NoFile <=> phase = "publishing"
  /\ \A j \in tracked :
       /\ collected[j].samples \subseteq Report
       /\ j \notin left => collected[j].periodEnd > now
       /\ collected[j].begin < collected[j].fileEnd
       /\ collected[j].periodEnd <= collected[j].fileEnd

FilesInit ==
  /\ time = 0 /\ now = -1 /\ phase = "asleep"
  /\ pmJobs \in [Job -> Periods \cup {Locked}]
  /\ tracked = {} /\ collected = [j \in Job |-> Uncollected]
  /\ active = [j \in Job |-> Locked] /\ left = {}
  /\ publishing = NoFile /\ files = {}
  /\ at = <<>> /\ accepted = [j \in Job |-> {}] /\ dropped = [j \in Job |-> {}]
  /\ changes = 0

-----------------------------------------------------------------------------
(* What happens while run sleeps or waits *)

LoopFree == phase \in {"asleep", "publishing"}

\* The rounds are a second apart, a publication may take longer.
Tick ==
  /\ LoopFree /\ time < MaxTime
  /\ time' = time + 1
  /\ UNCHANGED <<pmJobs, tracked, collected, phase, round, publishing, files, at, accepted, dropped, changes>>

Change(j, periods) ==
  /\ LoopFree /\ changes < MaxChanges
  /\ pmJobs[j] # periods
  /\ pmJobs' = [pmJobs EXCEPT ![j] = periods]
  /\ changes' = changes + 1
  /\ UNCHANGED <<time, tracked, collected, phase, round, publishing, files, at, accepted, dropped>>

\* add_samples: a job that is not collected for yet misses the report.
Buffered == {j \in tracked : pmJobs[j] # Locked}

Arrive ==
  /\ LoopFree /\ Len(at) < MaxReports /\ time < MaxTime
  /\ LET r == Len(at) + 1
     IN /\ at' = Append(at, time)
        /\ collected' = [j \in Job |->
             IF j \in Buffered THEN [collected[j] EXCEPT !.samples = @ \cup {r}] ELSE collected[j]]
        /\ accepted' = [j \in Job |-> IF j \in Buffered THEN accepted[j] \cup {r} ELSE accepted[j]]
  /\ UNCHANGED <<time, pmJobs, tracked, phase, round, publishing, files, dropped, changes>>

-----------------------------------------------------------------------------
(* run *)

Held(c) == c.samples \cup UNION {p.samples : p \in c.periods}

Unlocked == {j \in Job : pmJobs[j] # Locked}

\* Slip: a job whose periods change keeps its samples.
ResyncedKeeping(j, t) ==
  IF j \in tracked /\ collected[j].key = pmJobs[j] THEN collected[j]
  ELSE [Fresh(pmJobs[j], t) EXCEPT !.samples = collected[j].samples]

Resynced(j, t) ==
  IF j \in tracked /\ collected[j].key = pmJobs[j] THEN collected[j] ELSE Fresh(pmJobs[j], t)

\* _sync_jobs: what is no longer collected for, or starts over, is discarded.
StartRound ==
  /\ phase = "asleep" /\ now # time
  /\ phase' = "round" /\ now' = time
  /\ active' = pmJobs /\ tracked' = Unlocked /\ left' = Unlocked
  /\ collected' = [j \in Job |-> IF j \in Unlocked THEN Resynced(j, time) ELSE Uncollected]
  /\ dropped' = [j \in Job |-> dropped[j] \cup (Held(collected[j]) \ Held(collected'[j]))]
  /\ UNCHANGED <<time, pmJobs, publishing, files, at, accepted, changes>>

\* Slip: the samples of the period stay for the next one.
PeriodClosedKeeping(c) ==
  IF now < c.periodEnd THEN c
  ELSE [c EXCEPT !.periods = IF c.samples = {} THEN @ ELSE @ \cup {[end |-> c.periodEnd, samples |-> c.samples]},
                 !.periodEnd = NextBoundary(now, c.key.gran)]

PeriodClosed(c) ==
  IF now < c.periodEnd THEN c
  ELSE [c EXCEPT !.periods = IF c.samples = {} THEN @ ELSE @ \cup {[end |-> c.periodEnd, samples |-> c.samples]},
                 !.samples = {},
                 !.periodEnd = NextBoundary(now, c.key.gran)]

\* Slip: the next file begins where this one did.
FileClosedKeepingBegin(c) ==
  [c EXCEPT !.periods = {}, !.fileEnd = NextBoundary(now, c.key.file)]

FileClosed(c) ==
  [c EXCEPT !.periods = {}, !.begin = c.fileEnd, !.fileEnd = NextBoundary(now, c.key.file)]

\* Slip: the file ends after its boundary, not on it.
FileDueLater(c) == now > c.fileEnd

FileDue(c) == now >= c.fileEnd

\* A job of the round: its period, then its file; a file without periods is
\* not published.
Close(j) ==
  LET c == PeriodClosed(collected[j])
  IN /\ phase = "round" /\ j \in left
     /\ left' = left \ {j}
     /\ collected' = [collected EXCEPT ![j] = IF FileDue(c) THEN FileClosed(c) ELSE c]
     /\ IF FileDue(c) /\ c.periods # {}
        THEN /\ publishing' = [job |-> j, begin |-> c.begin, end |-> c.fileEnd, gran |-> c.key.gran, periods |-> c.periods]
             /\ phase' = "publishing"
        ELSE UNCHANGED <<publishing, phase>>
     /\ UNCHANGED <<time, pmJobs, tracked, now, active, files, at, accepted, dropped, changes>>

Published ==
  /\ phase = "publishing"
  /\ files' = files \cup {publishing}
  /\ publishing' = NoFile /\ phase' = "round"
  /\ UNCHANGED <<time, pmJobs, tracked, collected, round, at, accepted, dropped, changes>>

\* The directory cannot be written: the exception ends run, and the adapter.
PublishFails ==
  /\ phase = "publishing"
  /\ publishing' = NoFile /\ phase' = "ended"
  /\ UNCHANGED <<time, pmJobs, tracked, collected, round, files, at, accepted, dropped, changes>>

EndRound ==
  /\ phase = "round" /\ left = {}
  /\ phase' = "asleep"
  /\ UNCHANGED <<time, pmJobs, tracked, collected, round, publishing, files, at, accepted, dropped, changes>>

Run == StartRound \/ (\E j \in Job : Close(j)) \/ Published \/ PublishFails \/ EndRound

FilesNext ==
  \/ Tick \/ Arrive \/ Run
  \/ \E j \in Job, periods \in Periods \cup {Locked} : Change(j, periods)

FilesSpec == FilesInit /\ [][FilesNext]_filesVars

\* Time passes, and run goes on.
FairFiles == FilesSpec /\ WF_filesVars(Tick) /\ WF_filesVars(Run)

-----------------------------------------------------------------------------
FilesOf(j) == {f \in files \cup {publishing} : f.job = j}

\* Where a report is, for job j.
Places(j, r) ==
  {<<"buffer", 0, 0>> : x \in {1 : y \in collected[j].samples \cap {r}}}
    \cup {<<"period", 0, p.end>> : p \in {q \in collected[j].periods : r \in q.samples}}
    \cup (UNION {{<<"file", f.begin, p.end>> : p \in {q \in f.periods : r \in q.samples}} : f \in FilesOf(j)})
    \cup {<<"dropped", 0, 0>> : x \in dropped[j] \cap {r}}

(***************************************************************************)
(* A report a job has accepted is in one place, and gets into one period   *)
(* of one file: none is lost or reported twice, though reports come while  *)
(* another job's file is published (add_samples, run).                     *)
(***************************************************************************)
OneFile == phase # "ended" => \A j \in Job : \A r \in accepted[j] : Cardinality(Places(j, r)) = 1

(***************************************************************************)
(* The files of a job do not overlap, also when it is locked and unlocked  *)
(* or its periods change, and each has the periods that end in it (run     *)
(* closes the period first).                                               *)
(***************************************************************************)
FilesTile ==
  \A j \in Job : \A f \in FilesOf(j) :
    /\ \A g \in FilesOf(j) \ {f} : f.end <= g.begin \/ g.end <= f.begin
    /\ \A p \in f.periods : f.begin < p.end /\ p.end <= f.end

(***************************************************************************)
(* No period reports a sample from before it began, however late it was    *)
(* closed (a job whose periods change starts over).  It may report one     *)
(* from after its end, as rounds are a second apart and wait for files.    *)
(***************************************************************************)
NotBeforeItsPeriod ==
  \A j \in Job : \A f \in FilesOf(j) : \A p \in f.periods : \A r \in p.samples :
    at[r] >= p.end - f.gran

(***************************************************************************)
(* Whatever was accepted is published in the end, unless its job changed   *)
(* or the adapter ended: boundaries missed while a file was being          *)
(* published are made up for (_next_boundary, run).                        *)
(***************************************************************************)
AllPublished == <>[](phase = "ended" \/ \A j \in tracked : Held(collected[j]) = {})
=============================================================================
