---------------------------- MODULE FailureRatio ----------------------------
(***************************************************************************)
(* The failure ratio of one source (metrics_monitor.py, _check_failures):  *)
(* the gNB counts attempts and failures per cause from its start; a report *)
(* carries the counts, and the monitor gathers their increase in a window  *)
(* that is judged once enough attempts are in it.  Reports may be lost and *)
(* the gNB may restart, which the monitor only sees when the attempts have *)
(* gone down.  An older gNB counts the successes and not the failures: for *)
(* RRC establishments those are then the attempts not, or not yet,         *)
(* successful, a count that also goes down.                                *)
(*                                                                         *)
(* atts, tried and fails record what really happened since the baseline,   *)
(* inFlight the attempts that had not ended then, judged and judgedAtts    *)
(* what was handed over in windows, for the properties.                    *)
(***************************************************************************)
EXTENDS Integers, Functions

CONSTANTS Cause,
          MinAttempts,    \* attempts a window is judged over
          FailPercent,    \* failed attempts, in percent, that are still fine
          MaxAttempts,    \* bound: attempts one gNB lifetime counts
          MaxRestarts     \* bound: restarts that go unnoticed

ASSUME RatioAssumption ==
  /\ MinAttempts \in Nat /\ FailPercent \in Nat /\ MaxAttempts \in Nat /\ MaxRestarts \in Nat

VARIABLES
  older,                  \* whether the gNB reports no failures
  attempted, failed,      \* the gNB's counters
  pending,                \* its attempts that have not ended
  last,                   \* the counts last reported, or NoBaseline
  windowAttempted, windowFailed,
  verdict,                \* severity of the window judged last, 0 when clean
  atts, tried, fails,     \* since the baseline: attempts, those of each cause, failures
  inFlight,               \* attempts pending at the baseline
  judgedAtts, judged,     \* those in windows that were judged
  restarts                \* restarts of the gNB since the baseline

gnb == <<older, attempted, failed, pending>>
window == <<windowAttempted, windowFailed>>
since0 == <<atts, tried, fails, inFlight, restarts>>
record == <<since0, judgedAtts, judged>>
ratioVars == <<gnb, last, window, verdict, record>>

NoBaseline == [attempted |-> -1, failed |-> [c \in Cause |-> 0]]
Nothing == [c \in Cause |-> 0]
Counts == [Cause -> Nat]

\* No window that is full stays unjudged.
RatioTypeOK ==
  /\ older \in BOOLEAN /\ attempted \in Nat /\ failed \in Counts /\ pending \in Counts
  /\ last \in [attempted : Nat, failed : Counts] \cup {NoBaseline}
  /\ windowAttempted \in 0 .. (IF MinAttempts > 1 THEN MinAttempts ELSE 1) - 1
  /\ windowFailed \in Counts
  /\ verdict \in {0, 3, 4}
  /\ atts \in Nat /\ tried \in Counts /\ fails \in Counts /\ inFlight \in Counts
  /\ judgedAtts \in Nat /\ judged \in Counts
  /\ restarts \in Nat

RatioInit ==
  /\ older \in BOOLEAN
  /\ attempted = 0 /\ failed = Nothing /\ pending = Nothing
  /\ last = NoBaseline
  /\ windowAttempted = 0 /\ windowFailed = Nothing
  /\ verdict = 0
  /\ atts = 0 /\ tried = Nothing /\ fails = Nothing /\ inFlight = Nothing
  /\ judgedAtts = 0 /\ judged = Nothing
  /\ restarts = 0

Sum(f) == FoldFunction(+, 0, f)

-----------------------------------------------------------------------------
(* The gNB *)

Plus(counts, c) == [counts EXCEPT ![c] = @ + 1]
Minus(counts, c) == [counts EXCEPT ![c] = @ - 1]

\* An attempt, of the cause it is counted under should it fail.
Attempt(c) ==
  /\ attempted < MaxAttempts
  /\ attempted' = attempted + 1 /\ pending' = Plus(pending, c)
  /\ atts' = atts + 1 /\ tried' = Plus(tried, c)
  /\ UNCHANGED <<older, failed, last, window, verdict, fails, inFlight, judgedAtts, judged, restarts>>

\* It may end long after it was reported.
Fail(c) ==
  /\ pending[c] > 0
  /\ pending' = Minus(pending, c)
  /\ failed' = Plus(failed, c) /\ fails' = Plus(fails, c)
  /\ UNCHANGED <<older, attempted, last, window, verdict, atts, tried, inFlight, judgedAtts, judged,
                 restarts>>

\* Only what an older gNB reports tells it from an attempt without an end.
Succeed(c) ==
  /\ older /\ pending[c] > 0
  /\ pending' = Minus(pending, c)
  /\ UNCHANGED <<older, attempted, failed, last, window, verdict, record>>

Restart ==
  /\ attempted > 0 /\ restarts < MaxRestarts
  /\ attempted' = 0 /\ failed' = Nothing /\ pending' = Nothing
  /\ restarts' = restarts + 1
  /\ UNCHANGED <<older, last, window, verdict, atts, tried, fails, inFlight, judgedAtts, judged>>

-----------------------------------------------------------------------------
(* The monitor *)

\* The failures a report comes to: those the gNB counts, or the attempts of
\* each cause that are not among its successes (_check_rrc_establishments).
Told == IF older THEN [c \in Cause |-> failed[c] + pending[c]] ELSE failed

\* The first report, or one that shows a restart: a new baseline, nothing is
\* judged and what the window had gathered is dropped.
Baseline ==
  /\ last = NoBaseline \/ attempted < last.attempted
  /\ last' = [attempted |-> attempted, failed |-> Told]
  /\ windowAttempted' = 0 /\ windowFailed' = Nothing
  /\ atts' = 0 /\ tried' = Nothing /\ fails' = Nothing /\ inFlight' = pending
  /\ judgedAtts' = 0 /\ judged' = Nothing
  /\ restarts' = 0
  /\ UNCHANGED <<gnb, verdict>>

\* The increase of a counter; a cause whose count went down adds nothing.
Rise(now, before) == IF now > before THEN now - before ELSE 0

\* _failure_breach
Verdict(nofAttempted, nofFailed) ==
  IF 100 * nofFailed <= FailPercent * nofAttempted THEN 0
  ELSE IF nofFailed >= nofAttempted THEN 4 ELSE 3

Full(n) == n >= MinAttempts /\ n >= 1

\* Slip: the failures of a window that was judged stay in the next one.
JudgeKeepingFailures(n, f) ==
  IF Full(n)
  THEN /\ verdict' = Verdict(n, Sum(f))
       /\ windowAttempted' = 0 /\ windowFailed' = f
       /\ judgedAtts' = judgedAtts + n
       /\ judged' = [c \in Cause |-> judged[c] + f[c]]
  ELSE /\ windowAttempted' = n /\ windowFailed' = f
       /\ UNCHANGED <<verdict, judgedAtts, judged>>

\* A window of n attempts and f failures is judged and started anew, or kept.
Judge(n, f) ==
  IF Full(n)
  THEN /\ verdict' = Verdict(n, Sum(f))
       /\ windowAttempted' = 0 /\ windowFailed' = Nothing
       /\ judgedAtts' = judgedAtts + n
       /\ judged' = [c \in Cause |-> judged[c] + f[c]]
  ELSE /\ windowAttempted' = n /\ windowFailed' = f
       /\ UNCHANGED <<verdict, judgedAtts, judged>>

\* Slip: the counts are only remembered when a window was judged.
GatherFromJudged ==
  LET n == windowAttempted + attempted - last.attempted
  IN /\ last # NoBaseline /\ attempted >= last.attempted
     /\ Judge(n, [c \in Cause |-> windowFailed[c] + Rise(Told[c], last.failed[c])])
     /\ last' = IF Full(n) THEN [attempted |-> attempted, failed |-> Told] ELSE last
     /\ UNCHANGED <<gnb, since0>>

\* Any other report: the increase joins the window.
Gather ==
  /\ last # NoBaseline /\ attempted >= last.attempted
  /\ Judge(windowAttempted + attempted - last.attempted,
           [c \in Cause |-> windowFailed[c] + Rise(Told[c], last.failed[c])])
  /\ last' = [attempted |-> attempted, failed |-> Told]
  /\ UNCHANGED <<gnb, since0>>

RatioNext ==
  \/ (\E c \in Cause : Attempt(c) \/ Fail(c) \/ Succeed(c)) \/ Restart
  \/ Baseline \/ Gather

RatioSpec == RatioInit /\ [][RatioNext]_ratioVars

-----------------------------------------------------------------------------
(***************************************************************************)
(* No failure is judged that did not happen, and none twice, even when a   *)
(* restart of the gNB goes unnoticed because its new count has overtaken   *)
(* the one last reported (_CumulativeFailures.add).  With an older gNB the *)
(* attempts still in flight are judged as failures, but no attempt twice   *)
(* and none made before the baseline.                                      *)
(***************************************************************************)
NoPhantomFailures ==
  last # NoBaseline =>
    /\ judgedAtts + windowAttempted <= atts
    /\ \A c \in Cause : judged[c] + windowFailed[c] <= IF older THEN tried[c] ELSE fails[c]

(***************************************************************************)
(* As long as the gNB does not restart, lost reports lose nothing: all     *)
(* that happened up to the last report has been judged or is in the        *)
(* window.  With an older gNB a failure is missed when an attempt reported *)
(* before it succeeds unseen, but of a cause never more than were in       *)
(* flight at the baseline: every other such attempt was itself judged.     *)
(***************************************************************************)
LostReportsLoseNothing ==
  last # NoBaseline /\ restarts = 0 =>
    /\ judgedAtts + windowAttempted + (attempted - last.attempted) = atts
    /\ \A c \in Cause :
         LET seen == judged[c] + windowFailed[c] + (Told[c] - last.failed[c])
         IN IF older THEN seen >= fails[c] + pending[c] - inFlight[c] ELSE seen = fails[c]
=============================================================================
