---------------------------- MODULE ReportWindow ----------------------------
(***************************************************************************)
(* The latest reports of a source, newest first, and what a window of them *)
(* says about a severity level.  Severities are ranks, 0 is CLEARED.       *)
(***************************************************************************)
EXTENDS Integers

CONSTANTS Severity,    \* the ranks a report may have
          RaiseN,      \* raise_consecutive
          ClearN       \* clear_consecutive

ASSUME WindowAssumption ==
  /\ Severity \subseteq Nat /\ 0 \in Severity
  /\ RaiseN \in Nat \ {0} /\ ClearN \in Nat \ {0}

Depth == IF RaiseN > ClearN THEN RaiseN ELSE ClearN
Window == [1 .. Depth -> Severity]

Push(w, r) == [i \in 1 .. Depth |-> IF i = 1 THEN r ELSE w[i - 1]]

\* Reports since an event, as far as any decision looks back.
Count(n) == IF n < Depth THEN n + 1 ELSE n

AllAbove(w, n, level) == \A i \in 1 .. n : w[i] > level
AllBelow(w, n, level) == \A i \in 1 .. n : w[i] < level

\* v is the least, or the greatest, of the n newest reports.
IsLeast(v, w, n) ==
  (\E i \in 1 .. n : v = w[i]) /\ (\A i \in 1 .. n : v <= w[i])
IsGreatest(v, w, n) ==
  (\E i \in 1 .. n : v = w[i]) /\ (\A i \in 1 .. n : w[i] <= v)
=============================================================================
