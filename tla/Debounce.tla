------------------------------ MODULE Debounce ------------------------------
(***************************************************************************)
(* What debouncing means, told from the reports themselves: a source's     *)
(* level rises when its RaiseN latest reports since the last change all    *)
(* lie above it, to the lowest of them; it falls when the ClearN latest    *)
(* all lie below it, to the highest of them; and not otherwise.            *)
(***************************************************************************)
EXTENDS ReportWindow

CONSTANT Source

VARIABLES level,     \* the debounced severity of each source
          recent,    \* its latest reports
          since      \* how many of them came after the last change of level

debounce == <<level, recent, since>>

DebounceInit ==
  /\ level = [s \in Source |-> 0]
  /\ recent = [s \in Source |-> [i \in 1 .. Depth |-> 0]]
  /\ since = [s \in Source |-> 0]

Rise(s, v) ==
  /\ since[s] + 1 >= RaiseN
  /\ AllAbove(recent'[s], RaiseN, level[s])
  /\ IsLeast(v, recent'[s], RaiseN)

Fall(s, v) ==
  /\ since[s] + 1 >= ClearN
  /\ AllBelow(recent'[s], ClearN, level[s])
  /\ IsGreatest(v, recent'[s], ClearN)

Stay(s) ==
  /\ since[s] + 1 >= RaiseN => ~AllAbove(recent'[s], RaiseN, level[s])
  /\ since[s] + 1 >= ClearN => ~AllBelow(recent'[s], ClearN, level[s])

Report(s, r) ==
  /\ recent' = [recent EXCEPT ![s] = Push(recent[s], r)]
  /\ \/ \E v \in Severity :
          /\ Rise(s, v) \/ Fall(s, v)
          /\ level' = [level EXCEPT ![s] = v]
          /\ since' = [since EXCEPT ![s] = 0]
     \/ /\ Stay(s)
        /\ UNCHANGED level
        /\ since' = [since EXCEPT ![s] = Count(since[s])]

DebounceNext == \E s \in Source, r \in Severity : Report(s, r)

DebounceSpec == DebounceInit /\ [][DebounceNext]_debounce
=============================================================================
