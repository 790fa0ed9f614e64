----------------------------- MODULE MCPmFiles -----------------------------
(* Two jobs that may share the longer periods or have the shorter ones. *)
EXTENDS PmFiles

MCPeriods == {[gran |-> 1, file |-> 2], [gran |-> 2, file |-> 4]}
=============================================================================
