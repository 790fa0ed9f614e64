-------------------------- MODULE MCMplaneSession --------------------------
(* The M-plane session on small timers: an interval of two ticks. *)
EXTENDS MplaneSession

\* Past, too short, in range and too far ahead, for a budget of three ticks.
MCPromise == {0, 2, 5, 6, 7}
=============================================================================
