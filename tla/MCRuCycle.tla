----------------------------- MODULE MCRuCycle -----------------------------
(* The profiles of the documentation for both roles, and O-RUs that expose *)
(* their measurement capabilities, or do not.                              *)
EXTENDS RuCycle

Common == [hybrid |-> FALSE, declared |-> NoInterface, rx |-> 2, prach |-> 2,
           upload |-> TRUE, bind |-> TRUE, state |-> "ACTIVE", tolerate |-> TRUE, configurable |-> TRUE]

MCSetups == {
  Common,
  [Common EXCEPT !.rx = 3, !.prach = 4, !.configurable = FALSE, !.tolerate = FALSE],
  [Common EXCEPT !.state = "INACTIVE", !.rx = 1, !.prach = 1, !.bind = FALSE],
  [Common EXCEPT !.declared = "other", !.upload = FALSE, !.bind = FALSE],
  [Common EXCEPT !.hybrid = TRUE, !.upload = FALSE],
  [Common EXCEPT !.hybrid = TRUE, !.declared = "other", !.tolerate = FALSE]}

MCDefault == {"on_time", "late"}
Objects(rx, epe) == [g \in Group |-> IF g = RxWindow THEN rx ELSE epe]

MCPmSetups == {
  [profile |-> Objects(Unset, Unset), advertises |-> Objects({}, {}),
   implements |-> Objects({}, {}), lenient |-> FALSE, writable |-> TRUE],
  [profile |-> Objects(Unset, {"temp"}), advertises |-> Objects({}, {}),
   implements |-> Objects({}, {"temp"}), lenient |-> FALSE, writable |-> TRUE],
  [profile |-> Objects({"late", "temp"}, {"temp"}), advertises |-> Objects({}, {}),
   implements |-> Objects({"late"}, {"temp"}), lenient |-> TRUE, writable |-> TRUE],
  [profile |-> Objects({"on_time", "late"}, Unset), advertises |-> Objects({"on_time", "late"}, {"temp"}),
   implements |-> Objects({"on_time"}, {"temp"}), lenient |-> FALSE, writable |-> TRUE],
  [profile |-> Objects(Unset, {"temp"}), advertises |-> Objects({}, {}),
   implements |-> Objects({}, {}), lenient |-> FALSE, writable |-> FALSE]}
=============================================================================
