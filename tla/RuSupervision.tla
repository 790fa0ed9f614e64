--------------------------- MODULE RuSupervision ---------------------------
(***************************************************************************)
(* What the rest of the adapter, and the operator, may rely on from the    *)
(* M-plane session: how ru_mplane_state moves, and what alarms 1003 and    *)
(* 1004 do as it moves.  There are no sessions, RPCs or clocks here.       *)
(***************************************************************************)

CONSTANTS ConnectionAlarm, SupervisionAlarm

VARIABLES
  phase,     \* ru_mplane_state
  alarms,    \* which of the two alarms are active
  over       \* the session has been stopped for good

supervision == <<phase, alarms, over>>

SupervisionInit ==
  /\ phase = "DISCONNECTED"
  /\ alarms = {}
  /\ over = FALSE

Connected == phase # "DISCONNECTED" /\ ConnectionAlarm \notin alarms

\* Connecting starts with whatever alarms the last cycle left.
StartConnecting ==
  /\ phase = "DISCONNECTED"
  /\ phase' = "CONNECTING" /\ UNCHANGED alarms

\* 1003 is about the transport: it clears before supervision is established.
TransportRestored ==
  /\ phase = "CONNECTING"
  /\ alarms' = alarms \ {ConnectionAlarm} /\ UNCHANGED phase

\* SUPERVISED comes with no alarm left.
Supervise ==
  /\ Connected
  /\ phase' = "SUPERVISED" /\ alarms' = {}

\* Only starvation raises 1004, and only while connected.
Starve ==
  /\ Connected /\ phase # "DEGRADED"
  /\ phase' = "DEGRADED" /\ alarms' = {SupervisionAlarm}

\* A cycle ends.  1004 is not touched; 1003 is raised by a failed connect at
\* once, after a lost session when the sessions have been closed.
Disconnect ==
  /\ phase' = "DISCONNECTED"
  /\ \/ UNCHANGED alarms
     \/ phase \in {"CONNECTING", "DISCONNECTED"} /\ alarms' = alarms \cup {ConnectionAlarm}

SupervisionNext ==
  /\ ~over
  /\ over' \in IF phase' = "DISCONNECTED" THEN BOOLEAN ELSE {FALSE}
  /\ over' => alarms' = alarms
  /\ StartConnecting \/ TransportRestored \/ Supervise \/ Starve \/ Disconnect

SupervisionSpec == SupervisionInit /\ [][SupervisionNext]_supervision
=============================================================================
