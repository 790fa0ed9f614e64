------------------------------- MODULE RuCycle -------------------------------
(***************************************************************************)
(* The handlers a connect cycle runs one after the other on the command    *)
(* session (o1_adapter.py, mplane_session.py _run_cycle_handlers): the     *)
(* provisioner, and then the measurement configuration.  A handler that    *)
(* ends with the session ends the cycle; any other end hands over to the   *)
(* next.  A reboot of the O-RU empties what both of them wrote.            *)
(***************************************************************************)
EXTENDS RuProvisioner

CONSTANTS Group, Object, RxWindow, Default, Unset, PmSetups

VARIABLES pmSetup, pmStep, pmConfig, requested, trying, written, measuring, refused, learned

PM == INSTANCE RuPmBridge

ASSUME PmAssumption ==
  /\ RxWindow \in Group /\ Default \subseteq Object /\ \A s \in SUBSET Object : Unset # s
  /\ PmSetups \subseteq PM!PmSetup

pmState == <<pmSetup, pmStep, pmConfig, requested, trying, written, measuring, refused, learned>>
cycleVars == <<vars, pmState>>

CycleInit ==
  /\ Init /\ PM!PmInit
  /\ setup.hybrid = ~pmSetup.writable

Provision == Handler /\ UNCHANGED pmState

Configure ==
  /\ step = "done"
  /\ PM!Start \/ PM!PmHandler
  /\ UNCHANGED <<plan, step, polls, store, radio>>

Cycle ==
  \/ Connect /\ pmStep = "off" /\ UNCHANGED pmState
  \/ Lost /\ pmStep = "done" /\ PM!NextCycle

Ru ==
  \/ Reboot /\ PM!Emptied
  \/ LinkDrops /\ UNCHANGED pmState
  \/ Drift /\ UNCHANGED pmState

CycleNext == Provision \/ Configure \/ Cycle \/ Ru

CycleSpec == CycleInit /\ [][CycleNext]_cycleVars

\* The handlers run in a thread of their own, the session in its loop; the
\* O-RU owes nothing.
FairCycle == CycleSpec /\ WF_cycleVars(Provision \/ Configure) /\ WF_cycleVars(Cycle)

-----------------------------------------------------------------------------
CycleTypeOK == TypeOK /\ PM!PmTypeOK

(***************************************************************************)
(* Every cycle's handlers end, whatever the O-RU answers: the waits are    *)
(* bounded, and so are the retries of the measurement configuration.       *)
(***************************************************************************)
HandlersEnd == step = "resolve" ~> (step = "down" \/ pmStep = "done")

(***************************************************************************)
(* A cycle that starts when the trouble is over leaves the O-RU configured *)
(* and its carriers as the profile wants them, also when the O-RU itself   *)
(* had taken them down, but for a profile no cycle can write (provision).  *)
(***************************************************************************)
Heals == calm /\ step = "down" /\ ~Unmet ~> Complete

NeverAskedAgain == PM!NeverAskedAgain
RefusalsKept == PM!RefusalsKept
AllAdvertisedRequested == PM!AllAdvertisedRequested
=============================================================================
