------------------------------ MODULE RuPmBridge ------------------------------
(***************************************************************************)
(* The measurement configuration of the O-RU (ru_pm_bridge.py on_cycle and *)
(* configure, ru_config.py configure_perf_measurement): on every connect   *)
(* cycle the objects of the profile, narrowed to what the O-RU advertises, *)
(* are written inactive and then activated.  The O-RU takes all of them or *)
(* none; the objects its rpc-error names are dropped and the rest is tried *)
(* again, and what it took is what later cycles ask for.                   *)
(*                                                                         *)
(* The intervals are left out.  learned and refused record, for the        *)
(* properties, the objects the O-RU named in its refusals: in earlier      *)
(* cycles that ended in a configuration, and in this one.                  *)
(***************************************************************************)
CONSTANTS
  Group,       \* rx_window_objects, transceiver_objects, tx_objects, epe_objects
  Object,
  RxWindow,    \* the group with a default ...
  Default,     \* ... and its default
  Unset,       \* a group the profile does not name
  PmSetups     \* pm sections, with what the O-RU they are for makes of them

Groups == [Group -> SUBSET Object]

\* profile: section pm; advertises: the O-RU's capabilities, all empty when it
\* exposes none; implements: the objects it can activate; lenient: it takes
\* others as long as they are inactive; writable: the role may write.
PmSetup == [profile : [Group -> (SUBSET Object) \cup {Unset}], advertises : Groups,
            implements : Groups, lenient : BOOLEAN, writable : BOOLEAN]

VARIABLES
  link, calm,   \* the session, and whether the O-RU's trouble is over
  pmSetup,      \* fixed
  pmStep,       \* "off" between the cycles' handlers
  pmConfig,     \* self.pm_config
  requested,    \* the lists handed to the client
  trying,       \* groups of configure_perf_measurement
  written,      \* the O-RU's measurement objects ...
  measuring,    \* ... and those that are active
  refused, learned

client == <<requested, trying, refused>>
pmVars == <<pmSetup, pmStep, pmConfig, client, written, measuring, learned>>
vars == <<link, calm, pmVars>>

Nothing == [g \in Group |-> {}]

PmTypeOK ==
  /\ pmSetup \in PmSetups
  /\ pmStep \in {"off", "library", "capabilities", "write", "activate", "done"}
  /\ pmConfig \in [Group -> (SUBSET Object) \cup {Unset}]
  /\ requested \in Groups /\ trying \in Groups
  /\ written \in Groups /\ measuring \in Groups
  /\ refused \subseteq Object /\ learned \subseteq Object
  /\ \A g \in Group : measuring[g] \subseteq written[g]
  /\ pmStep \in {"write", "activate"} => trying # Nothing

PmInit ==
  /\ pmSetup \in PmSetups
  /\ pmStep = "off"
  /\ pmConfig = pmSetup.profile
  /\ requested = Nothing /\ trying = Nothing /\ refused = {}
  /\ written = Nothing /\ measuring = Nothing
  /\ learned = {}

-----------------------------------------------------------------------------
(* The handler *)

\* No answer: the handler ends, and the cycle with it.
Recycle == pmStep' = "done" /\ link' = FALSE /\ (~calm \/ ~link)

GiveUp == pmStep' = "done" /\ UNCHANGED link

Start ==
  /\ pmStep = "off"
  /\ pmStep' = "library"
  /\ requested' = Nothing /\ trying' = Nothing /\ refused' = {}
  /\ UNCHANGED <<link, calm, pmSetup, pmConfig, written, measuring, learned>>

\* The strict read of the yang-library.
ReadLibrary ==
  /\ pmStep = "library"
  /\ \/ link /\ pmStep' = "capabilities" /\ UNCHANGED link
     \/ link /\ ~calm /\ GiveUp
     \/ Recycle
  /\ UNCHANGED <<calm, pmSetup, pmConfig, client, written, measuring, learned>>

Lists(c) == [g \in Group |-> IF c[g] = Unset THEN {} ELSE c[g]]

\* What the client makes of the lists it is handed.
Defaulted(c) == [Lists(c) EXCEPT ![RxWindow] = IF c[RxWindow] = Unset THEN Default ELSE @]

Narrowed(c) ==
  [g \in Group |-> IF c[g] = Unset THEN pmSetup.advertises[g] ELSE c[g] \cap pmSetup.advertises[g]]

Request(lists, groups) ==
  /\ requested' = lists /\ trying' = groups
  /\ pmStep' = IF groups = Nothing THEN "done" ELSE "write"
  /\ UNCHANGED <<link, calm, pmSetup, pmConfig, refused, written, measuring, learned>>

\* requested_pm_config on the capabilities.
ReadCapabilities ==
  /\ pmStep = "capabilities" /\ link
  /\ IF pmSetup.advertises = Nothing THEN Request(Lists(pmConfig), Defaulted(pmConfig))
                                     ELSE Request(Narrowed(pmConfig), Narrowed(pmConfig))

\* The read is not strict: one that fails counts as "none exposed".
CapabilitiesUnread ==
  /\ pmStep = "capabilities" /\ (~calm \/ ~link)
  /\ Request(Lists(pmConfig), Defaulted(pmConfig))

Sends(s) == pmStep = s /\ pmSetup.writable
Takes ==
  \/ pmStep = "write" /\ pmSetup.lenient
  \/ \A g \in Group : trying[g] \subseteq pmSetup.implements[g]
Joined(f, h) == [g \in Group |-> f[g] \cup h[g]]

NotWritable ==
  /\ pmStep = "write" /\ ~pmSetup.writable
  /\ GiveUp
  /\ UNCHANGED <<calm, pmSetup, pmConfig, client, written, measuring, learned>>

Write ==
  /\ Sends("write") /\ link /\ Takes
  /\ written' = Joined(written, trying)
  /\ measuring' = [g \in Group |-> measuring[g] \ trying[g]]
  /\ pmStep' = "activate"
  /\ UNCHANGED <<link, calm, pmSetup, pmConfig, client, learned>>

\* Slip: what the client converged on is not kept.
ConvergeForgetting ==
  /\ learned' = learned \cup refused
  /\ UNCHANGED pmConfig

\* configure keeps the set if it is not what was requested.
Converge ==
  /\ pmConfig' = IF trying = requested THEN pmConfig ELSE trying
  /\ learned' = learned \cup refused

Activate ==
  /\ Sends("activate") /\ link /\ Takes
  /\ measuring' = Joined(measuring, trying)
  /\ Converge
  /\ pmStep' = "done"
  /\ UNCHANGED <<link, calm, pmSetup, client, written>>

\* Slip: a group all of whose objects are refused is tried again as it was.
DropButNotAll(named) ==
  /\ refused' = refused \cup named
  /\ trying' = [g \in Group |-> IF trying[g] \subseteq named THEN trying[g] ELSE trying[g] \ named]
  /\ pmStep' = IF trying' = Nothing THEN "done" ELSE "write"

\* The named objects are dropped, from every group, and the rest is tried.
Drop(named) ==
  /\ refused' = refused \cup named
  /\ trying' = [g \in Group |-> trying[g] \ named]
  /\ pmStep' = IF trying' = Nothing THEN "done" ELSE "write"

RefusedNaming ==
  /\ pmStep \in {"write", "activate"} /\ Sends(pmStep) /\ link /\ ~Takes
  /\ \E named \in SUBSET UNION {trying[g] \ pmSetup.implements[g] : g \in Group} :
       named # {} /\ Drop(named)
  /\ UNCHANGED <<link, calm, pmSetup, pmConfig, requested, written, measuring, learned>>

\* An rpc-error that names no object that was asked for.
RefusedOtherwise ==
  /\ pmStep \in {"write", "activate"} /\ Sends(pmStep) /\ link /\ ~calm
  /\ GiveUp
  /\ UNCHANGED <<calm, pmSetup, pmConfig, client, written, measuring, learned>>

Unanswered ==
  /\ pmStep \in {"write", "activate"} /\ Sends(pmStep)
  /\ Recycle
  /\ UNCHANGED <<calm, pmSetup, pmConfig, client, written, measuring, learned>>

PmHandler ==
  \/ ReadLibrary \/ ReadCapabilities \/ CapabilitiesUnread \/ NotWritable
  \/ Write \/ Activate \/ RefusedNaming \/ RefusedOtherwise \/ Unanswered

\* The next cycle, and a reboot of the O-RU.
NextCycle == pmStep' = "off" /\ UNCHANGED <<pmSetup, pmConfig, client, written, measuring, learned>>

Emptied ==
  /\ written' = Nothing /\ measuring' = Nothing
  /\ UNCHANGED <<pmSetup, pmStep, pmConfig, client, learned>>

-----------------------------------------------------------------------------
(***************************************************************************)
(* docs/mplane-service.md:358: the bridge "requests the set it converged   *)
(* on from the next cycle on, so the rejections happen once per process":  *)
(* no object the O-RU has named in a refusal is asked for again once the   *)
(* cycle of the refusal ended in a configuration.  Not so when it refused  *)
(* exactly what the client put in for a receive window left to its         *)
(* default: what is left equals what was requested, and is not kept.       *)
(***************************************************************************)
NeverAskedAgain == \A g \in Group : trying[g] \cap learned = {}

DefaultsRefused == pmSetup.profile[RxWindow] = Unset /\ Default \subseteq learned

(***************************************************************************)
(* But for the default of which the O-RU refused every object, none it has *)
(* named is asked for again, whatever later cycles learn or fail to learn  *)
(* of its capabilities (configure, requested_pm_config).                   *)
(***************************************************************************)
RefusalsKept == ~DefaultsRefused => NeverAskedAgain

(***************************************************************************)
(* Where the O-RU advertises objects and the profile names none for a      *)
(* group, all of those that were not refused are asked for                 *)
(* (requested_pm_config).  Not so from the second cycle on: what the       *)
(* client converged on is requested, with whatever it had not read then.   *)
(***************************************************************************)
AllAdvertisedRequested ==
  [][ReadCapabilities /\ pmSetup.advertises # Nothing =>
       \A g \in Group : pmSetup.profile[g] = Unset =>
         pmSetup.advertises[g] \ learned \subseteq requested'[g]]_pmVars
=============================================================================
