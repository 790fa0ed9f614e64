---------------------------- MODULE RuProvisioner ----------------------------
(***************************************************************************)
(* Provision-on-connect (ru_provisioner.py, and the edits and reads of     *)
(* ru_config.py it makes): the first handler of every connect cycle.  It   *)
(* writes the profile piece by piece, in the order the references between  *)
(* the pieces need, waits until the O-RU is synchronised, activates the    *)
(* carriers and reads them back.  Edits are merges; an O-RU that reboots   *)
(* drops the session and returns with an empty datastore, and the next     *)
(* cycle provisions it again.                                              *)
(*                                                                         *)
(* A piece is what one edit writes; its leaves are left out, but for the   *)
(* reference of the processing element to an interface and of the links to *)
(* the carriers.  A read and the edit it gates, with nothing in between,   *)
(* are one step.  A request that is not answered may have been applied.    *)
(***************************************************************************)
EXTENDS Integers

CONSTANTS
  Setups,        \* profiles, with what the O-RU they are for makes of them
  InterfacePolls, SyncPolls, ReadyPolls   \* reads of a wait before it gives up

ASSUME PollAssumption ==
  /\ InterfacePolls \in Nat /\ SyncPolls \in Nat /\ ReadyPolls \in Nat

Piece == {"interface", "processing", "txEndpoints", "rxEndpoints", "txCarriers", "rxCarriers",
          "txLinks", "rxLinks", "pattern", "binding"}

Interface == {"uc-vlan", "other"}     \* those that carry the profile's VLAN
NoInterface == "none"

\* hybrid: the hybrid-odu role; declared: processing.interface_name;
\* rx, prach: the number of endpoints; upload, bind: the switches of section
\* tdd; state, tolerate: section activation; configurable: the O-RU lets its
\* TDD pattern be configured.
Setup == [hybrid : BOOLEAN, declared : Interface \cup {NoInterface}, rx : Nat \ {0}, prach : Nat,
          upload : BOOLEAN, bind : BOOLEAN, state : {"ACTIVE", "INACTIVE"}, tolerate : BOOLEAN,
          configurable : BOOLEAN]

ASSUME SetupAssumption == Setups \subseteq Setup

VARIABLES
  setup,        \* fixed
  link,         \* the session's connection
  step,         \* where the handler is; "down" between cycles, "done" after it
  polls,        \* reads left of the wait it is in
  bound,        \* the interface the processing element is bound to this cycle
  oru,          \* the pieces in the O-RU's datastore
  interfaces,   \* its interfaces
  active,       \* leaf active of its carriers, "unset" when it was never written
  ready,        \* all its carriers are READY
  locked,       \* it is synchronised
  calm          \* it answers, accepts and stays synchronised from now on

plan == <<setup, bound>>
radio == <<active, ready, locked>>
store == <<oru, interfaces>>
vars == <<plan, link, step, polls, store, radio, calm>>

TypeOK ==
  /\ setup \in Setups
  /\ link \in BOOLEAN /\ ready \in BOOLEAN /\ locked \in BOOLEAN /\ calm \in BOOLEAN
  /\ step \in Piece \cup {"down", "resolve", "sync", "activate", "receipt", "done"}
  /\ polls \in Nat
  /\ bound \in Interface \cup {NoInterface}
  /\ oru \subseteq Piece /\ interfaces \subseteq Interface
  /\ active \in {"unset", "ACTIVE", "INACTIVE"}
  /\ ready => active = "ACTIVE"
  /\ step \in Piece \cup {"sync", "activate", "receipt"} => bound # NoInterface

Init ==
  /\ setup \in Setups
  /\ link = FALSE /\ step = "down" /\ polls = 0 /\ bound = NoInterface
  /\ oru = {} /\ interfaces = {}
  /\ active = "unset" /\ ready = FALSE /\ locked = FALSE
  /\ calm = FALSE

-----------------------------------------------------------------------------
(* The profile *)

\* Slip: the links are written before the receive carriers.
AfterLinksFirst(p) ==
  CASE p = "interface"   -> "processing"
    [] p = "processing"  -> "txEndpoints"
    [] p = "txEndpoints" -> "rxEndpoints"
    [] p = "rxEndpoints" -> "txCarriers"
    [] p = "txCarriers"  -> "txLinks"
    [] p = "txLinks"     -> "rxLinks"
    [] p = "rxLinks"     -> "rxCarriers"
    [] p = "rxCarriers"  -> "pattern"
    [] p = "pattern"     -> "binding"
    [] p = "binding"     -> IF setup.state = "ACTIVE" THEN "sync" ELSE "activate"

\* set_full_config writes the pieces in this order.
After(p) ==
  CASE p = "interface"   -> "processing"
    [] p = "processing"  -> "txEndpoints"
    [] p = "txEndpoints" -> "rxEndpoints"
    [] p = "rxEndpoints" -> "txCarriers"
    [] p = "txCarriers"  -> "rxCarriers"
    [] p = "rxCarriers"  -> "txLinks"
    [] p = "txLinks"     -> "rxLinks"
    [] p = "rxLinks"     -> "pattern"
    [] p = "pattern"     -> "binding"
    [] p = "binding"     -> IF setup.state = "ACTIVE" THEN "sync" ELSE "activate"

\* Pieces the profile and the role write.
Written(p) ==
  /\ p = "interface" => ~setup.hybrid
  /\ p = "pattern" => setup.upload
  /\ p = "binding" => setup.bind

\* Pieces that depend on what the O-RU's yang-library advertises.
Gated(p) == p \in {"pattern", "binding"}

\* The carrier a PRACH endpoint is linked to: the partner in its pair, if there
\* is one.
Partner(i) == IF i % 2 = 0 THEN i + 1 ELSE i - 1
PrachCarrier(i) == IF Partner(i) < setup.rx THEN Partner(i) ELSE i % setup.rx

\* The edit would leave a reference into nothing.
Dangles(p) ==
  \/ p = "processing" /\ bound \notin interfaces
  \/ p = "txLinks" /\ ~({"processing", "txEndpoints", "txCarriers"} \subseteq oru)
  \/ p = "rxLinks" /\ \/ ~({"processing", "rxEndpoints", "rxCarriers"} \subseteq oru)
                      \/ \E i \in 0 .. setup.prach - 1 : PrachCarrier(i) \notin 0 .. setup.rx - 1
  \/ p = "binding" /\ \/ ~({"txCarriers", "rxCarriers"} \subseteq oru)
                      \/ setup.upload /\ "pattern" \notin oru

-----------------------------------------------------------------------------
(* The handler *)

\* What a request may meet with instead of an answer: the handler ends, and the
\* cycle with it.
Recycles ==
  /\ step' = "down" /\ link' = FALSE /\ polls' = 0
  /\ ~calm \/ ~link

\* An rpc-error ends the handler, and the session lives on.
Refused ==
  /\ link /\ step' = "done" /\ polls' = 0
  /\ UNCHANGED link

\* Slip: an O-RU with something in its datastore is taken for provisioned.
ConnectOnce ==
  /\ step = "down"
  /\ link' = TRUE /\ step' = (IF oru = {} THEN "resolve" ELSE "done")
  /\ polls' = InterfacePolls
  /\ bound' = NoInterface
  /\ UNCHANGED <<setup, store, radio, calm>>

Connect ==
  /\ step = "down"
  /\ link' = TRUE /\ step' = "resolve"
  /\ polls' = InterfacePolls
  /\ bound' = NoInterface
  /\ UNCHANGED <<setup, store, radio, calm>>

\* sudo creates uc-vlan itself, and binds to it unless the profile names another.
ResolveOwn ==
  /\ step = "resolve" /\ ~setup.hybrid
  /\ bound' = IF setup.declared # NoInterface THEN setup.declared ELSE "uc-vlan"
  /\ step' = "interface" /\ polls' = 0
  /\ UNCHANGED <<setup, link, store, radio, calm>>

\* _find_vlan_interface
Found ==
  IF setup.declared # NoInterface THEN interfaces \cap {setup.declared}
  ELSE IF "uc-vlan" \in interfaces THEN {"uc-vlan"} ELSE interfaces

ResolveFound ==
  /\ step = "resolve" /\ setup.hybrid /\ link
  /\ bound' \in Found
  /\ step' = "interface" /\ polls' = 0
  /\ UNCHANGED <<setup, link, store, radio, calm>>

\* Not there yet: sleep and read again, or leave it to the next cycle.
ResolveWait ==
  /\ step = "resolve" /\ setup.hybrid /\ link /\ Found = {}
  /\ IF polls > 0 THEN polls' = polls - 1 /\ UNCHANGED step
                  ELSE step' = "done" /\ UNCHANGED polls
  /\ UNCHANGED <<plan, link, store, radio, calm>>

\* The strict reads of the waits fail.
ReadFails ==
  /\ step \in {"resolve", "sync", "receipt"} /\ (step = "resolve" => setup.hybrid)
  /\ Recycles \/ (~calm /\ Refused)
  /\ UNCHANGED <<plan, store, radio, calm>>

Proceed(p) == step' = After(p) /\ polls' = IF After(p) = "sync" THEN SyncPolls ELSE 0

\* A piece that is not written; a feature read that fails, because of an
\* rpc-error, a timeout or a lost connection, counts as "not advertised".
Skip(p) ==
  /\ step = p
  /\ ~Written(p) \/ (Gated(p) /\ (~setup.configurable \/ ~calm \/ ~link))
  /\ Proceed(p)
  /\ UNCHANGED <<plan, link, store, radio, calm>>

Sends(p) == step = p /\ Written(p) /\ (Gated(p) => setup.configurable)

Applied(p) ==
  /\ oru' = oru \cup {p}
  /\ interfaces' = IF p = "interface" THEN interfaces \cup {"uc-vlan"} ELSE interfaces

Edit(p) ==
  /\ Sends(p) /\ link /\ ~Dangles(p)
  /\ Applied(p) /\ Proceed(p)
  /\ UNCHANGED <<plan, link, radio, calm>>

\* Slip: a rejected edit is logged, and the next one sent.
EditRejectedGoesOn(p) ==
  /\ Sends(p) /\ link /\ (Dangles(p) \/ ~calm)
  /\ Proceed(p)
  /\ UNCHANGED <<plan, link, store, radio, calm>>

EditRejected(p) ==
  /\ Sends(p) /\ (Dangles(p) \/ ~calm)
  /\ Refused
  /\ UNCHANGED <<plan, store, radio, calm>>

EditUnanswered(p) ==
  /\ Sends(p)
  /\ Recycles
  /\ (link /\ ~Dangles(p) /\ Applied(p)) \/ UNCHANGED store
  /\ UNCHANGED <<plan, radio, calm>>

WaitSync ==
  /\ step = "sync" /\ link
  /\ IF locked THEN step' = "activate" /\ polls' = 0
     ELSE IF polls > 0 THEN polls' = polls - 1 /\ UNCHANGED step
     ELSE step' = "done" /\ UNCHANGED polls
  /\ UNCHANGED <<plan, link, store, radio, calm>>

\* activate_full_config.  Carriers are activated on a synchronised O-RU only.
Activates ==
  /\ setup.state = "ACTIVE" => locked
  /\ active' = setup.state
  /\ ready' = (ready /\ setup.state = "ACTIVE")
  /\ UNCHANGED locked

ToReceipt ==
  IF setup.state = "ACTIVE" THEN step' = "receipt" /\ polls' = ReadyPolls
                            ELSE step' = "done" /\ UNCHANGED polls

Activate ==
  /\ step = "activate" /\ link
  /\ Activates /\ ToReceipt
  /\ UNCHANGED <<plan, link, store, calm>>

ActivateRejected ==
  /\ step = "activate" /\ (~calm \/ (setup.state = "ACTIVE" /\ ~locked))
  /\ Refused
  /\ UNCHANGED <<plan, store, radio, calm>>

\* tolerate_reply_timeout: an activation that is not answered in time counts as
\* sent, a lost connection does not.
ActivateUnanswered ==
  /\ step = "activate"
  /\ \/ setup.tolerate /\ link /\ ~calm /\ ToReceipt /\ UNCHANGED link
     \/ Recycles
  /\ (link /\ Activates) \/ UNCHANGED radio
  /\ UNCHANGED <<plan, store, calm>>

\* wait_for_carriers_ready
WaitReady ==
  /\ step = "receipt" /\ link
  /\ IF ~ready /\ polls > 0 THEN polls' = polls - 1 /\ UNCHANGED step
                            ELSE step' = "done" /\ polls' = 0
  /\ UNCHANGED <<plan, link, store, radio, calm>>

\* The session notices that its connection is gone once its handlers are done.
Lost ==
  /\ step = "done" /\ ~link
  /\ step' = "down"
  /\ UNCHANGED <<plan, link, polls, store, radio, calm>>

-----------------------------------------------------------------------------
(* The O-RU *)

LinkDrops ==
  /\ link /\ ~calm
  /\ link' = FALSE
  /\ UNCHANGED <<plan, step, polls, store, radio, calm>>

Reboot ==
  /\ ~calm /\ link' = FALSE
  /\ oru' = {} /\ interfaces' = {}
  /\ active' = "unset" /\ ready' = FALSE /\ locked' = FALSE
  /\ UNCHANGED <<plan, step, polls, calm>>

\* The management plane of a hybrid deployment creates the interface.
Manage ==
  /\ setup.hybrid
  /\ \E i \in Interface \ interfaces : interfaces' = interfaces \cup {i}
  /\ UNCHANGED <<plan, link, step, polls, oru, radio, calm>>

Synchronise ==
  /\ ~calm /\ locked' = ~locked
  /\ UNCHANGED <<plan, link, step, polls, store, active, ready, calm>>

\* The state of the carriers: DISABLED or BUSY, and READY.
CarriersMove ==
  /\ active = "ACTIVE"
  /\ IF ready THEN ~calm /\ ready' = FALSE ELSE locked /\ ready' = TRUE
  /\ UNCHANGED <<plan, link, step, polls, store, active, locked, calm>>

\* The O-RU takes the carriers down itself, on a fault; only the next cycle
\* activates them again.
CarriersFault ==
  /\ active = "ACTIVE" /\ ~calm
  /\ active' = "INACTIVE" /\ ready' = FALSE
  /\ UNCHANGED <<plan, link, step, polls, store, locked, calm>>

Settle ==
  /\ ~calm /\ locked /\ (setup.hybrid => Found # {})
  /\ calm' = TRUE
  /\ UNCHANGED <<plan, link, step, polls, store, radio>>

-----------------------------------------------------------------------------
EditStep == \E p \in Piece : Skip(p) \/ Edit(p) \/ EditRejected(p) \/ EditUnanswered(p)

Handler ==
  \/ ResolveOwn \/ ResolveFound \/ ResolveWait \/ ReadFails
  \/ EditStep
  \/ WaitSync \/ Activate \/ ActivateRejected \/ ActivateUnanswered \/ WaitReady

Drift == Manage \/ Synchronise \/ CarriersMove \/ CarriersFault \/ Settle

Next == Handler \/ Connect \/ Lost \/ LinkDrops \/ Reboot \/ Drift

Spec == Init /\ [][Next]_vars

-----------------------------------------------------------------------------
\* The profile names an interface sudo does not create.
Unmet == ~setup.hybrid /\ setup.declared = "other"

(***************************************************************************)
(* No edit before the TDD binding asks the O-RU for a reference into       *)
(* nothing, however the earlier edits of this and other cycles ended and   *)
(* whatever a reboot left (set_full_config, _resolve_interface); but for   *)
(* the processing element of a profile that names an interface which sudo  *)
(* does not create: it is rejected in every cycle.                         *)
(***************************************************************************)
NoDanglingEdit ==
  \A p \in Piece \ {"binding"} :
    link /\ Sends(p) /\ Dangles(p) => p = "processing" /\ Unmet

(***************************************************************************)
(* Active carriers stand over a complete configuration: everything the     *)
(* profile writes is there, but for the TDD pattern (provision,            *)
(* set_full_config).                                                       *)
(***************************************************************************)
ActiveOverComplete ==
  active = "ACTIVE" => {p \in Piece : Written(p) /\ ~Gated(p)} \subseteq oru

\* What a cycle is for.
Complete ==
  /\ {p \in Piece : Written(p) /\ (Gated(p) => setup.configurable)} \subseteq oru
  /\ active = setup.state

(***************************************************************************)
(* An uploaded pattern is bound to every carrier that is activated, where  *)
(* the O-RU supports it (bind_tdd_pattern_to_carriers).  Not so after a    *)
(* failed read of its features, which is taken for a lack of them.         *)
(***************************************************************************)
ActiveMeansBound ==
  active = "ACTIVE" /\ setup.bind /\ setup.configurable => "binding" \in oru
=============================================================================
