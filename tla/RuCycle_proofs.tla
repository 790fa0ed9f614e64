--------------------------- MODULE RuCycle_proofs ---------------------------
(***************************************************************************)
(* The connect cycles of an O-RU, for any profiles, waits, groups and      *)
(* measurement objects: the edits refer to nothing that is not there,      *)
(* active carriers stand over a complete configuration, and what the O-RU  *)
(* refused to measure is not asked for again.                              *)
(***************************************************************************)
EXTENDS RuCycle, TLAPS

USE PollAssumption, SetupAssumption, PmAssumption

-----------------------------------------------------------------------------
(* The provisioner *)

\* The pieces an O-RU that is not short of features gets.
Required == {p \in Piece : Written(p) /\ ~Gated(p)}

\* The order in which the handler deals with them; 0 when it is not at it.
Rank(s) ==
  CASE s = "interface"   -> 1
    [] s = "processing"  -> 2
    [] s = "txEndpoints" -> 3
    [] s = "rxEndpoints" -> 4
    [] s = "txCarriers"  -> 5
    [] s = "rxCarriers"  -> 6
    [] s = "txLinks"     -> 7
    [] s = "rxLinks"     -> 8
    [] s = "pattern"     -> 9
    [] s = "binding"     -> 10
    [] s = "sync"        -> 11
    [] s = "activate"    -> 12
    [] s = "receipt"     -> 13
    [] OTHER             -> 0

\* On the connection the cycle began with, what was dealt with is there.
Progress == link => \A p \in Required : Rank(p) < Rank(step) => p \in oru

\* On it, the interface the processing element is bound to is there, or is the
\* one the handler is about to create, or one nobody creates.
BoundThere ==
  link /\ step \in Piece =>
    bound \in interfaces \/ Unmet \/ (step = "interface" /\ ~setup.hybrid /\ bound = "uc-vlan")

IInv == TypeOK /\ Progress /\ BoundThere /\ ActiveOverComplete

-----------------------------------------------------------------------------
(* The measurement configuration *)

\* As long as the defaults were not all refused: what was learned is what
\* pmConfig leaves out, and then it leaves no group to the O-RU or to defaults.
Remembered ==
  ~PM!DefaultsRefused =>
    /\ learned # {} => \A g \in Group : pmConfig[g] # Unset
    /\ \A g \in Group : pmConfig[g] # Unset => pmConfig[g] \cap learned = {}

\* What is tried is what was requested, or the default for a receive window
\* that names nothing, without what was refused.
Asked(lists) ==
  /\ \A g \in Group : trying[g] = lists[g] \ refused
  /\ refused \subseteq UNION {lists[g] : g \in Group}

WithDefault == [requested EXCEPT ![RxWindow] = Default]

Tried ==
  /\ pmStep \in {"library", "capabilities"} => refused = {}
  /\ pmStep \in {"write", "activate"} =>
       \/ Asked(requested)
       \/ pmConfig[RxWindow] = Unset /\ requested[RxWindow] = {} /\ Asked(WithDefault)

\* On the connection they were written on, the objects to activate are there.
Staged == link /\ pmStep = "activate" => \A g \in Group : trying[g] \subseteq written[g]

PmCore ==
  /\ PM!PmTypeOK
  /\ \A g \in Group : pmConfig[g] = Unset => pmSetup.profile[g] = Unset
  /\ Remembered /\ Tried /\ PM!RefusalsKept

PmIInv == PmCore /\ Staged

-----------------------------------------------------------------------------
(* The invariant of the provisioner *)

LEMMA Ranks ==
  /\ \A p \in Piece : Rank(p) \in 1 .. 10
  /\ Rank("sync") = 11 /\ Rank("activate") = 12 /\ Rank("receipt") = 13
  /\ \A s \in {"down", "resolve", "done"} : Rank(s) = 0 /\ s \notin Piece
  /\ \A s \in {"sync", "activate", "receipt"} : s \notin Piece
  BY DEF Rank, Piece

\* The next step comes after this piece, and no piece lies between.
LEMMA Afters ==
  ASSUME NEW p \in Piece
  PROVE  /\ After(p) \in Piece \cup {"sync", "activate"} /\ After(p) # "interface"
         /\ Rank(After(p)) > Rank(p)
         /\ \A q \in Piece : Rank(q) < Rank(After(p)) => Rank(q) < Rank(p) \/ q = p
<1>1. CASE p # "binding"
  <2>1. /\ Rank("interface") = 1 /\ Rank("processing") = 2 /\ Rank("txEndpoints") = 3
        /\ Rank("rxEndpoints") = 4 /\ Rank("txCarriers") = 5 /\ Rank("rxCarriers") = 6
        /\ Rank("txLinks") = 7 /\ Rank("rxLinks") = 8 /\ Rank("pattern") = 9
        /\ Rank("binding") = 10
    BY DEF Rank
  <2>2. /\ After("interface") = "processing" /\ After("processing") = "txEndpoints"
        /\ After("txEndpoints") = "rxEndpoints" /\ After("rxEndpoints") = "txCarriers"
        /\ After("txCarriers") = "rxCarriers" /\ After("rxCarriers") = "txLinks"
        /\ After("txLinks") = "rxLinks" /\ After("rxLinks") = "pattern"
        /\ After("pattern") = "binding"
    BY DEF After
  <2>3. After(p) \in Piece /\ After(p) # "interface" /\ Rank(After(p)) = Rank(p) + 1
    BY <1>1, <2>1, <2>2 DEF Piece
  <2>4. \A q \in Piece : Rank(q) = Rank(p) => q = p
    BY <2>1 DEF Piece
  <2> QED
    BY <2>3, <2>4, Ranks
<1>2. CASE p = "binding"
  <2>1. After(p) \in {"sync", "activate"}
    BY <1>2 DEF After
  <2>2. Rank(p) = 10 /\ \A q \in Piece : q # p => Rank(q) < 10
    BY <1>2 DEF Rank, Piece
  <2> QED
    BY <2>1, <2>2, Ranks DEF Piece
<1> QED
  BY <1>1, <1>2

LEMMA SetupFixed == IInv /\ Next => setup' = setup
  BY DEF Next, Handler, EditStep, Drift, plan, vars,
         ResolveOwn, ResolveFound, ResolveWait, ReadFails, Skip, Edit, EditRejected, EditUnanswered,
         WaitSync, Activate, ActivateRejected, ActivateUnanswered, WaitReady,
         Connect, Lost, LinkDrops, Reboot, Manage, Synchronise, CarriersMove, CarriersFault, Settle

USE DEF plan, store, radio

LEMMA Profiles ==
  ASSUME TypeOK
  PROVE  /\ setup \in Setup /\ setup.rx \in Nat \ {0} /\ setup.prach \in Nat
         /\ setup.state \in {"ACTIVE", "INACTIVE"} /\ setup.hybrid \in BOOLEAN
  BY DEF TypeOK, Setup

LEMMA TypeStep == TypeOK /\ Next => TypeOK'
<1> SUFFICES ASSUME TypeOK, Next PROVE TypeOK'
  OBVIOUS
<1> USE DEF TypeOK
<1>1. CASE ResolveOwn
  <2>1. setup.declared \in Interface \cup {NoInterface}
    BY DEF Setup
  <2>2. bound' \in Interface /\ bound' # NoInterface
    BY <1>1, <2>1 DEF ResolveOwn, Interface, NoInterface
  <2> QED
    BY <1>1, <2>2 DEF ResolveOwn, Piece
<1>2. CASE ResolveFound
  <2>1. bound' \in Interface
    BY <1>2 DEF ResolveFound, Found, Interface
  <2> QED
    BY <1>2, <2>1 DEF ResolveFound, Interface, NoInterface, Piece
<1>3. CASE ResolveWait
  BY <1>3 DEF ResolveWait, Piece
<1>4. CASE ReadFails
  <2>1. step' \in {"down", "done"} /\ polls' = 0 /\ UNCHANGED <<plan, store, radio, calm>>
    BY <1>4 DEF ReadFails, Recycles, Refused
  <2>2. CASE Recycles
    <3>1. step' = "down" /\ link' = FALSE
      BY <2>2 DEF Recycles
    <3> QED
      BY <2>1, <3>1 DEF Piece
  <2>3. CASE Refused
    BY <2>1, <2>3 DEF Refused, Piece
  <2> QED
    BY <1>4, <2>2, <2>3 DEF ReadFails
<1>5. ASSUME NEW p \in Piece, Skip(p) PROVE TypeOK'
  <2>1. polls' \in Nat /\ step' \in Piece \cup {"sync", "activate"} /\ step = p
        /\ UNCHANGED <<plan, link, store, radio, calm>>
    BY <1>5, Afters DEF Skip, Proceed
  <2> QED
    BY <2>1
<1>6. ASSUME NEW p \in Piece, Edit(p) PROVE TypeOK'
  <2>1. /\ polls' \in Nat /\ step' \in Piece \cup {"sync", "activate"} /\ step = p
        /\ oru' \subseteq Piece /\ interfaces' \subseteq Interface
        /\ UNCHANGED <<plan, link, radio, calm>>
    BY <1>6, Afters DEF Edit, Sends, Proceed, Applied, Interface
  <2> QED
    BY <2>1
<1>7. ASSUME NEW p \in Piece, EditRejected(p) PROVE TypeOK'
  BY <1>7 DEF EditRejected, Refused, Piece
<1>8. ASSUME NEW p \in Piece, EditUnanswered(p) PROVE TypeOK'
  <2>1. oru' \subseteq Piece /\ interfaces' \subseteq Interface
    BY <1>8 DEF EditUnanswered, Applied, Interface
  <2>2. step' = "down" /\ link' = FALSE /\ polls' = 0 /\ UNCHANGED <<plan, radio, calm>>
    BY <1>8 DEF EditUnanswered, Recycles
  <2> QED
    BY <2>1, <2>2 DEF Piece
<1>9. CASE WaitSync
  BY <1>9 DEF WaitSync, Piece
<1>10. CASE Activate
  <2>1. active' \in {"ACTIVE", "INACTIVE"} /\ ready' \in BOOLEAN /\ locked' = locked
        /\ (ready' => active' = "ACTIVE")
    BY <1>10, Profiles DEF Activate, Activates
  <2>2. step' \in {"receipt", "done"} /\ polls' \in Nat /\ step = "activate"
        /\ UNCHANGED <<plan, link, store, calm>>
    BY <1>10 DEF Activate, ToReceipt
  <2> QED
    BY <2>1, <2>2 DEF Piece
<1>11. CASE ActivateRejected
  BY <1>11 DEF ActivateRejected, Refused, Piece
<1>12. CASE ActivateUnanswered
  <2>1. active' \in {"unset", "ACTIVE", "INACTIVE"} /\ ready' \in BOOLEAN /\ locked' \in BOOLEAN
        /\ (ready' => active' = "ACTIVE")
    <3>1. CASE Activates
      BY <3>1, Profiles DEF Activates
    <3>2. CASE UNCHANGED radio
      BY <3>2
    <3> QED
      BY <1>12, <3>1, <3>2 DEF ActivateUnanswered
  <2>2. step = "activate" /\ UNCHANGED <<plan, store, calm>>
    BY <1>12 DEF ActivateUnanswered
  <2>3. CASE ToReceipt /\ UNCHANGED link
    BY <2>1, <2>2, <2>3 DEF ToReceipt, Piece
  <2>4. CASE Recycles
    BY <2>1, <2>2, <2>4 DEF Recycles, Piece
  <2> QED
    BY <1>12, <2>3, <2>4 DEF ActivateUnanswered
<1>13. CASE WaitReady
  BY <1>13 DEF WaitReady, Piece
<1>14. CASE Connect
  BY <1>14 DEF Connect, Piece, NoInterface
<1>15. CASE Lost
  BY <1>15 DEF Lost, Piece
<1>16. CASE LinkDrops
  BY <1>16 DEF LinkDrops
<1>17. CASE Reboot
  BY <1>17 DEF Reboot
<1>18. CASE Manage
  BY <1>18 DEF Manage
<1>19. CASE Synchronise
  BY <1>19 DEF Synchronise
<1>20. CASE CarriersMove
  BY <1>20 DEF CarriersMove
<1>22. CASE CarriersFault
  BY <1>22 DEF CarriersFault
<1>21. CASE Settle
  BY <1>21 DEF Settle
<1> QED
  BY <1>1, <1>2, <1>3, <1>4, <1>5, <1>6, <1>7, <1>8, <1>9, <1>10, <1>11, <1>12, <1>13, <1>14,
     <1>15, <1>16, <1>17, <1>18, <1>19, <1>20, <1>21, <1>22 DEF Next, Handler, EditStep, Drift

\* What becomes of the carriers, and of the pieces under them.
Carriers ==
  \/ Reboot
  \/ /\ oru \subseteq oru'
     /\ active' \in {active, "INACTIVE"} \/ (active' = setup.state /\ step = "activate" /\ link)

LEMMA CarriersStep == TypeOK /\ Next => Carriers
<1> SUFFICES ASSUME TypeOK, Next PROVE Carriers
  OBVIOUS
<1> USE DEF Carriers
<1>1. CASE EditStep
  <2> PICK p \in Piece : Skip(p) \/ Edit(p) \/ EditRejected(p) \/ EditUnanswered(p)
    BY <1>1 DEF EditStep
  <2>1. CASE Skip(p) \/ EditRejected(p)
    BY <2>1 DEF Skip, EditRejected
  <2>2. CASE Edit(p)
    BY <2>2 DEF Edit, Applied
  <2>3. CASE EditUnanswered(p)
    BY <2>3 DEF EditUnanswered, Applied
  <2> QED
    BY <2>1, <2>2, <2>3
<1>2. CASE Activate
  BY <1>2 DEF Activate, Activates
<1>3. CASE ActivateUnanswered
  BY <1>3 DEF ActivateUnanswered, Activates
<1>4. CASE ResolveOwn \/ ResolveFound \/ ResolveWait \/ ReadFails
  BY <1>4 DEF ResolveOwn, ResolveFound, ResolveWait, ReadFails
<1>5. CASE WaitSync \/ ActivateRejected \/ WaitReady
  BY <1>5 DEF WaitSync, ActivateRejected, WaitReady
<1>6. CASE Connect \/ Lost \/ LinkDrops \/ Reboot
  BY <1>6 DEF Connect, Lost, LinkDrops
<1>7. CASE Drift
  BY <1>7 DEF Drift, Manage, Synchronise, CarriersMove, CarriersFault, Settle
<1> QED
  BY <1>1, <1>2, <1>3, <1>4, <1>5, <1>6, <1>7 DEF Next, Handler

\* Where a step takes the handler, on a connection that lives on.
Path ==
  \/ link' = FALSE
  \/ step' \in {"down", "resolve", "done"}
  \/ step' = "interface" /\ (bound' \in interfaces' \/ Unmet \/ (~setup.hybrid /\ bound' = "uc-vlan"))
  \/ /\ step \in Piece /\ step' = After(step) /\ link' = link /\ bound' = bound
     /\ interfaces \subseteq interfaces'
     /\ step = "interface" => setup.hybrid \/ "uc-vlan" \in interfaces'
     /\ step \in Required => step \in oru'
  \/ /\ step \in {"sync", "activate", "receipt"} /\ step' \in {"sync", "activate", "receipt"}
     /\ link' = link
  \/ UNCHANGED <<link, step, bound>> /\ interfaces \subseteq interfaces'

LEMMA PathStep == TypeOK /\ Next => Path
<1> SUFFICES ASSUME TypeOK, Next PROVE Path
  OBVIOUS
<1> USE DEF Path
<1>1. ASSUME NEW p \in Piece, Skip(p) PROVE Path
  <2>1. step = p /\ step' = After(p) /\ UNCHANGED <<link, bound, interfaces>>
    BY <1>1 DEF Skip, Proceed
  <2>2. p \notin Required /\ (p = "interface" => setup.hybrid)
    BY <1>1 DEF Skip, Required, Written, Gated
  <2> QED
    BY <2>1, <2>2
<1>2. ASSUME NEW p \in Piece, Edit(p) PROVE Path
  <2>1. /\ step = p /\ step' = After(p) /\ UNCHANGED <<link, bound>>
        /\ interfaces \subseteq interfaces' /\ (p = "interface" => "uc-vlan" \in interfaces')
        /\ p \in oru'
    BY <1>2 DEF Edit, Sends, Proceed, Applied
  <2> QED
    BY <2>1
<1>3. ASSUME NEW p \in Piece, EditRejected(p) \/ EditUnanswered(p) PROVE Path
  BY <1>3 DEF EditRejected, EditUnanswered, Refused, Recycles
<1>4. CASE ResolveOwn
  <2>1. setup.declared \in Interface \cup {NoInterface}
    BY DEF TypeOK, Setup
  <2>2. bound' = "uc-vlan" \/ Unmet
    BY <1>4, <2>1 DEF ResolveOwn, Unmet, Interface
  <2> QED
    BY <1>4, <2>2 DEF ResolveOwn
<1>5. CASE ResolveFound
  <2>1. bound' \in interfaces'
    BY <1>5 DEF ResolveFound, Found
  <2> QED
    BY <1>5, <2>1 DEF ResolveFound
<1>6. CASE ResolveWait \/ ReadFails
  BY <1>6 DEF ResolveWait, ReadFails, Refused, Recycles
<1>7. CASE WaitSync
  BY <1>7 DEF WaitSync
<1>8. CASE Activate
  BY <1>8 DEF Activate, ToReceipt
<1>9. CASE ActivateRejected \/ ActivateUnanswered
  BY <1>9 DEF ActivateRejected, ActivateUnanswered, Refused, Recycles, ToReceipt
<1>10. CASE WaitReady
  BY <1>10 DEF WaitReady
<1>11. CASE Connect \/ Lost \/ LinkDrops \/ Reboot
  BY <1>11 DEF Connect, Lost, LinkDrops, Reboot
<1>12. CASE Drift
  BY <1>12 DEF Drift, Manage, Synchronise, CarriersMove, CarriersFault, Settle
<1> QED
  BY <1>1, <1>2, <1>3, <1>4, <1>5, <1>6, <1>7, <1>8, <1>9, <1>10, <1>11, <1>12
     DEF Next, Handler, EditStep

LEMMA HandlerLink == Handler /\ link' => link
<1> SUFFICES ASSUME Handler, link' PROVE link
  OBVIOUS
<1>1. CASE EditStep
  BY <1>1 DEF EditStep, Skip, Edit, EditRejected, EditUnanswered, Refused, Recycles
<1>2. CASE ResolveOwn \/ ResolveFound \/ ResolveWait
  BY <1>2 DEF ResolveOwn, ResolveFound, ResolveWait
<1>3. CASE ReadFails
  BY <1>3 DEF ReadFails, Refused, Recycles
<1>4. CASE WaitSync \/ Activate \/ WaitReady
  BY <1>4 DEF WaitSync, Activate, WaitReady
<1>5. CASE ActivateRejected \/ ActivateUnanswered
  BY <1>5 DEF ActivateRejected, ActivateUnanswered, Refused, Recycles
<1> QED
  BY <1>1, <1>2, <1>3, <1>4, <1>5 DEF Handler

LEMMA ProgressStep == IInv /\ Next => Progress'
<1> SUFFICES ASSUME IInv, Next, link', NEW p \in Required', Rank(p) < Rank(step')
             PROVE  p \in oru'
  BY DEF Progress
<1>1. p \in Required /\ p \in Piece /\ Rank(p) \in 1 .. 10
  BY SetupFixed, Ranks DEF Required, Written, Gated
<1>2. oru \subseteq oru'
  BY CarriersStep DEF Carriers, Reboot, IInv
<1>3. link /\ Rank(p) < Rank(step) => p \in oru'
  BY <1>1, <1>2 DEF IInv, Progress
<1>4. CASE step' \in {"down", "resolve", "done"}
  BY <1>1, <1>4, Ranks
<1>5. CASE step' = "interface"
  BY <1>1, <1>5 DEF Rank
<1>6. CASE step \in Piece /\ step' = After(step) /\ link /\ (step \in Required => step \in oru')
  BY <1>1, <1>3, <1>6, Afters
<1>7. CASE step \in {"sync", "activate", "receipt"} /\ link
  BY <1>1, <1>3, <1>7, Ranks
<1>8. CASE link /\ step' = step
  BY <1>3, <1>8
<1> QED
  BY <1>4, <1>5, <1>6, <1>7, <1>8, PathStep DEF IInv, Path

LEMMA BoundThereStep == IInv /\ Next => BoundThere'
<1> SUFFICES ASSUME IInv, Next, link', step' \in Piece
             PROVE  \/ bound' \in interfaces' \/ Unmet
                    \/ step' = "interface" /\ ~setup.hybrid /\ bound' = "uc-vlan"
  BY SetupFixed DEF BoundThere, Piece, Unmet
<1>1. CASE step' = "interface"
  <2>1. \A q \in Piece : step' # After(q)
    BY <1>1, Afters
  <2>2. step' \notin {"down", "resolve", "done", "sync", "activate", "receipt"}
    BY <1>1
  <2> QED
    BY <1>1, <2>1, <2>2, PathStep DEF IInv, Path, BoundThere, Piece
<1>2. CASE step' # "interface"
  <2>1. link /\ bound' = bound /\ interfaces \subseteq interfaces' /\ step \in Piece
        /\ (step = "interface" => step' = step \/ setup.hybrid \/ "uc-vlan" \in interfaces')
    BY <1>2, PathStep, Ranks DEF IInv, Path
  <2> QED
    BY <1>2, <2>1 DEF IInv, BoundThere
<1> QED
  BY <1>1, <1>2

LEMMA IInvStep == IInv /\ [Next]_vars => IInv'
<1> SUFFICES ASSUME IInv, [Next]_vars PROVE IInv'
  OBVIOUS
<1>1. CASE Next
  <2>1. TypeOK' /\ Progress' /\ BoundThere'
    BY <1>1, TypeStep, ProgressStep, BoundThereStep DEF IInv
  <2>2. ActiveOverComplete'
    <3> SUFFICES ASSUME active' = "ACTIVE", NEW p \in Required' PROVE p \in oru'
      BY DEF ActiveOverComplete, Required
    <3>1. p \in Required
      BY <1>1, SetupFixed DEF Required, Written, Gated
    <3>2. step = "activate" /\ link => p \in oru
      BY <3>1, Ranks DEF IInv, Progress, Required
    <3> QED
      BY <1>1, <3>1, <3>2, CarriersStep DEF IInv, Carriers, Reboot, ActiveOverComplete, Required
  <2> QED
    BY <2>1, <2>2 DEF IInv
<1>2. CASE UNCHANGED vars
  BY <1>2 DEF vars, IInv, TypeOK, Progress, BoundThere, Unmet, ActiveOverComplete,
              Required, Written, Gated
<1> QED
  BY <1>1, <1>2

LEMMA IInvInit == Init => IInv
<1> SUFFICES ASSUME Init PROVE IInv
  OBVIOUS
<1>1. TypeOK
  BY DEF Init, TypeOK, Piece
<1> QED
  BY <1>1 DEF Init, IInv, Progress, BoundThere, ActiveOverComplete

\* Every PRACH endpoint is linked to a carrier there is.
LEMMA NoStrayPrach ==
  ASSUME TypeOK, NEW i \in 0 .. setup.prach - 1
  PROVE  PrachCarrier(i) \in 0 .. setup.rx - 1
<1>1. i \in Nat /\ setup.rx \in Nat \ {0}
  BY Profiles
<1>2. Partner(i) \in Nat
  BY <1>1 DEF Partner
<1>3. i % setup.rx \in 0 .. setup.rx - 1
  BY <1>1
<1> QED
  BY <1>1, <1>2, <1>3 DEF PrachCarrier

\* What the links refer to.
LinkedTo == {"processing", "txEndpoints", "txCarriers", "rxEndpoints", "rxCarriers"}

LEMMA NoDanglingInv == IInv => NoDanglingEdit
<1> SUFFICES ASSUME IInv, NEW p \in Piece \ {"binding"}, link, Sends(p), Dangles(p)
             PROVE  p = "processing" /\ Unmet
  BY DEF NoDanglingEdit
<1>1. TypeOK /\ step = p /\ Written(p)
  BY DEF IInv, Sends
<1>2. \A q \in Piece : ~Gated(q) /\ Written(q) /\ Rank(q) < Rank(p) => q \in oru
  BY <1>1 DEF IInv, Progress, Required
<1>3. CASE p = "processing"
  BY <1>1, <1>3 DEF IInv, BoundThere, Dangles
<1>4. LinkedTo \subseteq Piece
  BY DEF LinkedTo, Piece
<1>5. \A q \in LinkedTo : ~Gated(q) /\ Written(q) /\ Rank(q) < 7
  BY DEF LinkedTo, Gated, Written, Rank
<1>6. CASE p \in {"txLinks", "rxLinks"}
  <2>1. Rank(p) \in {7, 8}
    BY <1>6 DEF Rank
  <2>2. \A q \in LinkedTo : Rank(q) \in 1 .. 10
    BY <1>4, Ranks
  <2>3. LinkedTo \subseteq oru
    BY <1>2, <1>4, <1>5, <2>1, <2>2
  <2> QED
    BY <1>1, <1>6, <2>3, NoStrayPrach DEF Dangles, LinkedTo
<1> QED
  BY <1>3, <1>6 DEF Dangles

-----------------------------------------------------------------------------
(* The cycle as it is composed *)

\* The provisioner sees the measurement handler do no more than end the
\* connection.
LEMMA ConfigureStep ==
  ASSUME link \in BOOLEAN, Configure PROVE LinkDrops \/ UNCHANGED vars
<1>1. link' = link \/ PM!Recycle
  <2>1. CASE PM!Start
    BY <2>1 DEF PM!Start
  <2>2. CASE PM!ReadLibrary \/ PM!NotWritable \/ PM!RefusedOtherwise \/ PM!Unanswered
    BY <2>2 DEF PM!ReadLibrary, PM!NotWritable, PM!RefusedOtherwise, PM!Unanswered, PM!GiveUp
  <2>3. CASE PM!ReadCapabilities \/ PM!CapabilitiesUnread
    BY <2>3 DEF PM!ReadCapabilities, PM!CapabilitiesUnread, PM!Request
  <2>4. CASE PM!Write \/ PM!Activate \/ PM!RefusedNaming
    BY <2>4 DEF PM!Write, PM!Activate, PM!RefusedNaming
  <2> QED
    BY <2>1, <2>2, <2>3, <2>4 DEF Configure, PM!PmHandler
<1>2. calm' = calm
  BY DEF Configure, PM!Start, PM!PmHandler, PM!ReadLibrary, PM!ReadCapabilities,
         PM!CapabilitiesUnread, PM!Request, PM!NotWritable, PM!Write, PM!Activate,
         PM!RefusedNaming, PM!RefusedOtherwise, PM!Unanswered
<1>3. UNCHANGED <<plan, step, polls, store, radio>>
  BY DEF Configure
<1> QED
  BY <1>1, <1>2, <1>3 DEF PM!Recycle, LinkDrops, vars

LEMMA CycleStep == link \in BOOLEAN /\ [CycleNext]_cycleVars => [Next]_vars
<1>1. ASSUME link \in BOOLEAN, Configure PROVE [Next]_vars
  BY <1>1, ConfigureStep DEF Next
<1> QED
  BY <1>1 DEF CycleNext, Provision, Cycle, Ru, Next, cycleVars

-----------------------------------------------------------------------------
(* The invariant of the measurement configuration *)

LEMMA PmTypes ==
  ASSUME PM!PmTypeOK
  PROVE  /\ pmSetup \in PmSetups /\ pmSetup \in PM!PmSetup
         /\ pmSetup.advertises \in [Group -> SUBSET Object]
         /\ pmSetup.profile \in [Group -> (SUBSET Object) \cup {Unset}]
         /\ Default \subseteq Object /\ RxWindow \in Group
  BY DEF PM!PmTypeOK, PM!PmSetup, PM!Groups

\* Steps that leave the memory and the client alone.
Keeps == UNCHANGED <<pmSetup, pmConfig, requested, trying, refused, learned>>

LEMMA KeepsMemory ==
  ASSUME PmCore, Keeps,
         pmStep' \in {"off", "done"} \/ pmStep' = pmStep
           \/ <<pmStep, pmStep'>> \in {<<"library", "capabilities">>, <<"write", "activate">>}
  PROVE  /\ \A g \in Group : pmConfig'[g] = Unset => pmSetup'.profile[g] = Unset
         /\ Remembered' /\ Tried' /\ PM!RefusalsKept'
<1>1. Remembered' /\ PM!RefusalsKept'
  BY DEF Keeps, PmCore, Remembered, PM!RefusalsKept, PM!DefaultsRefused, PM!NeverAskedAgain
<1>2. Tried'
  BY DEF Keeps, PmCore, Tried, Asked, WithDefault
<1> QED
  BY <1>1, <1>2 DEF Keeps, PmCore

LEMMA KeepingStep ==
  ASSUME PmCore,
         \/ PM!ReadLibrary \/ PM!NotWritable \/ PM!Write \/ PM!RefusedOtherwise \/ PM!Unanswered
         \/ PM!NextCycle \/ PM!Emptied \/ UNCHANGED pmState
  PROVE  PmCore'
<1>1. /\ Keeps
      /\ pmStep' \in {"off", "done"} \/ pmStep' = pmStep
           \/ <<pmStep, pmStep'>> \in {<<"library", "capabilities">>, <<"write", "activate">>}
  BY DEF Keeps, PM!ReadLibrary, PM!NotWritable, PM!Write, PM!RefusedOtherwise, PM!Unanswered,
         PM!NextCycle, PM!Emptied, PM!GiveUp, PM!Recycle, PM!Sends, PM!client, pmState
<1>2. PM!PmTypeOK'
  <2> USE DEF PmCore, PM!PmTypeOK
  <2>1. CASE PM!Write
    <3>1. /\ written' \in PM!Groups /\ measuring' \in PM!Groups
          /\ \A g \in Group : measuring'[g] \subseteq written'[g]
      BY <2>1 DEF PM!Write, PM!Joined, PM!Groups
    <3> QED
      BY <1>1, <2>1, <3>1 DEF PM!Write, Keeps, PM!Sends
  <2>2. CASE PM!Emptied
    <3>1. /\ written' \in PM!Groups /\ measuring' \in PM!Groups
          /\ \A g \in Group : measuring'[g] \subseteq written'[g]
      BY <2>2 DEF PM!Emptied, PM!Nothing, PM!Groups
    <3> QED
      BY <1>1, <2>2, <3>1 DEF PM!Emptied, Keeps
  <2>3. CASE \/ PM!ReadLibrary \/ PM!NotWritable \/ PM!RefusedOtherwise \/ PM!Unanswered
             \/ PM!NextCycle \/ UNCHANGED pmState
    <3>1. /\ UNCHANGED <<written, measuring>>
          /\ pmStep' = pmStep \/ pmStep' \in {"capabilities", "off", "done"}
      BY <2>3 DEF PM!ReadLibrary, PM!NotWritable, PM!RefusedOtherwise, PM!Unanswered,
                  PM!NextCycle, PM!GiveUp, PM!Recycle, pmState
    <3> QED
      BY <1>1, <3>1 DEF Keeps
  <2> QED
    BY <2>1, <2>2, <2>3
<1> QED
  BY <1>1, <1>2, KeepsMemory DEF PmCore

LEMMA StartStep == ASSUME PmCore, PM!Start PROVE PmCore'
<1>1. /\ pmStep' = "library" /\ trying' = PM!Nothing /\ refused' = {} /\ requested' = PM!Nothing
      /\ UNCHANGED <<pmSetup, pmConfig, learned, written, measuring>>
  BY DEF PM!Start
<1>2. PM!Nothing \in PM!Groups /\ \A g \in Group : PM!Nothing[g] = {}
  BY DEF PM!Nothing, PM!Groups
<1>3. PM!PmTypeOK'
  BY <1>1, <1>2 DEF PmCore, PM!PmTypeOK
<1>4. Remembered' /\ Tried' /\ PM!RefusalsKept'
  BY <1>1, <1>2 DEF PmCore, Remembered, Tried, PM!RefusalsKept, PM!DefaultsRefused,
                    PM!NeverAskedAgain
<1> QED
  BY <1>1, <1>3, <1>4 DEF PmCore

\* A request leaves out what was learned, and is what is tried, or has the
\* default put in.
LEMMA RequestStep ==
  ASSUME PmCore, pmStep = "capabilities", NEW lists \in PM!Groups, NEW groups \in PM!Groups,
         PM!Request(lists, groups),
         \A g \in Group : pmConfig[g] # Unset => groups[g] \subseteq pmConfig[g],
         \/ groups = lists
         \/ /\ pmConfig[RxWindow] = Unset /\ lists[RxWindow] = {}
            /\ groups = [lists EXCEPT ![RxWindow] = Default]
  PROVE  PmCore'
<1>1. /\ requested' = lists /\ trying' = groups /\ pmStep' \in {"write", "done"}
      /\ (pmStep' = "write" => groups # PM!Nothing)
      /\ UNCHANGED <<pmSetup, pmConfig, refused, written, measuring, learned>>
  BY DEF PM!Request
<1>2. refused = {}
  BY DEF PmCore, Tried
<1>3. PM!PmTypeOK'
  BY <1>1 DEF PmCore, PM!PmTypeOK
<1>4. Remembered'
  BY <1>1 DEF PmCore, Remembered, PM!DefaultsRefused
<1>5. Tried'
  BY <1>1, <1>2 DEF Tried, Asked, WithDefault
<1>6. PM!RefusalsKept'
  BY <1>1 DEF PmCore, Remembered, PM!RefusalsKept, PM!DefaultsRefused, PM!NeverAskedAgain
<1> QED
  BY <1>1, <1>3, <1>4, <1>5, <1>6 DEF PmCore

LEMMA ReadStep ==
  ASSUME PmCore, PM!ReadCapabilities \/ PM!CapabilitiesUnread PROVE PmCore'
<1> USE DEF PM!Groups
<1>1. pmStep = "capabilities" /\ pmConfig \in [Group -> (SUBSET Object) \cup {Unset}]
  BY DEF PM!ReadCapabilities, PM!CapabilitiesUnread, PmCore, PM!PmTypeOK
<1>2. CASE PM!Request(PM!Lists(pmConfig), PM!Defaulted(pmConfig))
  <2>1. PM!Lists(pmConfig) \in PM!Groups /\ PM!Defaulted(pmConfig) \in PM!Groups
    <3>1. PM!Lists(pmConfig) \in [Group -> SUBSET Object]
      BY <1>1 DEF PM!Lists
    <3> QED
      BY <3>1 DEF PM!Defaulted
  <2>2. \A g \in Group : pmConfig[g] # Unset => PM!Defaulted(pmConfig)[g] \subseteq pmConfig[g]
    BY <1>1 DEF PM!Lists, PM!Defaulted
  <2>3. CASE pmConfig[RxWindow] = Unset
    <3>1. /\ PM!Lists(pmConfig)[RxWindow] = {}
          /\ PM!Defaulted(pmConfig) = [PM!Lists(pmConfig) EXCEPT ![RxWindow] = Default]
      BY <2>3 DEF PM!Lists, PM!Defaulted
    <3> QED
      BY <1>1, <1>2, <2>1, <2>2, <2>3, <3>1, RequestStep
  <2>4. CASE pmConfig[RxWindow] # Unset
    <3>1. PM!Defaulted(pmConfig) = PM!Lists(pmConfig)
      BY <2>1, <2>4 DEF PM!Lists, PM!Defaulted
    <3> QED
      BY <1>1, <1>2, <2>1, <2>2, <3>1, RequestStep
  <2> QED
    BY <2>3, <2>4
<1>3. CASE PM!Request(PM!Narrowed(pmConfig), PM!Narrowed(pmConfig))
  <2>1. PM!Narrowed(pmConfig) \in PM!Groups
    BY <1>1, PmTypes DEF PM!Narrowed, PmCore
  <2>2. \A g \in Group : pmConfig[g] # Unset => PM!Narrowed(pmConfig)[g] \subseteq pmConfig[g]
    BY <1>1 DEF PM!Narrowed
  <2> QED
    BY <1>1, <1>3, <2>1, <2>2, RequestStep
<1> QED
  BY <1>2, <1>3 DEF PM!ReadCapabilities, PM!CapabilitiesUnread

LEMMA DropStep == ASSUME PmCore, PM!RefusedNaming PROVE PmCore'
<1>1. PICK named \in SUBSET UNION {trying[g] \ pmSetup.implements[g] : g \in Group} :
        PM!Drop(named)
  BY DEF PM!RefusedNaming
<1>2. /\ pmStep \in {"write", "activate"}
      /\ UNCHANGED <<pmSetup, pmConfig, requested, written, measuring, learned>>
  BY DEF PM!RefusedNaming
<1>3. /\ refused' = refused \cup named /\ trying' = [g \in Group |-> trying[g] \ named]
      /\ pmStep' \in {"write", "done"} /\ (pmStep' = "write" => trying' # PM!Nothing)
  BY <1>1 DEF PM!Drop
<1>4. trying \in [Group -> SUBSET Object] /\ named \subseteq UNION {trying[g] : g \in Group}
  BY DEF PmCore, PM!PmTypeOK, PM!Groups
<1>5. PM!PmTypeOK'
  <2>1. trying' \in PM!Groups /\ refused' \subseteq Object
    BY <1>3, <1>4 DEF PM!Groups, PmCore, PM!PmTypeOK
  <2> QED
    BY <1>2, <1>3, <2>1 DEF PmCore, PM!PmTypeOK
<1>6. ASSUME NEW lists, Asked(lists)
      PROVE  /\ \A g \in Group : trying'[g] = lists[g] \ refused'
             /\ refused' \subseteq UNION {lists[g] : g \in Group}
  BY <1>3, <1>4, <1>6 DEF Asked
<1>7. Tried'
  BY <1>2, <1>3, <1>6 DEF PmCore, Tried, Asked, WithDefault
<1>8. Remembered' /\ PM!RefusalsKept'
  BY <1>2, <1>3 DEF PmCore, Remembered, PM!RefusalsKept, PM!DefaultsRefused, PM!NeverAskedAgain
<1> QED
  BY <1>2, <1>5, <1>7, <1>8 DEF PmCore

\* What the client converged on leaves out all that was refused; where the
\* bridge does not keep it, nothing was refused, or exactly the default.
LEMMA ConvergeStep == ASSUME PmIInv, PM!Activate PROVE PmCore'
<1>1. /\ pmStep = "activate" /\ pmStep' = "done"
      /\ measuring' = PM!Joined(measuring, trying) /\ learned' = learned \cup refused
      /\ pmConfig' = IF trying = requested THEN pmConfig ELSE trying
      /\ UNCHANGED <<pmSetup, requested, trying, refused, written>>
  BY DEF PM!Activate, PM!Converge, PM!Sends, PM!client
<1>2. /\ trying \in [Group -> SUBSET Object] /\ requested \in [Group -> SUBSET Object]
      /\ pmConfig \in [Group -> (SUBSET Object) \cup {Unset}]
      /\ measuring \in [Group -> SUBSET Object] /\ RxWindow \in Group
      /\ refused \subseteq Object /\ learned \subseteq Object
  BY DEF PmIInv, PmCore, PM!PmTypeOK, PM!Groups
<1>3. \A g \in Group : trying[g] # Unset
  BY <1>2
<1>4. PM!PmTypeOK'
  <2>1. \A g \in Group : trying[g] \subseteq written[g]
    BY <1>1 DEF PmIInv, Staged, PM!Activate
  <2>2. /\ measuring' \in PM!Groups /\ \A g \in Group : measuring'[g] \subseteq written'[g]
    BY <1>1, <1>2, <2>1 DEF PM!Joined, PM!Groups, PmIInv, PmCore, PM!PmTypeOK
  <2>3. pmConfig' \in [Group -> (SUBSET Object) \cup {Unset}] /\ learned' \subseteq Object
    BY <1>1, <1>2
  <2> QED
    BY <1>1, <2>2, <2>3 DEF PmIInv, PmCore, PM!PmTypeOK
<1>5. \A g \in Group : pmConfig'[g] = Unset => pmSetup'.profile[g] = Unset
  BY <1>1, <1>3 DEF PmIInv, PmCore
<1>6. Tried'
  BY <1>1 DEF Tried
<1>7. PM!DefaultsRefused => PM!DefaultsRefused'
  BY <1>1 DEF PM!DefaultsRefused
<1>8. CASE trying # requested
  <2>1. pmConfig' = trying
    BY <1>1, <1>8
  <2>2. \A g \in Group : trying[g] \cap refused = {}
    <3>1. CASE Asked(requested)
      BY <3>1 DEF Asked
    <3>2. CASE Asked(WithDefault)
      BY <3>2 DEF Asked
    <3> QED
      BY <1>1, <3>1, <3>2 DEF PmIInv, PmCore, Tried
  <2>3. ~PM!DefaultsRefused' => \A g \in Group : trying'[g] \cap learned' = {}
    BY <1>1, <1>7, <2>2 DEF PmIInv, PmCore, PM!RefusalsKept, PM!NeverAskedAgain
  <2>4. Remembered'
    BY <1>1, <1>3, <2>1, <2>3 DEF Remembered
  <2>5. PM!RefusalsKept'
    BY <2>3 DEF PM!RefusalsKept, PM!NeverAskedAgain
  <2> QED
    BY <1>4, <1>5, <1>6, <2>4, <2>5 DEF PmCore
<1>9. CASE trying = requested /\ Asked(requested)
  <2>1. refused = {}
    BY <1>9 DEF Asked
  <2>2. pmConfig' = pmConfig /\ learned' = learned
    BY <1>1, <1>9, <2>1
  <2>3. Remembered' /\ PM!RefusalsKept'
    BY <1>1, <2>2 DEF PmIInv, PmCore, Remembered, PM!RefusalsKept, PM!DefaultsRefused,
                      PM!NeverAskedAgain
  <2> QED
    BY <1>4, <1>5, <1>6, <2>3 DEF PmCore
<1>10. CASE /\ trying = requested /\ Asked(WithDefault)
            /\ pmConfig[RxWindow] = Unset /\ requested[RxWindow] = {}
  <2>1. WithDefault[RxWindow] = Default
    BY <1>2 DEF WithDefault
  <2>2. Default \subseteq refused
    BY <1>2, <1>10, <2>1 DEF Asked
  <2>3. PM!DefaultsRefused'
    BY <1>1, <1>2, <1>10, <2>2 DEF PmIInv, PmCore, PM!DefaultsRefused
  <2>4. Remembered' /\ PM!RefusalsKept'
    BY <2>3 DEF Remembered, PM!RefusalsKept
  <2> QED
    BY <1>4, <1>5, <1>6, <2>4 DEF PmCore
<1> QED
  BY <1>1, <1>8, <1>9, <1>10 DEF PmIInv, PmCore, Tried

LEMMA PmHandlerStep == ASSUME PmIInv, PM!PmHandler PROVE PmCore'
<1>1. PmCore
  BY DEF PmIInv
<1>2. CASE PM!ReadLibrary \/ PM!NotWritable \/ PM!Write \/ PM!RefusedOtherwise \/ PM!Unanswered
  BY <1>1, <1>2, KeepingStep
<1>3. CASE PM!ReadCapabilities \/ PM!CapabilitiesUnread
  BY <1>1, <1>3, ReadStep
<1>4. CASE PM!RefusedNaming
  BY <1>1, <1>4, DropStep
<1>5. CASE PM!Activate
  BY <1>5, ConvergeStep
<1> QED
  BY <1>2, <1>3, <1>4, <1>5 DEF PM!PmHandler

LEMMA PmCoreStep == ASSUME PmIInv, [CycleNext]_cycleVars PROVE PmCore'
<1>1. PmCore
  BY DEF PmIInv
<1>2. CASE PM!Start
  BY <1>1, <1>2, StartStep
<1>3. CASE PM!PmHandler
  BY <1>3, PmHandlerStep
<1>4. CASE PM!NextCycle \/ PM!Emptied \/ UNCHANGED pmState
  BY <1>1, <1>4, KeepingStep
<1> QED
  BY <1>2, <1>3, <1>4 DEF CycleNext, Provision, Configure, Cycle, Ru, cycleVars

\* The connection comes back between two cycles only.
LEMMA StagedStep == ASSUME TypeOK, PmIInv, [CycleNext]_cycleVars PROVE Staged'
<1> SUFFICES ASSUME link', pmStep' = "activate", NEW g \in Group
             PROVE  trying'[g] \subseteq written'[g]
  BY DEF Staged
<1>1. CASE PM!Write
  BY <1>1 DEF PM!Write, PM!Joined, PM!client
<1>2. CASE link /\ UNCHANGED pmState
  BY <1>2 DEF pmState, PmIInv, Staged
<1>3. CASE Configure
  <2>1. pmStep' = "activate" => PM!Write
    BY <1>3 DEF Configure, PM!Start, PM!PmHandler, PM!ReadLibrary, PM!ReadCapabilities,
                PM!CapabilitiesUnread, PM!Request, PM!NotWritable, PM!Activate,
                PM!RefusedNaming, PM!Drop, PM!RefusedOtherwise, PM!Unanswered, PM!GiveUp, PM!Recycle
  <2> QED
    BY <1>1, <2>1
<1>4. CASE Provision
  <2>1. link' => link
    BY <1>4, HandlerLink DEF Provision
  <2> QED
    BY <1>2, <1>4, <2>1 DEF Provision
<1>5. CASE Cycle
  BY <1>5 DEF Cycle, PM!NextCycle, pmState
<1>6. CASE Ru
  BY <1>2, <1>6 DEF Ru, Reboot, LinkDrops, Drift, Manage, Synchronise, CarriersMove, CarriersFault, Settle
<1>7. CASE UNCHANGED cycleVars
  BY <1>2, <1>7 DEF cycleVars, vars
<1> QED
  BY <1>3, <1>4, <1>5, <1>6, <1>7 DEF CycleNext


LEMMA CycleInv == CycleSpec => [](IInv /\ PmIInv)
<1>1. CycleInit => IInv /\ PmIInv
  <2> SUFFICES ASSUME CycleInit PROVE IInv /\ PmIInv
    OBVIOUS
  <2>1. IInv
    BY IInvInit DEF CycleInit
  <2>2. PM!Nothing \in PM!Groups /\ \A g \in Group : PM!Nothing[g] = {}
    BY DEF PM!Nothing, PM!Groups
  <2>3. PM!PmTypeOK
    BY <2>2 DEF CycleInit, PM!PmInit, PM!PmTypeOK, PM!PmSetup
  <2>4. PmCore
    BY <2>2, <2>3 DEF CycleInit, PM!PmInit, PmCore, Remembered, Tried, PM!RefusalsKept,
                      PM!NeverAskedAgain
  <2>5. Staged
    BY DEF CycleInit, PM!PmInit, Staged
  <2> QED
    BY <2>1, <2>4, <2>5 DEF PmIInv
<1>2. IInv /\ PmIInv /\ [CycleNext]_cycleVars => IInv' /\ PmIInv'
  <2> SUFFICES ASSUME IInv, PmIInv, [CycleNext]_cycleVars PROVE IInv' /\ PmIInv'
    OBVIOUS
  <2>1. TypeOK /\ link \in BOOLEAN
    BY DEF IInv, TypeOK
  <2> QED
    BY <2>1, CycleStep, IInvStep, PmCoreStep, StagedStep DEF PmIInv
<1> QED
  BY <1>1, <1>2, PTL DEF CycleSpec

-----------------------------------------------------------------------------
(* The theorems *)

(***************************************************************************)
(* The types of both handlers hold, and the activated measurement objects  *)
(* are among those the O-RU was given: an activation never reaches an      *)
(* O-RU that rebooted since they were written.                             *)
(***************************************************************************)
THEOREM CycleTypeCorrect == CycleSpec => []CycleTypeOK
<1>1. IInv /\ PmIInv => CycleTypeOK
  BY DEF IInv, PmIInv, PmCore, CycleTypeOK
<1> QED
  BY <1>1, CycleInv, PTL

(***************************************************************************)
(* No edit before the TDD binding asks the O-RU for a reference into       *)
(* nothing, for any number of endpoints and PRACH occasions and any waits, *)
(* however edits and connections ended before; but for the processing      *)
(* element of a profile whose interface sudo does not create               *)
(* (set_full_config, _resolve_interface).                                  *)
(***************************************************************************)
THEOREM DanglingCorrect == CycleSpec => []NoDanglingEdit
  BY CycleInv, NoDanglingInv, PTL

(***************************************************************************)
(* Active carriers stand over everything the profile writes but its TDD    *)
(* pattern (provision, activate_full_config).                              *)
(***************************************************************************)
THEOREM CompleteCorrect == CycleSpec => []ActiveOverComplete
<1>1. IInv => ActiveOverComplete
  BY DEF IInv
<1> QED
  BY <1>1, CycleInv, PTL

(***************************************************************************)
(* But for a default of which it refused every object, nothing the O-RU    *)
(* named in a refusal is asked for again once the cycle of the refusal     *)
(* ended in a configuration (configure, requested_pm_config).              *)
(***************************************************************************)
THEOREM RefusalsCorrect == CycleSpec => []RefusalsKept
<1>1. PmIInv => RefusalsKept
  BY DEF PmIInv, PmCore, RefusalsKept
<1> QED
  BY <1>1, CycleInv, PTL
=============================================================================
