------------------------- MODULE RuForwarder_proofs -------------------------
(***************************************************************************)
(* The forwarder and the bootstrap, for any elements and any number of     *)
(* commits, drops and restarts.                                            *)
(***************************************************************************)
EXTENDS RuForwarder, TLAPS

USE ForwarderAssumption DEF Absent, Own

Queued == queue # <<>>

\* Nothing is queued or forwarded before the bootstrap is over.
SyncFirst ==
  /\ main \in {"subscribing", "up", "deaf", "dead"} => syncDone
  /\ main \in {"sync", "reading", "applying"} => ~syncDone
  /\ ~syncDone => queue = <<>> /\ hand = None /\ last = None
  /\ last = None => queue = <<>> /\ hand = None

\* What is being forwarded was queued last, unless something newer waits.
HandIsLast == hand # None /\ ~Queued => hand = last

\* What was copied and not committed since is in every update.
CopyFaithful ==
  \A e \in adopted : /\ last # None => last[e] = source[e]
                     /\ hand # None => hand[e] = source[e]

\* c has no element in a newer version than d.
Before(c, d) == \A e \in Element : c[e] = Absent \/ d[e] = Absent \/ c[e] <= d[e]

\* The O-RU, the update being forwarded, the one that waits and the source, in
\* this order; and what the bootstrap read, which a reboot makes newer than the
\* O-RU.  Absence may lie anywhere in between, so each pair is listed.
InOrder ==
  /\ Before(ru, source)
  /\ main = "applying" => Before(ru, got)
  /\ hand # None => Before(ru, hand) /\ Before(hand, source)
  /\ Queued => Before(ru, last) /\ Before(last, source)
  /\ hand # None /\ Queued => Before(hand, last)

\* No version is newer than the operator's last commit.
Numbered(c) == \A e \in Element : c[e] <= commits

Committed ==
  /\ Numbered(source) /\ Numbered(ru)
  /\ main = "applying" => Numbered(got)
  /\ hand # None => Numbered(hand)
  /\ last # None => Numbered(last)

IInv ==
  /\ TypeOK
  /\ SyncFirst
  /\ HandIsLast
  /\ CopyFaithful
  /\ InOrder
  /\ Committed
  /\ NewestInHand
  /\ BootstrapKept
  /\ OutageTold

-----------------------------------------------------------------------------
(* What the model's operators do *)

LEMMA NoneApart == None \notin Config
<1>1. Config \subseteq [Element -> Int]
  BY DEF Config, Version
<1> QED
  BY <1>1

\* An edit leaves an element as it is, or writes it as the update has it.
LEMMA Merging ==
  ASSUME ru \in Config, NEW c \in Config, PartlyMerged(c)
  PROVE  /\ ru' \in Config
         /\ \A e \in Element : ru'[e] = ru[e] \/ (c[e] # Absent /\ ru'[e] = c[e])
<1>1. PICK elements \in SUBSET Element : ru' = Merged(c, elements)
  BY DEF PartlyMerged
<1> QED
  BY <1>1 DEF Merged, Config

\* An edit that succeeds is one that was applied as a whole.
LEMMA WholeMerge == ASSUME NEW c PROVE ru' = Merged(c, Element) => PartlyMerged(c)
  BY DEF PartlyMerged

LEMMA OwnConfig == \A c \in Startup : c \in Config /\ \A e \in Element : c[e] \in {Own, Absent}
<1>1. [Element -> {Own, Absent}] \subseteq Config
  BY DEF Config, Version
<1> QED
  BY <1>1

\* The configuration manager queues what the source holds, or nothing.
LEMMA Written ==
  ASSUME TypeOK, Write
  PROVE  /\ \/ queue' = <<source>> /\ last' = source /\ lost' = FALSE
            \/ UNCHANGED <<queue, last, lost>>
         /\ last' \in Update /\ queue' \in {<<>>, <<last'>>}
         /\ seen' \in Update /\ unseen' \in BOOLEAN /\ lost' \in BOOLEAN
  BY DEF Write, Enqueue, TypeOK, Update

\* The update that is taken is the one queued last.
LEMMA Taken ==
  ASSUME TypeOK, SyncFirst, Take
  PROVE  /\ queue = <<last>> /\ queue' = <<>> /\ last \in Config /\ fw = "serving"
         /\ \/ fw' = "editing" /\ hand' = last
            \/ UNCHANGED <<fw, hand>> /\ \A e \in Element : last[e] = Absent
<1>1. queue = <<last>>
  BY DEF Take, TypeOK
<1>2. Head(queue) = last /\ Tail(queue) = <<>> /\ queue # <<>>
  BY <1>1
<1>3. last # None
  BY <1>2 DEF SyncFirst
<1>4. last \in Config
  BY <1>3 DEF TypeOK, Update
<1> QED
  BY <1>1, <1>2, <1>4 DEF Take

\* Whoever writes the alarm writes it as a Boolean.
LEMMA Told ==
  ASSUME TypeOK, NEW a \in BOOLEAN, NEW s \in BOOLEAN, Tell(a, s)
  PROVE  alarm' \in BOOLEAN /\ syncWrote' \in BOOLEAN
  BY DEF Tell, TypeOK

\* What ends the bootstrap.
LEMMA Ended ==
  ASSUME TypeOK, EndSync
  PROVE  /\ main' = "subscribing" /\ syncDone' = TRUE /\ dirty' = dirty
         /\ got' \in Config /\ todo' = {} /\ Write
  BY DEF EndSync, Serve, Empty, Config, Version

-----------------------------------------------------------------------------
LEMMA InvInit == Init => IInv
<1> SUFFICES ASSUME Init PROVE IInv
  OBVIOUS
<1>1. Empty \in Config /\ ru \in Config
  BY OwnConfig DEF Init, Config, Version, Empty
<1>2. TypeOK
  <2>1. /\ commits \in 0 .. MaxCommits /\ drops \in 0 .. MaxDrops
        /\ reboots \in 0 .. MaxReboots /\ restarts \in 0 .. MaxRestarts
    BY DEF Init
  <2> QED
    BY <1>1, <2>1, Zenon DEF Init, TypeOK, Update
<1>3. SyncFirst /\ HandIsLast /\ CopyFaithful
  BY DEF Init, SyncFirst, HandIsLast, CopyFaithful
<1>6. NewestInHand /\ BootstrapKept /\ OutageTold
  BY DEF Init, NewestInHand, BootstrapKept, OutageTold
<1>4. InOrder
  BY DEF Init, InOrder, Before, Queued, Empty
<1>5. Committed
  BY <1>1, OwnConfig DEF Init, Committed, Numbered, Empty
<1> QED
  BY <1>2, <1>3, <1>4, <1>5, <1>6 DEF IInv

LEMMA TypeStep == TypeOK /\ SyncFirst /\ [Next]_vars => TypeOK'
<1> SUFFICES ASSUME TypeOK, SyncFirst, [Next]_vars PROVE TypeOK'
  OBVIOUS
<1> USE DEF environment, bootstrap, updates, session, raised
<1>t. /\ source \in Config /\ ru \in Config /\ got \in Config
      /\ commits \in 0 .. MaxCommits /\ drops \in 0 .. MaxDrops
      /\ reboots \in 0 .. MaxReboots /\ restarts \in 0 .. MaxRestarts
      /\ todo \subseteq Element /\ adopted \subseteq Element
      /\ hand \in Update /\ last \in Update /\ queue \in {<<>>, <<last>>}
      /\ (hand # None <=> fw = "editing")
  BY DEF TypeOK
<1>0. CASE UNCHANGED vars
  BY <1>0 DEF TypeOK, vars
<1>1. ASSUME NEW e \in Element, NEW v \in Version, Commit(e, v) PROVE TypeOK'
  <2>1. source' \in Config
    BY <1>1, <1>t DEF Commit, Config
  <2> QED
    BY <1>1, <2>1 DEF Commit, TypeOK
<1>2. CASE RuDrops
  <2>1. drops' \in 0 .. MaxDrops
    BY <1>2, <1>t DEF RuDrops
  <2>2. /\ link' = FALSE
        /\ UNCHANGED <<source, ru, commits, reboots, restarts, main, syncDone, got, todo, adopted,
                       dirty, seen, unseen, queue, last, fw, hand, flag, alarm, syncWrote, lost>>
    BY <1>2 DEF RuDrops
  <2>3. link' \in BOOLEAN /\ queue' \in {<<>>, <<last'>>} /\ (hand' # None <=> fw' = "editing")
    BY <1>t, <2>2
  <2> QED
    BY <2>1, <2>2, <2>3 DEF TypeOK
<1>3. CASE SourceDrops
  <2>1. drops' \in 0 .. MaxDrops
    BY <1>3, <1>t DEF SourceDrops
  <2> QED
    BY <1>3, <2>1, ZenonT(30) DEF SourceDrops, TypeOK, Update
<1>18. CASE RuReboots
  <2>1. reboots' \in 0 .. MaxReboots
    BY <1>18, <1>t DEF RuReboots
  <2>2. ru' \in Config /\ link' \in BOOLEAN /\ adopted' \subseteq Element /\ lost' \in BOOLEAN
    BY <1>18, OwnConfig DEF RuReboots
  <2>3. UNCHANGED <<source, commits, drops, restarts, main, syncDone, got, todo, dirty, seen, unseen,
                    queue, last, fw, hand, flag, alarm, syncWrote>>
    BY <1>18 DEF RuReboots
  <2> QED
    BY <2>1, <2>2, <2>3 DEF TypeOK
<1>19. CASE Subscribe
  <2>1. main' \in {"up", "deaf", "dead"} /\ unseen' \in BOOLEAN
    BY <1>19 DEF Subscribe, TypeOK
  <2>2. UNCHANGED <<source, ru, commits, drops, reboots, restarts, syncDone, got, todo, adopted, dirty,
                    seen, queue, last, fw, link, hand, flag, alarm, syncWrote, lost>>
    BY <1>19 DEF Subscribe
  <2> QED
    BY <2>1, <2>2 DEF TypeOK
<1>4. CASE Restart
  <2>1. ru' \in Config
    <3>1. CASE hand = None
      BY <1>4, <1>t, <3>1 DEF Restart
    <3>2. CASE hand # None
      BY <1>4, <1>t, <3>2, Merging DEF Restart, Update
    <3> QED
      BY <3>1, <3>2
  <2>2. restarts' \in 0 .. MaxRestarts
    BY <1>4, <1>t DEF Restart
  <2> QED
    <3>1. Empty \in Config
      BY DEF Empty, Config, Version
    <3> QED
      BY <1>4, <2>1, <2>2, <3>1, Zenon DEF Restart, TypeOK, Update
<1>5. CASE HandleChange
  <2>0. /\ dirty' = FALSE /\ main' \in {"up", "dead"}
        /\ UNCHANGED <<source, ru, commits, drops, reboots, restarts, syncDone, got, todo, adopted,
                       fw, link, hand, flag, alarm, syncWrote>>
    BY <1>5 DEF HandleChange
  <2>1. CASE Write
    BY <2>0, <2>1, Written DEF TypeOK
  <2>2. CASE UNCHANGED <<seen, unseen, queue, last, lost>>
    <3>1. dirty' \in BOOLEAN /\ (hand' # None <=> fw' = "editing") /\ queue' \in {<<>>, <<last'>>}
      BY <1>t, <2>0, <2>2
    <3> QED
      BY <2>0, <2>2, <3>1 DEF TypeOK
  <2> QED
    BY <1>5, <2>1, <2>2 DEF HandleChange
<1>6. CASE ConnectSource
  <2>1. CASE syncDone
    <3>1. Write /\ main' = "subscribing" /\ dirty' = dirty
      BY <1>6, <2>1 DEF ConnectSource, Serve
    <3> QED
      BY <1>6, <3>1, Written DEF ConnectSource, TypeOK
  <2>2. CASE ~syncDone
    BY <1>6, <2>2 DEF ConnectSource, TypeOK
  <2> QED
    BY <2>1, <2>2
<1>7. CASE SyncConnect
  <2>1. alarm' \in BOOLEAN /\ syncWrote' \in BOOLEAN
    BY <1>7, Told DEF SyncConnect
  <2>2. CASE EndSync
    BY <1>7, <2>1, <2>2, Ended, Written DEF SyncConnect, TypeOK
  <2>3. CASE ~EndSync
    BY <1>7, <2>1, <2>3 DEF SyncConnect, TypeOK
  <2> QED
    BY <2>2, <2>3
<1>8. CASE SyncRead
  <2>1. CASE EndSync
    BY <1>8, <2>1, Ended, Written DEF SyncRead, TypeOK
  <2>2. CASE ~EndSync
    BY <1>8, <1>t, <2>2 DEF SyncRead, TypeOK
  <2> QED
    BY <2>1, <2>2
<1>9. ASSUME NEW e \in Element, SyncApply(e) PROVE TypeOK'
  <2>1. source' \in Config
    BY <1>9, <1>t DEF SyncApply, Config
  <2> QED
    BY <1>9, <2>1 DEF SyncApply, TypeOK
<1>10. CASE SyncApplied
  BY <1>10, Ended, Written DEF SyncApplied, TypeOK
<1>11. CASE Connect
  BY <1>11, Told DEF Connect, TypeOK
<1>12. CASE ConnectFails
  BY <1>12, Told DEF ConnectFails, Leave, TypeOK
<1>13. CASE Retry
  BY <1>13 DEF Retry, TypeOK
<1>14. CASE NoticeDrop
  BY <1>14, Told DEF NoticeDrop, Leave, TypeOK
<1>15. CASE Take
  <2>1. last # None
    BY <1>15, Taken, NoneApart
  <2> QED
    BY <1>15, <2>1, Taken DEF Take, TypeOK, Update
<1>16. CASE Forward
  <2>1. ru' \in Config
    BY <1>16, <1>t, WholeMerge, Merging DEF Forward, Update
  <2> QED
    BY <1>16, <2>1 DEF Forward, TypeOK, Update
<1>17. CASE Fail
  <2>1. ru' \in Config
    BY <1>17, <1>t, Merging DEF Fail, Update
  <2>2. /\ hand' = None /\ lost' \in BOOLEAN
        /\ UNCHANGED <<source, commits, drops, reboots, restarts, main, syncDone, got, todo, adopted,
                       dirty, seen, unseen, queue, last>>
    BY <1>17 DEF Fail
  <2>3. /\ fw' \in {"serving", "waiting"} /\ link' \in BOOLEAN /\ flag' \in BOOLEAN
        /\ alarm' \in BOOLEAN /\ syncWrote' \in BOOLEAN
    <3>1. CASE link
      BY <1>17, <3>1 DEF Fail, TypeOK
    <3>2. CASE ~link
      BY <1>17, <3>2, Told DEF Fail, Leave
    <3> QED
      BY <3>1, <3>2
  <2> QED
    BY <2>1, <2>2, <2>3 DEF TypeOK, Update
<1> QED
  BY <1>0, <1>1, <1>2, <1>3, <1>4, <1>5, <1>6, <1>7, <1>8, <1>9, <1>10, <1>11, <1>12, <1>13,
     <1>14, <1>15, <1>16, <1>17, <1>18, <1>19 DEF Next, Environment, NetconfMain, Forwarder

LEMMA SyncFirstStep == TypeOK /\ SyncFirst /\ [Next]_vars => SyncFirst'
<1> SUFFICES ASSUME TypeOK, SyncFirst, [Next]_vars PROVE SyncFirst'
  OBVIOUS
<1> USE DEF environment, bootstrap, updates, session, raised, SyncFirst
<1>s. source # None
  BY NoneApart DEF TypeOK
<1>e. Write => last' # None \/ UNCHANGED <<queue, last>>
  BY <1>s DEF Write, Enqueue
<1>0. CASE UNCHANGED vars
  BY <1>0 DEF vars
<1>1. ASSUME NEW e \in Element, NEW v \in Version, Commit(e, v) PROVE SyncFirst'
  BY <1>1 DEF Commit
<1>2. CASE RuDrops \/ SourceDrops \/ Restart
  BY <1>2 DEF RuDrops, SourceDrops, Restart
<1>13. CASE RuReboots \/ Subscribe
  BY <1>13 DEF RuReboots, Subscribe
<1>3. CASE HandleChange
  BY <1>3, <1>e DEF HandleChange
<1>4. CASE ConnectSource
  BY <1>4, <1>e DEF ConnectSource, Serve
<1>5. CASE SyncConnect
  <2>1. \/ main' = "reading" /\ UNCHANGED <<syncDone, queue, last, hand>>
        \/ syncDone' = TRUE /\ main' = "subscribing" /\ Write /\ UNCHANGED hand
    BY <1>5 DEF SyncConnect, EndSync, Serve
  <2> QED
    BY <1>5, <1>e, <2>1 DEF SyncConnect
<1>6. CASE SyncRead
  BY <1>6, <1>e DEF SyncRead, EndSync, Serve
<1>7. ASSUME NEW e \in Element, SyncApply(e) PROVE SyncFirst'
  BY <1>7 DEF SyncApply
<1>8. CASE SyncApplied
  BY <1>8, <1>e DEF SyncApplied, EndSync, Serve
<1>9. CASE Connect \/ ConnectFails \/ Retry \/ NoticeDrop
  <2>1. UNCHANGED <<main, syncDone, queue, last, hand>>
    BY <1>9 DEF Connect, ConnectFails, Retry, NoticeDrop
  <2> QED
    BY <2>1
<1>10. CASE Take
  BY <1>10, Taken, NoneApart DEF Take
<1>11. CASE Forward
  BY <1>11 DEF Forward
<1>12. CASE Fail
  BY <1>12 DEF Fail, Leave
<1> QED
  BY <1>0, <1>1, <1>2, <1>3, <1>4, <1>5, <1>6, <1>7, <1>8, <1>9, <1>10, <1>11, <1>12, <1>13
     DEF Next, Environment, NetconfMain, Forwarder

-----------------------------------------------------------------------------
(***************************************************************************)
(* What a step does to the configurations, wherever the tasks are.         *)
(***************************************************************************)
content == <<source, ru, commits, adopted, hand, queue, last, lost>>

\* The bootstrap does not get to applying.
NotApplying == main' = "applying" => main = "applying" /\ got' = got

Keeps == UNCHANGED content /\ NotApplying

Queues ==
  /\ syncDone' /\ main' # "applying"
  /\ queue' = <<source>> /\ last' = source /\ lost' = FALSE
  /\ UNCHANGED <<source, ru, commits, adopted, hand>>

Copies == got' = ru /\ UNCHANGED <<source, ru, commits, adopted, hand, queue, last, lost>>

Adopts(e) ==
  /\ main = "applying"
  /\ source' = [source EXCEPT ![e] = got[e]]
  /\ adopted' = IF got[e] = ru[e] THEN adopted \cup {e} ELSE adopted \ {e}
  /\ UNCHANGED <<ru, got, commits, hand, queue, last, lost>>

Takes ==
  /\ queue = <<last>> /\ queue' = <<>> /\ last # None /\ hand = None
  /\ \/ hand' = last
     \/ hand' = hand /\ \A e \in Element : last[e] = Absent
  /\ NotApplying
  /\ UNCHANGED <<source, ru, commits, adopted, last, lost>>

Flow ==
  \/ Keeps
  \/ \E e \in Element, v \in Version : Commit(e, v)
  \/ Restart \/ RuReboots \/ Queues \/ Copies
  \/ \E e \in Element : Adopts(e)
  \/ Takes \/ Forward \/ Fail

LEMMA FlowStep == TypeOK /\ SyncFirst /\ [Next]_vars => Flow
<1> SUFFICES ASSUME TypeOK, SyncFirst, [Next]_vars PROVE Flow
  OBVIOUS
<1> USE DEF environment, bootstrap, updates, session, raised, content, NotApplying
<1>w. Write => (queue' = <<source>> /\ last' = source /\ lost' = FALSE) \/ UNCHANGED <<queue, last, lost>>
  BY DEF Write, Enqueue
<1>0. CASE UNCHANGED vars
  BY <1>0 DEF vars, Flow, Keeps
<1>1. CASE RuDrops \/ SourceDrops \/ Subscribe
  BY <1>1 DEF RuDrops, SourceDrops, Subscribe, Flow, Keeps
<1>2. CASE HandleChange
  BY <1>2, <1>w DEF HandleChange, SyncFirst, Flow, Keeps, Queues
<1>3. CASE ConnectSource
  BY <1>3, <1>w DEF ConnectSource, Serve, Flow, Keeps, Queues
<1>4. CASE SyncConnect
  BY <1>4, <1>w DEF SyncConnect, EndSync, Serve, Flow, Keeps, Queues
<1>5. CASE SyncRead
  BY <1>5, <1>w DEF SyncRead, EndSync, Serve, Flow, Keeps, Queues, Copies
<1>6. ASSUME NEW e \in Element, SyncApply(e) PROVE Flow
  BY <1>6 DEF SyncApply, Flow, Keeps, Adopts
<1>7. CASE SyncApplied
  BY <1>7, <1>w DEF SyncApplied, EndSync, Serve, Flow, Keeps, Queues
<1>8. CASE Connect \/ ConnectFails \/ Retry \/ NoticeDrop
  BY <1>8 DEF Connect, ConnectFails, Retry, NoticeDrop, Leave, Flow, Keeps
<1>9. CASE Take
  <2>1. hand = None
    BY <1>9, Taken DEF TypeOK
  <2>2. Takes
    BY <1>9, <2>1, Taken, NoneApart DEF Take, Takes
  <2> QED
    BY <2>2 DEF Flow
<1> QED
  BY <1>0, <1>1, <1>2, <1>3, <1>4, <1>5, <1>6, <1>7, <1>8, <1>9
     DEF Next, Environment, NetconfMain, Forwarder, Flow

-----------------------------------------------------------------------------
(***************************************************************************)
(* One lemma per part of the invariant that speaks of configurations.      *)
(***************************************************************************)
LEMMA Versions ==
  ASSUME TypeOK
  PROVE  /\ \A e \in Element : source[e] \in Int /\ ru[e] \in Int
         /\ commits \in Nat
         /\ hand # None => \A e \in Element : hand[e] \in Int
         /\ last # None => \A e \in Element : last[e] \in Int
<1>1. \A c \in Config : \A e \in Element : c[e] \in Int
  BY DEF Config, Version
<1> QED
  BY <1>1 DEF TypeOK, Update

\* However an edit ends, each element is as it was or as the update has it.
LEMMA Edited ==
  ASSUME TypeOK, hand # None, Forward \/ Fail \/ Restart
  PROVE  \A e \in Element : ru'[e] = ru[e] \/ (hand[e] # Absent /\ ru'[e] = hand[e])
<1>1. ru \in Config /\ hand \in Config
  BY DEF TypeOK, Update
<1>2. PartlyMerged(hand)
  BY WholeMerge DEF Forward, Fail, Restart
<1> QED
  BY <1>1, <1>2, Merging

LEMMA HandIsLastStep == TypeOK /\ HandIsLast /\ Flow => HandIsLast'
<1> SUFFICES ASSUME TypeOK, HandIsLast, Flow PROVE HandIsLast'
  OBVIOUS
<1> USE DEF HandIsLast, Queued, environment, bootstrap, updates, session, raised
<1>1. CASE Keeps \/ Copies
  BY <1>1 DEF Keeps, Copies, content
<1>2. ASSUME NEW e \in Element, NEW v \in Version, Commit(e, v) PROVE HandIsLast'
  BY <1>2 DEF Commit
<1>3. ASSUME NEW e \in Element, Adopts(e) PROVE HandIsLast'
  BY <1>3 DEF Adopts
<1>4. CASE Queues \/ Restart \/ RuReboots
  BY <1>4 DEF Queues, Restart, RuReboots
<1>5. CASE Takes
  BY <1>5 DEF Takes
<1>6. CASE Forward \/ Fail
  BY <1>6 DEF Forward, Fail
<1> QED
  BY <1>1, <1>2, <1>3, <1>4, <1>5, <1>6 DEF Flow

LEMMA CopyFaithfulStep == TypeOK /\ SyncFirst /\ CopyFaithful /\ Flow => CopyFaithful'
<1> SUFFICES ASSUME TypeOK, SyncFirst, CopyFaithful, Flow PROVE CopyFaithful'
  OBVIOUS
<1> USE DEF CopyFaithful, environment, bootstrap, updates, session, raised
<1>t. source \in Config
  BY DEF TypeOK
<1>1. CASE Keeps \/ Copies
  BY <1>1 DEF Keeps, Copies, content
<1>2. ASSUME NEW e \in Element, NEW v \in Version, Commit(e, v) PROVE CopyFaithful'
  BY <1>2, <1>t DEF Commit, Config
<1>3. ASSUME NEW e \in Element, Adopts(e) PROVE CopyFaithful'
  BY <1>3 DEF Adopts, SyncFirst
<1>4. CASE Queues \/ Restart \/ RuReboots
  BY <1>4 DEF Queues, Restart, RuReboots
<1>5. CASE Takes
  BY <1>5 DEF Takes
<1>6. CASE Forward \/ Fail
  BY <1>6 DEF Forward, Fail
<1> QED
  BY <1>1, <1>2, <1>3, <1>4, <1>5, <1>6 DEF Flow

\* A commit is newer than every version; an edit moves the O-RU towards the
\* update, which everything that waits is newer than.
LEMMA InOrderStep ==
  TypeOK /\ SyncFirst /\ CopyFaithful /\ Committed /\ InOrder /\ Flow => InOrder'
<1> SUFFICES ASSUME TypeOK, SyncFirst, CopyFaithful, Committed, InOrder, Flow PROVE InOrder'
  OBVIOUS
<1> USE DEF InOrder, Before, Queued, environment, bootstrap, updates, session, raised
<1>t. source \in Config /\ ru \in Config /\ got \in Config /\ (Queued => last # None)
  BY DEF TypeOK, SyncFirst
<1>1. CASE Keeps
  BY <1>1 DEF Keeps, NotApplying, content
<1>8. CASE Copies
  BY <1>8, Versions DEF Copies
<1>9. CASE RuReboots
  <2>1. /\ \A e \in Element : ru'[e] \in {Own, Absent}
        /\ UNCHANGED <<source, got, hand, last, queue, main>>
    BY <1>9, OwnConfig DEF RuReboots
  <2>2. \A c \in Config : \A e \in Element : c[e] \in Int /\ c[e] >= Own
    <3>1. \A v \in Version : v \in Int /\ v >= Own
      BY DEF Version
    <3> QED
      BY <3>1 DEF Config
  <2>3. \A c \in Config : \A e \in Element : c[e] = Absent \/ ru'[e] = Absent \/ ru'[e] <= c[e]
    BY <2>1, <2>2
  <2>4. (hand # None => hand \in Config) /\ (last # None => last \in Config)
    BY DEF TypeOK, Update
  <2> QED
    BY <1>t, <2>1, <2>3, <2>4
<1>2. ASSUME NEW e \in Element, NEW v \in Version, Commit(e, v) PROVE InOrder'
  <2>1. /\ v \in {commits + 1, Absent}
        /\ \A d \in Element : source'[d] = (IF d = e THEN v ELSE source[d])
        /\ UNCHANGED <<ru, got, main, hand, last, queue>>
    BY <1>2, <1>t DEF Commit, Config
  <2>2. /\ ru[e] <= commits /\ (hand # None => hand[e] <= commits)
        /\ (last # None => last[e] <= commits)
    BY DEF Committed, Numbered
  <2> QED
    BY <1>t, <2>1, <2>2, Versions
<1>3. ASSUME NEW e \in Element, Adopts(e) PROVE InOrder'
  <2>1. /\ hand = None /\ queue = <<>> /\ Before(ru, got)
        /\ UNCHANGED <<ru, got, hand, last, queue>>
    BY <1>3 DEF Adopts, SyncFirst
  <2>2. \A d \in Element : source'[d] = (IF d = e THEN got[e] ELSE source[d])
    BY <1>3, <1>t, <2>1 DEF Adopts, Config
  <2> QED
    BY <2>1, <2>2, Versions
<1>4. CASE Queues
  BY <1>4, Versions DEF Queues
<1>5. CASE Restart
  <2>1. CASE hand = None
    BY <1>5, <2>1 DEF Restart
  <2>2. CASE hand # None
    <3>1. \A e \in Element : ru'[e] = ru[e] \/ (hand[e] # Absent /\ ru'[e] = hand[e])
      BY <1>5, <2>2, Edited
    <3>2. hand' = None /\ queue' = <<>> /\ source' = source /\ main' # "applying"
      BY <1>5 DEF Restart
    <3> QED
      BY <2>2, <3>1, <3>2
  <2> QED
    BY <2>1, <2>2
<1>6. CASE Takes
  BY <1>6 DEF Takes, NotApplying
<1>7. CASE Forward \/ Fail
  <2>1. hand # None
    BY <1>7 DEF Forward, Fail, TypeOK
  <2>2. \A e \in Element : ru'[e] = ru[e] \/ (hand[e] # Absent /\ ru'[e] = hand[e])
    BY <1>7, <2>1, Edited
  <2>3. hand' = None /\ UNCHANGED <<source, last, queue, main>> /\ main # "applying"
    BY <1>7, <2>1 DEF Forward, Fail, SyncFirst
  <2> QED
    BY <2>1, <2>2, <2>3
<1> QED
  BY <1>1, <1>2, <1>3, <1>4, <1>5, <1>6, <1>7, <1>8, <1>9 DEF Flow

LEMMA CommittedStep == TypeOK /\ SyncFirst /\ Committed /\ Flow => Committed'
<1> SUFFICES ASSUME TypeOK, SyncFirst, Committed, Flow PROVE Committed'
  OBVIOUS
<1> USE DEF Committed, Numbered, environment, bootstrap, updates, session, raised
<1>t. source \in Config /\ ru \in Config /\ got \in Config
  BY DEF TypeOK
<1>1. CASE Keeps \/ Copies
  BY <1>1 DEF Keeps, Copies, NotApplying, content
<1>8. CASE RuReboots
  <2>1. /\ \A e \in Element : ru'[e] \in {Own, Absent}
        /\ UNCHANGED <<source, got, hand, last, main, commits>>
    BY <1>8, OwnConfig DEF RuReboots
  <2>2. commits >= 0 /\ \A e \in Element : ru'[e] <= commits
    BY <2>1, Versions
  <2> QED
    BY <2>1, <2>2
<1>2. ASSUME NEW e \in Element, NEW v \in Version, Commit(e, v) PROVE Committed'
  <2>1. /\ v \in {commits + 1, Absent} /\ commits' = commits + 1
        /\ \A d \in Element : source'[d] = (IF d = e THEN v ELSE source[d])
        /\ UNCHANGED <<ru, got, main, hand, last>>
    BY <1>2, <1>t DEF Commit, Config
  <2>2. \A d \in Element : got[d] \in Int
    BY <1>t DEF Config, Version
  <2> QED
    BY <2>1, <2>2, Versions
<1>3. ASSUME NEW e \in Element, Adopts(e) PROVE Committed'
  <2>1. Numbered(got) /\ UNCHANGED <<ru, got, hand, last, commits>>
    BY <1>3 DEF Adopts
  <2>2. \A d \in Element : source'[d] = (IF d = e THEN got[e] ELSE source[d])
    BY <1>3, <1>t, <2>1 DEF Adopts, Config
  <2> QED
    BY <2>1, <2>2
<1>4. CASE Queues
  BY <1>4 DEF Queues
<1>5. CASE Restart /\ hand = None
  BY <1>5 DEF Restart
<1>6. CASE Takes
  BY <1>6 DEF Takes, NotApplying
<1>7. CASE Forward \/ Fail \/ (Restart /\ hand # None)
  <2>1. hand # None
    BY <1>7 DEF Forward, Fail, TypeOK
  <2>2. \A e \in Element : ru'[e] = ru[e] \/ (hand[e] # Absent /\ ru'[e] = hand[e])
    BY <1>7, <2>1, Edited
  <2>3. /\ hand' = None /\ UNCHANGED <<source, commits>> /\ (last' = last \/ last' = None)
        /\ main' # "applying"
    BY <1>7, <2>1 DEF Forward, Fail, Restart, SyncFirst
  <2> QED
    BY <2>1, <2>2, <2>3
<1> QED
  BY <1>1, <1>2, <1>3, <1>4, <1>5, <1>6, <1>7, <1>8 DEF Flow

\* The update queued last leaves the queue into the hand, and the hand onto
\* the O-RU, or is lost.
LEMMA NewestStep ==
  TypeOK /\ HandIsLast /\ NewestInHand /\ Flow => NewestInHand'
<1> SUFFICES ASSUME TypeOK, HandIsLast, NewestInHand, Flow PROVE NewestInHand'
  OBVIOUS
<1> USE DEF NewestInHand, RuHas, environment, bootstrap, updates, session, raised
<1>1. CASE Keeps \/ Copies
  BY <1>1 DEF Keeps, Copies, content
<1>2. ASSUME NEW e \in Element, NEW v \in Version, Commit(e, v) PROVE NewestInHand'
  BY <1>2 DEF Commit
<1>3. ASSUME NEW e \in Element, Adopts(e) PROVE NewestInHand'
  BY <1>3 DEF Adopts
<1>4. CASE Queues \/ Restart
  BY <1>4 DEF Queues, Restart
<1>8. CASE RuReboots
  <2>1. lost' = (last # None /\ queue = <<>>) /\ UNCHANGED <<queue, last>>
    BY <1>8 DEF RuReboots
  <2> QED
    BY <2>1 DEF TypeOK
<1>5. CASE Takes
  BY <1>5 DEF Takes
<1>6. CASE Forward
  <2>1. hand # None /\ ru' = Merged(hand, Element) /\ UNCHANGED <<queue, last, lost>>
    BY <1>6 DEF Forward, TypeOK
  <2>2. CASE queue = <<last>>
    BY <2>1, <2>2
  <2>3. CASE queue = <<>>
    <3>1. hand = last
      BY <2>1, <2>3 DEF HandIsLast, Queued
    <3>2. \A e \in Element : last[e] # Absent => ru'[e] = last[e]
      BY <2>1, <3>1 DEF Merged
    <3> QED
      BY <2>1, <3>2
  <2> QED
    BY <2>2, <2>3 DEF TypeOK
<1>7. CASE Fail
  BY <1>7 DEF Fail, TypeOK
<1> QED
  BY <1>1, <1>2, <1>3, <1>4, <1>5, <1>6, <1>7, <1>8 DEF Flow

LEMMA BootstrapKeptStep ==
  TypeOK /\ SyncFirst /\ CopyFaithful /\ BootstrapKept /\ Flow => BootstrapKept'
<1> SUFFICES ASSUME TypeOK, SyncFirst, CopyFaithful, BootstrapKept, Flow PROVE BootstrapKept'
  OBVIOUS
<1> USE DEF BootstrapKept, environment, bootstrap, updates, session, raised
<1>t. source \in Config /\ ru \in Config /\ adopted \subseteq Element
  BY DEF TypeOK
<1>1. CASE Keeps \/ Copies \/ Queues \/ Restart \/ RuReboots
  BY <1>1 DEF Keeps, Copies, content, Queues, Restart, RuReboots
<1>2. ASSUME NEW e \in Element, NEW v \in Version, Commit(e, v) PROVE BootstrapKept'
  BY <1>2, <1>t DEF Commit, Config
<1>3. ASSUME NEW e \in Element, Adopts(e) PROVE BootstrapKept'
  BY <1>3, <1>t DEF Adopts, Config
<1>4. CASE Takes
  BY <1>4 DEF Takes
<1>5. CASE Forward \/ Fail
  <2>1. hand # None
    BY <1>5 DEF Forward, Fail, TypeOK
  <2>2. \A e \in Element : ru'[e] = ru[e] \/ ru'[e] = hand[e]
    BY <1>5, <2>1, Edited
  <2>3. \A e \in adopted : hand[e] = source[e]
    BY <2>1 DEF CopyFaithful
  <2> QED
    BY <1>5, <1>t, <2>2, <2>3 DEF Forward, Fail
<1> QED
  BY <1>1, <1>2, <1>3, <1>4, <1>5 DEF Flow

-----------------------------------------------------------------------------
(* Flag and alarm *)

LEMMA OutageStep == TypeOK /\ OutageTold /\ [Next]_vars => OutageTold'
<1> SUFFICES ASSUME TypeOK, OutageTold, [Next]_vars PROVE OutageTold'
  OBVIOUS
<1> USE DEF OutageTold, environment, bootstrap, updates, session, raised
<1>k. UNCHANGED <<fw, flag, alarm, syncWrote>> => OutageTold'
  OBVIOUS
<1>l. Leave => OutageTold'
  BY DEF Leave, Tell
<1>0. CASE UNCHANGED vars
  BY <1>0, <1>k DEF vars
<1>1. ASSUME NEW e \in Element, NEW v \in Version, Commit(e, v) PROVE OutageTold'
  BY <1>1, <1>k DEF Commit
<1>2. CASE RuDrops \/ RuReboots \/ SourceDrops \/ Subscribe \/ HandleChange
  BY <1>2, <1>k DEF RuDrops, RuReboots, SourceDrops, Subscribe, HandleChange
<1>12. CASE ConnectSource \/ SyncRead \/ SyncApplied
  BY <1>12, <1>k DEF ConnectSource, SyncRead, SyncApplied
<1>3. ASSUME NEW e \in Element, SyncApply(e) PROVE OutageTold'
  BY <1>3, <1>k DEF SyncApply
<1>4. CASE Restart
  BY <1>4 DEF Restart
<1>5. CASE SyncConnect
  BY <1>5 DEF SyncConnect, Tell
<1>6. CASE Connect
  BY <1>6 DEF Connect, Tell
<1>7. CASE Retry
  BY <1>7 DEF Retry
<1>8. CASE ConnectFails \/ NoticeDrop
  BY <1>8, <1>l DEF ConnectFails, NoticeDrop
<1>9. CASE Take
  BY <1>9 DEF Take
<1>10. CASE Forward
  BY <1>10 DEF Forward
<1>11. CASE Fail
  BY <1>11, <1>l DEF Fail
<1> QED
  BY <1>0, <1>1, <1>2, <1>3, <1>4, <1>5, <1>6, <1>7, <1>8, <1>9, <1>10, <1>11, <1>12
     DEF Next, Environment, NetconfMain, Forwarder

-----------------------------------------------------------------------------
LEMMA InvStep == IInv /\ [Next]_vars => IInv'
<1> SUFFICES ASSUME IInv, [Next]_vars PROVE IInv'
  OBVIOUS
<1>1. TypeOK' /\ SyncFirst' /\ Flow
  BY TypeStep, SyncFirstStep, FlowStep DEF IInv
<1>2. HandIsLast' /\ CopyFaithful' /\ InOrder' /\ Committed'
  BY <1>1, HandIsLastStep, CopyFaithfulStep, InOrderStep, CommittedStep DEF IInv
<1>3. NewestInHand' /\ BootstrapKept' /\ OutageTold'
  BY <1>1, NewestStep, BootstrapKeptStep, OutageStep DEF IInv
<1> QED
  BY <1>1, <1>2, <1>3 DEF IInv

LEMMA Invariance == Spec => []IInv
  BY InvInit, InvStep, PTL DEF Spec

\* Datastores, queue, tasks and sessions keep their types, and one update waits
\* at most.
THEOREM TypeCorrect == Spec => []TypeOK
  BY Invariance, PTL DEF IInv

\* The update queued last waits, is being forwarded, is on the O-RU or has
\* failed, for any elements, commits, drops and restarts.
THEOREM NewestCorrect == Spec => []NewestInHand
  BY Invariance, PTL DEF IInv

\* What the bootstrap copied is not overwritten by what the source held before.
THEOREM BootstrapCorrect == Spec => []BootstrapKept
  BY Invariance, PTL DEF IInv

\* Flag and alarm tell the session, but for the bootstrap's own connect.
THEOREM OutageCorrect == Spec => []OutageTold
  BY Invariance, PTL DEF IInv

\* No edit, whole or in part, takes an element of the O-RU back to an older
\* commit: what is being forwarded is never older than what the O-RU has.
LEMMA NoStepBack ==
  IInv /\ [Next]_vars => [reboots' # reboots \/ \A e \in Element : ru'[e] >= ru[e] \/ ru[e] = Absent]_vars
<1> SUFFICES ASSUME IInv, Next, reboots' = reboots, NEW e \in Element PROVE ru'[e] >= ru[e] \/ ru[e] = Absent
  OBVIOUS
<1>1. Flow /\ TypeOK /\ InOrder
  BY TypeStep, FlowStep DEF IInv
<1>2. CASE ru' = ru
  BY <1>1, <1>2, Versions
<1>3. CASE ru' # ru
  <2>0. ~RuReboots
    BY <1>1 DEF RuReboots, TypeOK
  <2>1. hand # None /\ (Forward \/ Fail \/ Restart)
    BY <1>1, <1>3, <2>0 DEF Flow, Keeps, content, Commit, Restart, Queues, Copies, Adopts, Takes, Forward, Fail, TypeOK
  <2>2. ru'[e] = ru[e] \/ (hand[e] # Absent /\ ru'[e] = hand[e])
    BY <1>1, <2>1, Edited
  <2>3. ru[e] = Absent \/ hand[e] = Absent \/ ru[e] <= hand[e]
    BY <1>1, <2>1 DEF InOrder, Before
  <2> QED
    BY <1>1, <2>1, <2>2, <2>3, Versions
<1> QED
  BY <1>2, <1>3

\* The O-RU never goes back, over failed edits, lost sessions and restarts.
THEOREM ForwardCorrect == Spec => RuNeverGoesBack
  BY Invariance, NoStepBack, PTL DEF Spec, RuNeverGoesBack
=============================================================================
